----------------------- MODULE FtpMasterCallProofs -----------------------
(***************************************************************************)
(* More proofs about FtpMaster: when the clients that are called answer    *)
(* and none vanishes before its session, every slave that is busy has a    *)
(* client unless its session ended without a report, and an address is     *)
(* only given to a slave that waits for it or has ended; when nobody is    *)
(* killed either, what is recorded is what is owed, but for the records    *)
(* that a resume took with it.                                             *)
(*                                                                         *)
(* The inductive invariant adds to the table of FtpMasterProofs the        *)
(* clients: which of them is at the other end of a slave's connection;     *)
(* and then the transfers that were cut: each is reported, or recorded, or *)
(* resumed.                                                                *)
(***************************************************************************)
EXTENDS FtpMasterProofs, FiniteSetTheorems

\* No client vanishes before its session, and the clients called answer.
Punctual == Faults \cap {"resume", "dial"} = {}

ClientStates == {"out", "dialed", "listening", "accepted", "served"}
\* While the pipe is said to be readable, there is an address in it.
CallTypes ==
    /\ cs \in [Clients -> ClientStates]
    /\ tube \in Seq(Clients)
    /\ sc = [i \in Slaves |-> sc[i]]
    /\ late \in [Slaves -> BOOLEAN]
    /\ lost \in [Slaves -> BOOLEAN]
    /\ untold \in [Slaves -> BOOLEAN]
    /\ tubeRdy /\ dpc \in {"scan"} \cup Reg => tube # <<>>

\* A client that waits to be called.
Patient(c) == c \in Clients /\ cs[c] \in {"dialed", "listening"}

\* An address is in the pipe once, and its client waits.
InTube(c) == \E k \in 1 .. Len(tube) : tube[k] = c
TubeSound ==
    /\ \A k, l \in 1 .. Len(tube) : tube[k] = tube[l] => k = l
    /\ \A k \in 1 .. Len(tube) : Patient(tube[k])

\* The slave has not yet called the client it was given.
Calling(i) ==
    \/ sp[i] = "idle" /\ m2s[i] = <<cur>>
    \/ sp[i] = "connect" /\ sc[i] = cur

Answered == {"wait_info", "rcv_name", "rcv_bytes", "resume"}

\* The end of a session is still to be read.
Ending == {<<"FINISHED">>, <<"CRASHED">>, <<"OK", "FINISHED">>, <<"OK", "CRASHED">>}

\* It is never to be: the session ended without a report.
NeverTold(i) == untold[i] /\ s2m[i] \in {<<>>, <<"OK">>}

\* What is not in the table of Matched when clients are punctual.
Prompt(i) ==
    /\ sp[i] = "idle" /\ m2s[i] = <<>> =>
          /\ busy[i] = 1 => s2m[i] \in Ending \/ NeverTold(i)
          /\ busy[i] = 0 /\ ~ Engaged(i) => s2m[i] = <<>>
          /\ Engaged(i) => s2m[i] # <<"name", "CRASHED">>
    /\ dpc = "wait_ok" /\ id = i =>
          /\ s2m[i] \in {<<>>, <<"OK">>}
          /\ sp[i] # "wait_info" => Calling(i) /\ Patient(cur) /\ ~ InTube(cur)
    /\ sp[i] = "connect" \/ (sp[i] = "idle" /\ m2s[i] # <<>>) => dpc = "wait_ok" /\ id = i
    /\ sp[i] = "wait_info" /\ m2s[i] = <<>> => dpc = "wait_ok" /\ id = i
    /\ late[i] => sp[i] \in {"resume", "spin", "idle"}
    /\ lost[i] => sp[i] \notin {"connect"} \cup Answered /\ \A c \in Clients : conn[c] # i
    /\ sp[i] \in Answered => sc[i] \in Clients /\ conn[sc[i]] = i

\* The two ends of a connection agree.
Connected(c) ==
    conn[c] # NoSlave =>
        /\ sc[conn[c]] = c
        /\ \/ cs[c] = "accepted" /\ sp[conn[c]] \in Answered
           \/ cs[c] = "served" /\ sp[conn[c]] = "session"

CallSound ==
    /\ TubeSound
    /\ \A i \in Slaves : Alive(i) => Prompt(i)
    /\ \A c \in Clients : Connected(c)

CallInv == CallTypes /\ (dpc # "dead" => CallSound)

-----------------------------------------------------------------------------
(* The invariant holds initially.                                          *)

LEMMA CallInvInit == Init => CallInv
<1> SUFFICES ASSUME Init PROVE CallInv
  OBVIOUS
<1>1. CallTypes
  BY DEF Init, CallTypes, ClientStates, Reg
<1>2. TubeSound
  BY DEF Init, TubeSound
<1>3. ASSUME NEW i \in Slaves PROVE Prompt(i)
  BY <1>3 DEF Init, Prompt, Engaged, Reg, Waits, Answered
<1>4. ASSUME NEW c \in Clients PROVE Connected(c)
  BY <1>4 DEF Init, Connected
<1> QED BY <1>1, <1>2, <1>3, <1>4 DEF CallInv, CallSound

-----------------------------------------------------------------------------
(* Frames.                                                                 *)

\* Slave s moves, and only its own client may notice.
Quiet(s) ==
    /\ Touches(s) /\ UNCHANGED <<cur, tube>>
    /\ \A i \in Slaves \ {s} : late'[i] = late[i] /\ lost'[i] = lost[i] /\ sc'[i] = sc[i]
                                  /\ untold'[i] = untold[i]
    /\ \A c \in Clients :
          /\ conn[c] \notin {s, NoSlave} => conn'[c] = conn[c] /\ cs'[c] = cs[c]
          /\ conn'[c] \notin {s, NoSlave} => conn'[c] = conn[c]
          /\ Patient(c) /\ (InTube(c) \/ ~ (dpc = "wait_ok" /\ id = s)) => Patient(c)'

LEMMA TouchesApart ==
    ASSUME Types, NEW s \in Slaves, Touches(s)
    PROVE  Apart(s)
  BY DEF Types, Apart, Touches

LEMMA QuietKeeps ==
    ASSUME SocketInv, CallInv, dpc # "dead", NEW s \in Slaves, Quiet(s),
           Alive(s)' => Prompt(s)',
           \A c \in Clients : conn'[c] = s => Connected(c)'
    PROVE  CallSound'
<1>2. Apart(s) /\ UNCHANGED <<dpc, id, busy, cur, tube>>
  BY TouchesApart DEF Quiet, Touches, SocketInv
<1>3. TubeSound /\ (\A i \in Slaves : Alive(i) => Prompt(i)) /\ \A c \in Clients : Connected(c)
  BY DEF CallInv, CallSound
<1>4. TubeSound'
  <2>1. \A k \in 1 .. Len(tube) : Patient(tube[k]) /\ InTube(tube[k]) /\ tube[k] \in Clients
    BY <1>3 DEF TubeSound, InTube, Patient
  <2>2. \A k \in 1 .. Len(tube) : Patient(tube[k])'
    BY <1>2, <2>1 DEF Quiet, Patient
  <2> QED BY <1>2, <1>3, <2>2 DEF TubeSound, Patient
<1>5. ASSUME NEW i \in Slaves \ {s}, Alive(i)' PROVE Prompt(i)'
  <2>1. /\ sp'[i] = sp[i] /\ m2s'[i] = m2s[i] /\ s2m'[i] = s2m[i] /\ busy'[i] = busy[i]
        /\ late'[i] = late[i] /\ lost'[i] = lost[i] /\ sc'[i] = sc[i]
            /\ untold'[i] = untold[i]
    BY <1>2 DEF Apart, Quiet
  <2>2. Prompt(i) /\ Engaged(i)' = Engaged(i)
    BY <1>2, <1>3, <1>5, <2>1 DEF Alive, Engaged
  <2>3. i # NoSlave
    BY MasterAssumption DEF Slaves, NoSlave
  <2>4. \A c \in Clients : conn[c] = i => conn'[c] = i
    BY <2>3 DEF Quiet
  <2>5. \A c \in Clients : conn'[c] = i => conn[c] = i
    BY <2>3 DEF Quiet
  <2>6. id = i /\ Patient(cur) /\ ~ InTube(cur) => Patient(cur)' /\ ~ InTube(cur)'
    BY <1>2 DEF Quiet, Patient, InTube
  <2>7. (sp[i] = "idle" /\ m2s[i] = <<>> =>
            /\ busy[i] = 1 => s2m[i] \in Ending \/ NeverTold(i)
            /\ busy[i] = 0 /\ ~ Engaged(i) => s2m[i] = <<>>
            /\ Engaged(i) => s2m[i] # <<"name", "CRASHED">>)'
    BY <2>1, <2>2 DEF Prompt, NeverTold
  <2>8. (dpc = "wait_ok" /\ id = i =>
            /\ s2m[i] \in {<<>>, <<"OK">>}
            /\ sp[i] # "wait_info" => Calling(i) /\ Patient(cur) /\ ~ InTube(cur))'
    BY <1>2, <2>1, <2>2, <2>6 DEF Prompt, Calling
  <2>9. (/\ sp[i] = "connect" \/ (sp[i] = "idle" /\ m2s[i] # <<>>) => dpc = "wait_ok" /\ id = i
         /\ sp[i] = "wait_info" /\ m2s[i] = <<>> => dpc = "wait_ok" /\ id = i
         /\ late[i] => sp[i] \in {"resume", "spin", "idle"})'
    BY <1>2, <2>1, <2>2 DEF Prompt
  <2>10. (/\ lost[i] => sp[i] \notin {"connect"} \cup Answered /\ \A c \in Clients : conn[c] # i
          /\ sp[i] \in Answered => sc[i] \in Clients /\ conn[sc[i]] = i)'
    BY <2>1, <2>2, <2>4, <2>5 DEF Prompt
  <2> QED BY <2>7, <2>8, <2>9, <2>10 DEF Prompt
<1>6. ASSUME NEW c \in Clients, conn'[c] # s PROVE Connected(c)'
  <2>1. CASE conn'[c] = NoSlave
    BY <2>1 DEF Connected
  <2>2. CASE conn'[c] # NoSlave
    <3>1. conn[c] = conn'[c] /\ cs'[c] = cs[c]
      BY <1>6, <2>2 DEF Quiet
    <3>2. conn[c] \in Slaves \ {s}
      BY <1>6, <2>2, <3>1 DEF SocketInv, Types
    <3> QED BY <1>2, <1>3, <3>1, <3>2 DEF Connected, Apart, Quiet
  <2> QED BY <2>1, <2>2
<1> QED BY <1>4, <1>5, <1>6 DEF CallSound

-----------------------------------------------------------------------------
(* The types, at every step.                                               *)

LEMMA CallTypesDispatcher ==
    ASSUME SocketInv, CallTypes, DispatcherStep
    PROVE  CallTypes'
<1>1. UNCHANGED <<cs, sc, late, lost, untold>>
  BY DEF DispatcherStep, Select, Scan, RegIp, RegBytes, RegName, ScanEnds, Dispatch, Refuse,
         WaitOk, WaitOk2, WaitOk3, WaitTimeout, client, slave, history
<1>2. CASE Dispatch \/ Refuse
  <2>1. tube # <<>> /\ tube' = Tail(tube) /\ dpc' \in {"select", "wait_ok", "dead"}
    BY <1>2 DEF Dispatch, Refuse, CallTypes, Send
  <2>2. tube' \in Seq(Clients)
    BY <2>1, HeadTailProperties DEF CallTypes
  <2> QED BY <1>1, <2>1, <2>2 DEF CallTypes, Reg
<1>3. CASE Select
  BY <1>1, <1>3 DEF Select, CallTypes
<1>4. CASE Scan \/ RegIp \/ RegBytes \/ RegName
  <2>1. dpc \in {"scan"} \cup Reg /\ UNCHANGED <<tube, tubeRdy>>
    BY <1>4 DEF Scan, RegIp, RegBytes, RegName, Reg
  <2> QED BY <1>1, <2>1 DEF CallTypes
<1>5. CASE ScanEnds \/ WaitOk \/ WaitOk2 \/ WaitOk3 \/ WaitTimeout
  <2>1. dpc' \notin {"scan"} \cup Reg /\ UNCHANGED <<tube, tubeRdy>>
    BY <1>5 DEF ScanEnds, WaitOk, WaitOk2, WaitOk3, WaitTimeout, Send, Reg
  <2> QED BY <1>1, <2>1 DEF CallTypes
<1> QED BY <1>2, <1>3, <1>4, <1>5 DEF DispatcherStep

LEMMA CallTypesSlave ==
    ASSUME SocketInv, CallTypes, NEW s \in Slaves,
           SlaveStep(s) \/ TransferCut(s) \/ SlaveDies(s) \/ MasterGone(s)
    PROVE  CallTypes'
<1>1. UNCHANGED <<dpc, tube, tubeRdy>>
  BY DEF SlaveStep, TransferCut, SlaveDies, MasterGone, SlaveReadsIp, SlaveConnects, SlaveRefused,
     SlaveDefault, SlaveCrashed, SlaveName, SlaveBytes, SlaveInfoTimeout, ResumeDone, ResumeBroken,
     ResumeFails, ReportIp, ReportBytes, ReportName, ReportFails, SessionExit, SessionTimeout,
     SessionRefused, UploadCut, master
<1>2. /\ sc' = [i \in Slaves |-> sc'[i]] /\ late' \in [Slaves -> BOOLEAN]
      /\ lost' \in [Slaves -> BOOLEAN]
  BY DEF SlaveStep, TransferCut, SlaveDies, MasterGone, SlaveReadsIp, SlaveConnects, SlaveRefused,
     SlaveDefault, SlaveCrashed, SlaveName, SlaveBytes, SlaveInfoTimeout, ResumeDone, ResumeBroken,
     ResumeFails, ReportIp, ReportBytes, ReportName, ReportFails, SessionExit, SessionTimeout,
     SessionRefused, UploadCut, CallTypes
<1>3. cs' \in [Clients -> ClientStates]
  <2>1. CASE UNCHANGED cs
    BY <2>1 DEF CallTypes
  <2>2. CASE \/ SlaveConnects(s) \/ SlaveDefault(s) \/ ResumeDone(s) \/ ResumeBroken(s)
             \/ SessionExit(s)
    BY <2>2 DEF SlaveConnects, SlaveDefault, ResumeDone, ResumeBroken, SessionExit, CallTypes,
       ClientStates, client
  <2> QED BY <2>1, <2>2 DEF SlaveStep, TransferCut, SlaveDies, MasterGone, SlaveReadsIp, SlaveRefused,
        SlaveCrashed, SlaveName, SlaveBytes, SlaveInfoTimeout, ResumeFails, ReportIp, ReportBytes,
        ReportName, ReportFails, SessionTimeout, SessionRefused, UploadCut, client
<1>4. untold' \in [Slaves -> BOOLEAN]
  <2>1. CASE UNCHANGED untold
    BY <2>1 DEF CallTypes
  <2>2. CASE SlaveReadsIp(s) \/ SessionRefused(s)
    BY <2>2 DEF SlaveReadsIp, SessionRefused, CallTypes
  <2> QED BY <2>1, <2>2 DEF SlaveStep, TransferCut, SlaveDies, MasterGone, SlaveConnects,
        SlaveRefused, SlaveDefault, SlaveCrashed, SlaveName, SlaveBytes, SlaveInfoTimeout,
        ResumeDone, ResumeBroken, ResumeFails, Dropped, ReportIp, ReportBytes, ReportName,
        ReportFails, SessionExit, SessionTimeout, UploadCut, history
<1> QED BY <1>1, <1>2, <1>3, <1>4 DEF CallTypes

LEMMA CallTypesClient ==
    ASSUME SocketInv, CallTypes, NEW c \in Clients,
           \/ Dial(c) \/ Listen(c) \/ HangUp(c) \/ Abandoned(c)
           \/ ClientVanishes(c) \/ ClientKilled(c)
    PROVE  CallTypes'
<1>1. UNCHANGED <<dpc, tubeRdy, sc, late>> /\ cs' \in [Clients -> ClientStates]
      /\ lost' \in [Slaves -> BOOLEAN] /\ untold' \in [Slaves -> BOOLEAN]
  BY DEF Dial, Listen, HangUp, Abandoned, ClientVanishes, ClientKilled, Dropped, master,
         slave, history, CallTypes, ClientStates
<1>2. CASE tube' = tube
  BY <1>1, <1>2 DEF CallTypes
<1>3. CASE tube' = Append(tube, c)
  <2>1. tube' \in Seq(Clients) /\ tube' # <<>>
    BY <1>3, AppendProperties DEF CallTypes
  <2> QED BY <1>1, <2>1 DEF CallTypes
<1> QED BY <1>2, <1>3 DEF Dial, Listen, HangUp, Abandoned, ClientVanishes, ClientKilled

-----------------------------------------------------------------------------
(* The steps of a slave.                                                   *)

\* What the invariant says of a slave, its socket and its client.
LEMMA SlaveKnows ==
    ASSUME SocketInv, CallInv, dpc # "dead", NEW s \in Slaves, Alive(s)
    PROVE  /\ Matched(s) /\ Prompt(s)
           /\ \A c \in Clients : conn[c] = s =>
                 /\ sc[s] = c
                 /\ \/ cs[c] = "accepted" /\ sp[s] \in Answered
                    \/ cs[c] = "served" /\ sp[s] = "session"
           /\ s # NoSlave
  BY MasterAssumption DEF SocketInv, AllMatched, CallInv, CallSound, Connected, Slaves, NoSlave

\* The slave reads and writes, and its connection is left alone.
LEMMA StillConnected ==
    ASSUME SocketInv, CallInv, dpc # "dead", NEW s \in Slaves, Touches(s),
           UNCHANGED <<cur, tube, cs, conn>>,
           \A i \in Slaves \ {s} : late'[i] = late[i] /\ lost'[i] = lost[i] /\ sc'[i] = sc[i]
                                      /\ untold'[i] = untold[i],
           \/ sp[s] \in Answered /\ sp'[s] \in Answered /\ sc'[s] = sc[s]
           \/ \A c \in Clients : conn[c] # s,
           Alive(s)' => Prompt(s)'
    PROVE  CallSound'
<1>1. Alive(s)
  BY DEF Touches, Alive
<1>2. Quiet(s)
  BY DEF Quiet, Patient
<1>3. \A c \in Clients : conn'[c] = s => Connected(c)'
  BY <1>1, SlaveKnows DEF Connected, Answered
<1> QED BY <1>2, <1>3, QuietKeeps

\* The slave closes its connection, or has none.
LEMMA Disconnected ==
    ASSUME SocketInv, CallInv, dpc # "dead", NEW s \in Slaves, Touches(s), Unlinked(s),
           UNCHANGED <<cur, tube>>,
           \A i \in Slaves \ {s} : late'[i] = late[i] /\ lost'[i] = lost[i] /\ sc'[i] = sc[i]
                                      /\ untold'[i] = untold[i],
           \/ UNCHANGED cs
           \/ \E d \in Clients : /\ conn[d] = s /\ cs[d] \in {"accepted", "served"}
                                 /\ cs' = [cs EXCEPT ![d] = "out"],
           Alive(s)' => Prompt(s)'
    PROVE  CallSound'
<1>1. Alive(s) /\ s # NoSlave
  BY MasterAssumption DEF Touches, Alive, Slaves, NoSlave
<1>2. \A c \in Clients : conn'[c] = IF conn[c] = s THEN NoSlave ELSE conn[c]
  BY DEF Unlinked
<1>3. \A c \in Clients :
          /\ conn[c] # s => cs'[c] = cs[c]
          /\ Patient(c) => Patient(c)'
  BY DEF CallInv, CallTypes, Patient
<1>4. \A c \in Clients :
          /\ conn[c] \notin {s, NoSlave} => conn'[c] = conn[c] /\ cs'[c] = cs[c]
          /\ conn'[c] \notin {s, NoSlave} => conn'[c] = conn[c]
  <2> TAKE c \in Clients
  <2>1. conn[c] # s => conn'[c] = conn[c] /\ cs'[c] = cs[c]
    BY <1>2, <1>3
  <2>2. conn[c] = s => conn'[c] = NoSlave
    BY <1>2
  <2> QED BY <2>1, <2>2
<1>5. Quiet(s)
  BY <1>3, <1>4 DEF Quiet, Patient
<1> QED BY <1>1, <1>2, <1>5, QuietKeeps

LEMMA SlaveReadsIpCalls ==
    ASSUME SocketInv, CallInv, dpc # "dead", NEW s \in Slaves, SlaveReadsIp(s)
    PROVE  CallSound'
<1>1. /\ Touches(s) /\ UNCHANGED <<dpc, id, busy, cur, tube, cs, conn>>
      /\ \A i \in Slaves \ {s} : late'[i] = late[i] /\ lost'[i] = lost[i] /\ sc'[i] = sc[i]
                                    /\ untold'[i] = untold[i]
      /\ sp[s] = "idle" /\ m2s[s] # <<>> /\ sp'[s] = "connect" /\ s2m'[s] = s2m[s]
      /\ sc'[s] = Head(m2s[s]) /\ ~ late'[s] /\ ~ lost'[s]
  BY DEF SlaveReadsIp, Consumed, At, master, client, history, SocketInv, Types, CallInv, CallTypes, Touches, Places
<1>2. Matched(s) /\ Prompt(s)
  BY <1>1, SlaveKnows DEF Alive, Touches
<1>3. dpc = "wait_ok" /\ id = s /\ busy[s] = 1 /\ Calling(s) /\ Patient(cur) /\ ~ InTube(cur)
  BY <1>1, <1>2, MasterAssumption, ReadOff DEF Prompt, Calling, Engaged, Reg, Waits, Ending, Answered, Patient, InTube,
     Matched, Free, Busy, AsksClient, AsksResume, AsksName, Reports, LastPart, Hears
<1>4. sc'[s] = cur /\ s2m[s] \in {<<>>, <<"OK">>}
  BY <1>1, <1>2, <1>3, ReadOff DEF Calling, Prompt
<1>5. Prompt(s)'
  BY <1>1, <1>3, <1>4 DEF Prompt, Calling, Engaged, Reg, Waits, Answered, Patient, InTube
<1>6. \A c \in Clients : conn[c] # s
  BY <1>1, SlaveKnows DEF Alive, Touches, Answered
<1> QED BY <1>1, <1>5, <1>6, StillConnected

LEMMA SlaveCrashedCalls ==
    ASSUME SocketInv, CallInv, dpc # "dead", NEW s \in Slaves, SlaveCrashed(s)
    PROVE  CallSound'
<1>1. /\ Touches(s) /\ UNCHANGED <<dpc, id, busy, cur, tube, cs, conn>>
      /\ \A i \in Slaves \ {s} : late'[i] = late[i] /\ lost'[i] = lost[i] /\ sc'[i] = sc[i]
                                    /\ untold'[i] = untold[i]
      /\ sp[s] = "wait_info" /\ Hears(s, "CRASHED") /\ sp'[s] = "rcv_name"
      /\ sc' = sc /\ late' = late /\ lost' = lost
  BY DEF SlaveCrashed, Consumed, Tell, At, master, client, history, SocketInv, Types, CallInv, CallTypes, Touches, Places
<1>2. Matched(s) /\ Prompt(s)
  BY <1>1, SlaveKnows DEF Alive, Touches
<1>3. id = s /\ dpc = "wait_ok2" /\ busy[s] = 1
  BY <1>1, <1>2, MasterAssumption, ReadOff DEF Prompt, Calling, Engaged, Reg, Waits, Ending, Answered, Patient, InTube,
     Matched, Free, Busy, AsksClient, AsksResume, AsksName, Reports, LastPart, Hears
<1>4. Prompt(s)'
  BY <1>1, <1>2, <1>3 DEF Prompt, Engaged, Reg, Waits, Answered
<1> QED BY <1>1, <1>4, StillConnected DEF Answered

LEMMA SlaveNameCalls ==
    ASSUME SocketInv, CallInv, dpc # "dead", NEW s \in Slaves, SlaveName(s)
    PROVE  CallSound'
<1>1. /\ Touches(s) /\ UNCHANGED <<dpc, id, busy, cur, tube, cs, conn>>
      /\ \A i \in Slaves \ {s} : late'[i] = late[i] /\ lost'[i] = lost[i] /\ sc'[i] = sc[i]
                                    /\ untold'[i] = untold[i]
      /\ sp[s] = "rcv_name" /\ sp'[s] = "rcv_bytes"
      /\ sc' = sc /\ late' = late /\ lost' = lost
  BY DEF SlaveName, Consumed, Tell, At, master, client, history, SocketInv, Types, CallInv, CallTypes, Touches, Places
<1>2. Matched(s) /\ Prompt(s)
  BY <1>1, SlaveKnows DEF Alive, Touches
<1>3. dpc # "wait_ok" \/ id # s
  BY <1>1, <1>2, MasterAssumption, ReadOff DEF Prompt, Calling, Engaged, Reg, Waits, Ending, Answered, Patient, InTube,
     Matched, Free, Busy, AsksClient, AsksResume, AsksName, Reports, LastPart, Hears
<1>4. Prompt(s)'
  BY <1>1, <1>2, <1>3 DEF Prompt, Engaged, Reg, Waits, Answered
<1> QED BY <1>1, <1>4, StillConnected DEF Answered

LEMMA SlaveBytesCalls ==
    ASSUME SocketInv, CallInv, dpc # "dead", NEW s \in Slaves, SlaveBytes(s)
    PROVE  CallSound'
<1>1. /\ Touches(s) /\ UNCHANGED <<dpc, id, busy, cur, tube, cs, conn>>
      /\ \A i \in Slaves \ {s} : late'[i] = late[i] /\ lost'[i] = lost[i] /\ sc'[i] = sc[i]
                                    /\ untold'[i] = untold[i]
      /\ sp[s] = "rcv_bytes" /\ sp'[s] = "resume"
      /\ sc' = sc /\ lost' = lost
  BY DEF SlaveBytes, Consumed, At, master, client, history, SocketInv, Types, CallInv, CallTypes, Touches, Places
<1>2. Matched(s) /\ Prompt(s)
  BY <1>1, SlaveKnows DEF Alive, Touches
<1>3. dpc # "wait_ok" \/ id # s
  BY <1>1, <1>2, MasterAssumption, ReadOff DEF Prompt, Calling, Engaged, Reg, Waits, Ending, Answered, Patient, InTube,
     Matched, Free, Busy, AsksClient, AsksResume, AsksName, Reports, LastPart, Hears
<1>4. Prompt(s)'
  BY <1>1, <1>2, <1>3 DEF Prompt, Engaged, Reg, Waits, Answered
<1> QED BY <1>1, <1>4, StillConnected DEF Answered

LEMMA TransferCutCalls ==
    ASSUME SocketInv, CallInv, dpc # "dead", NEW s \in Slaves, TransferCut(s)
    PROVE  CallSound'
<1>1. /\ Touches(s) /\ UNCHANGED <<dpc, id, busy, cur, tube, cs, conn>>
      /\ \A i \in Slaves \ {s} : late'[i] = late[i] /\ lost'[i] = lost[i] /\ sc'[i] = sc[i]
                                    /\ untold'[i] = untold[i]
      /\ sp[s] \in {"resume", "session"} /\ lost[s] /\ sp'[s] = "rep1"
      /\ sc' = sc /\ late' = late /\ lost' = lost
  BY DEF TransferCut, Tell, At, master, client, history, SocketInv, Types, CallInv, CallTypes, Touches, Places
<1>2. Matched(s) /\ Prompt(s)
  BY <1>1, SlaveKnows DEF Alive, Touches
<1>3. /\ sp[s] = "session" /\ ~ late[s] /\ ~ Engaged(s)
      /\ \A c \in Clients : conn[c] # s
  BY <1>1, <1>2, MasterAssumption, ReadOff DEF Prompt, Calling, Engaged, Reg, Waits, Ending, Answered, Patient, InTube,
     Matched, Free, Busy, AsksClient, AsksResume, AsksName, Reports, LastPart, Hears
<1>4. Prompt(s)'
  BY <1>1, <1>2, <1>3 DEF Prompt, Engaged, Reg, Waits, Answered
<1>5. \A c \in Clients : conn[c] # s
  BY <1>1, <1>3, SlaveKnows DEF Alive, Touches, Answered, Prompt
<1> QED BY <1>1, <1>4, <1>5, StillConnected

LEMMA ReportIpCalls ==
    ASSUME SocketInv, CallInv, dpc # "dead", NEW s \in Slaves, ReportIp(s)
    PROVE  CallSound'
<1>1. /\ Touches(s) /\ UNCHANGED <<dpc, id, busy, cur, tube, cs, conn>>
      /\ \A i \in Slaves \ {s} : late'[i] = late[i] /\ lost'[i] = lost[i] /\ sc'[i] = sc[i]
                                    /\ untold'[i] = untold[i]
      /\ sp[s] = "rep1" /\ sp'[s] = "rep2"
      /\ sc' = sc /\ late' = late /\ lost' = lost
  BY DEF ReportIp, Consumed, Tell, At, master, client, history, SocketInv, Types, CallInv, CallTypes, Touches, Places
<1>2. Matched(s) /\ Prompt(s)
  BY <1>1, SlaveKnows DEF Alive, Touches
<1>3. ~ late[s] /\ (dpc # "wait_ok" \/ id # s)
  BY <1>1, <1>2, MasterAssumption, ReadOff DEF Prompt, Calling, Engaged, Reg, Waits, Ending, Answered, Patient, InTube,
     Matched, Free, Busy, AsksClient, AsksResume, AsksName, Reports, LastPart, Hears
<1>4. Prompt(s)'
  BY <1>1, <1>2, <1>3 DEF Prompt, Engaged, Reg, Waits, Answered
<1>5. \A c \in Clients : conn[c] # s
  BY <1>1, <1>3, SlaveKnows DEF Alive, Touches, Answered, Prompt
<1> QED BY <1>1, <1>4, <1>5, StillConnected

LEMMA ReportBytesCalls ==
    ASSUME SocketInv, CallInv, dpc # "dead", NEW s \in Slaves, ReportBytes(s)
    PROVE  CallSound'
<1>1. /\ Touches(s) /\ UNCHANGED <<dpc, id, busy, cur, tube, cs, conn>>
      /\ \A i \in Slaves \ {s} : late'[i] = late[i] /\ lost'[i] = lost[i] /\ sc'[i] = sc[i]
                                    /\ untold'[i] = untold[i]
      /\ sp[s] = "rep2" /\ sp'[s] = "rep3"
      /\ sc' = sc /\ late' = late /\ lost' = lost
  BY DEF ReportBytes, Consumed, Tell, At, master, client, history, SocketInv, Types, CallInv, CallTypes, Touches, Places
<1>2. Matched(s) /\ Prompt(s)
  BY <1>1, SlaveKnows DEF Alive, Touches
<1>3. ~ late[s] /\ (dpc # "wait_ok" \/ id # s)
  BY <1>1, <1>2, MasterAssumption, ReadOff DEF Prompt, Calling, Engaged, Reg, Waits, Ending, Answered, Patient, InTube,
     Matched, Free, Busy, AsksClient, AsksResume, AsksName, Reports, LastPart, Hears
<1>4. Prompt(s)'
  BY <1>1, <1>2, <1>3 DEF Prompt, Engaged, Reg, Waits, Answered
<1>5. \A c \in Clients : conn[c] # s
  BY <1>1, <1>3, SlaveKnows DEF Alive, Touches, Answered, Prompt
<1> QED BY <1>1, <1>4, <1>5, StillConnected

LEMMA ReportNameCalls ==
    ASSUME SocketInv, CallInv, dpc # "dead", NEW s \in Slaves, ReportName(s)
    PROVE  CallSound'
<1>1. /\ Touches(s) /\ UNCHANGED <<dpc, id, busy, cur, tube, cs, conn>>
      /\ \A i \in Slaves \ {s} : late'[i] = late[i] /\ lost'[i] = lost[i] /\ sc'[i] = sc[i]
                                    /\ untold'[i] = untold[i]
      /\ sp[s] = "rep3" /\ Hears(s, "OK") /\ sp'[s] = "idle"
      /\ m2s'[s] = Tail(m2s[s]) /\ s2m'[s] = s2m[s] \o EndOfReport(s)
      /\ sc' = sc /\ late' = late /\ lost' = lost
  BY DEF ReportName, Consumed, Tell, At, master, client, history, SocketInv, Types, CallInv, CallTypes, Touches, Places
<1>2. Matched(s) /\ Prompt(s)
  BY <1>1, SlaveKnows DEF Alive, Touches
<1>3. /\ ~ late[s] /\ id = s /\ dpc = "reg_name" /\ busy[s] = 0
      /\ m2s[s] = <<"OK">> /\ s2m[s] = <<>>
  BY <1>1, <1>2, MasterAssumption, ReadOff DEF Prompt, Calling, Engaged, Reg, Waits, Ending, Answered, Patient, InTube,
     Matched, Free, Busy, AsksClient, AsksResume, AsksName, Reports, LastPart, Hears
<1>9. m2s'[s] = <<>> /\ s2m'[s] = <<"name">>
  BY <1>1, <1>3, Told, ReadOff DEF EndOfReport
<1>4. Prompt(s)'
  BY <1>1, <1>2, <1>3, <1>9 DEF Prompt, Engaged, Reg, Waits, Answered
<1>5. \A c \in Clients : conn[c] # s
  BY <1>1, <1>3, SlaveKnows DEF Alive, Touches, Answered, Prompt
<1> QED BY <1>1, <1>4, <1>5, StillConnected

\* The client that was waiting accepts the slave's connection.
LEMMA SlaveConnectsCalls ==
    ASSUME SocketInv, CallInv, dpc # "dead", NEW s \in Slaves, SlaveConnects(s)
    PROVE  CallSound'
<1>1. /\ Touches(s) /\ UNCHANGED <<dpc, id, busy, cur, tube, late, lost, sc, untold>>
      /\ sp[s] = "connect" /\ sp'[s] = "wait_info" /\ m2s'[s] = m2s[s]
      /\ s2m'[s] = s2m[s] \o <<"OK">>
  BY DEF SlaveConnects, Tell, At, master, client, history, SocketInv, Types, Touches, Places
<1>2. Matched(s) /\ Prompt(s)
  BY <1>1, SlaveKnows DEF Alive, Touches
<1>3. /\ dpc = "wait_ok" /\ id = s /\ busy[s] = 1 /\ sc[s] = cur
      /\ Patient(cur) /\ ~ InTube(cur) /\ m2s[s] = <<>> /\ s2m[s] = <<>>
      /\ ~ late[s] /\ ~ lost[s]
  BY <1>1, <1>2 DEF Matched, Waits, AsksClient, Fresh, Prompt, Calling
<1>4. PICK c \in Clients : c = cur
  BY <1>3 DEF Patient
<1>5. cs' = [cs EXCEPT ![c] = "accepted"] /\ conn' = [conn EXCEPT ![c] = s]
  BY <1>3, <1>4 DEF SlaveConnects, Patient
<1>6. /\ cs'[c] = "accepted" /\ \A d \in Clients \ {c} : cs'[d] = cs[d]
      /\ conn'[c] = s /\ \A d \in Clients \ {c} : conn'[d] = conn[d]
  BY <1>5 DEF CallInv, CallTypes, SocketInv, Types
<1>7. conn[c] = NoSlave
  BY <1>3, <1>4 DEF CallInv, CallSound, Connected, Patient
<1>8. Quiet(s)
  BY <1>1, <1>3, <1>4, <1>6, <1>7 DEF Quiet, Patient
<1>9. \A d \in Clients : conn[d] # s
  BY <1>1, SlaveKnows DEF Alive, Answered
<1>10. s2m'[s] = <<"OK">>
  BY <1>1, <1>3, Told
<1>11. Prompt(s)'
  BY <1>1, <1>3, <1>4, <1>6, <1>10 DEF Prompt, Engaged, Reg, Waits, Answered
<1>12. \A d \in Clients : conn'[d] = s => Connected(d)'
  BY <1>1, <1>3, <1>4, <1>6, <1>9 DEF Connected, Answered
<1> QED BY <1>8, <1>11, <1>12, QuietKeeps

\* A session begins, at once or after a resumed transfer.
LEMMA SlaveDefaultCalls ==
    ASSUME SocketInv, CallInv, dpc # "dead", NEW s \in Slaves, SlaveDefault(s)
    PROVE  CallSound'
<1>1. /\ Touches(s) /\ UNCHANGED <<dpc, id, busy, cur, tube, conn, sc, lost, untold>>
      /\ sp[s] = "wait_info" /\ sp'[s] = "session"
      /\ m2s[s] # <<>> /\ late' = late
      /\ cs' = IF Linked(s) THEN [cs EXCEPT ![sc[s]] = "served"] ELSE cs
      /\ late' = late \/ late' = [late EXCEPT ![s] = FALSE]
  BY DEF SlaveDefault, Hears, Consumed, Tell, At, master, history, SocketInv, Types, CallInv, CallTypes, Touches, Places
<1>2. Matched(s) /\ Prompt(s)
  BY <1>1, SlaveKnows DEF Alive, Touches
<1>3. PICK c \in Clients : c = sc[s] /\ conn[c] = s
  BY <1>1, <1>2 DEF Prompt, Answered
<1>4. cs' = [cs EXCEPT ![c] = "served"] /\ cs[c] = "accepted"
  BY <1>1, <1>3, SlaveKnows, MasterAssumption DEF Linked, Alive, Touches, Answered
<1>5. cs'[c] = "served" /\ \A d \in Clients \ {c} : cs'[d] = cs[d]
  BY <1>4 DEF CallInv, CallTypes
<1>6. Quiet(s)
  <2>1. \A i \in Slaves \ {s} : late'[i] = late[i]
    BY <1>1 DEF CallInv, CallTypes
  <2>2. \A d \in Clients : Patient(d) => d # c
    BY <1>4 DEF Patient
  <2>3. \A d \in Clients : conn[d] # s => d # c
    BY <1>3
  <2> QED BY <1>1, <1>5, <2>1, <2>2, <2>3 DEF Quiet, Patient
<1>7. Prompt(s)'
  <2>1. ~ lost[s] /\ ~ late'[s] /\ ~ (dpc = "wait_ok" /\ id = s)
    BY <1>1, <1>2, ReadOff DEF Prompt, Answered, Hears, Matched, Engaged, Reg, Waits,
       AsksClient, CallInv, CallTypes
  <2> QED BY <1>1, <2>1 DEF Prompt, Engaged, Reg, Waits, Answered
<1>8. \A d \in Clients : conn'[d] = s => Connected(d)'
  BY <1>1, <1>3, <1>5, SlaveKnows DEF Connected, Alive, Touches
<1> QED BY <1>6, <1>7, <1>8, QuietKeeps

LEMMA ResumeDoneCalls ==
    ASSUME SocketInv, CallInv, dpc # "dead", NEW s \in Slaves, ResumeDone(s)
    PROVE  CallSound'
<1>1. /\ Touches(s) /\ UNCHANGED <<dpc, id, busy, cur, tube, conn, sc, lost, untold>>
      /\ sp[s] = "resume" /\ sp'[s] = "session"
      /\ late' = [late EXCEPT ![s] = FALSE]
      /\ cs' = IF Linked(s) THEN [cs EXCEPT ![sc[s]] = "served"] ELSE cs
      /\ late' = late \/ late' = [late EXCEPT ![s] = FALSE]
  BY DEF ResumeDone, At, master, history, SocketInv, Types, CallInv, CallTypes, Touches, Places
<1>2. Matched(s) /\ Prompt(s)
  BY <1>1, SlaveKnows DEF Alive, Touches
<1>3. PICK c \in Clients : c = sc[s] /\ conn[c] = s
  BY <1>1, <1>2 DEF Prompt, Answered
<1>4. cs' = [cs EXCEPT ![c] = "served"] /\ cs[c] = "accepted"
  BY <1>1, <1>3, SlaveKnows, MasterAssumption DEF Linked, Alive, Touches, Answered
<1>5. cs'[c] = "served" /\ \A d \in Clients \ {c} : cs'[d] = cs[d]
  BY <1>4 DEF CallInv, CallTypes
<1>6. Quiet(s)
  <2>1. \A i \in Slaves \ {s} : late'[i] = late[i]
    BY <1>1 DEF CallInv, CallTypes
  <2>2. \A d \in Clients : Patient(d) => d # c
    BY <1>4 DEF Patient
  <2>3. \A d \in Clients : conn[d] # s => d # c
    BY <1>3
  <2> QED BY <1>1, <1>5, <2>1, <2>2, <2>3 DEF Quiet, Patient
<1>7. Prompt(s)'
  <2>1. ~ lost[s] /\ ~ late'[s] /\ ~ (dpc = "wait_ok" /\ id = s)
    BY <1>1, <1>2, ReadOff DEF Prompt, Answered, Hears, Matched, Engaged, Reg, Waits,
       AsksClient, CallInv, CallTypes
  <2> QED BY <1>1, <2>1 DEF Prompt, Engaged, Reg, Waits, Answered
<1>8. \A d \in Clients : conn'[d] = s => Connected(d)'
  BY <1>1, <1>3, <1>5, SlaveKnows DEF Connected, Alive, Touches
<1> QED BY <1>6, <1>7, <1>8, QuietKeeps

\* The transfer that was to be resumed is not.
LEMMA ResumeBrokenCalls ==
    ASSUME SocketInv, CallInv, dpc # "dead", NEW s \in Slaves, ResumeBroken(s)
    PROVE  CallSound'
<1>1. /\ Touches(s) /\ Unlinked(s) /\ UNCHANGED <<dpc, id, busy, cur, tube, sc, late, lost, untold>>
      /\ sp[s] = "resume" /\ sp'[s] \in {"spin", "dead"} /\ Linked(s)
      /\ cs' = [cs EXCEPT ![sc[s]] = "out"]
  BY DEF ResumeBroken, Dropped, At, Unlinked, master, SocketInv, Types, Touches, Places
<1>2. Matched(s) /\ Prompt(s)
  BY <1>1, SlaveKnows DEF Alive, Touches
<1>3. PICK c \in Clients : c = sc[s] /\ conn[c] = s
  BY <1>1, <1>2 DEF Prompt, Answered
<1>4. cs[c] \in {"accepted", "served"} /\ cs' = [cs EXCEPT ![c] = "out"]
  BY <1>1, <1>3, SlaveKnows DEF Alive, Touches
<1>5. \A d \in Clients : conn'[d] # s
  BY <1>1, MasterAssumption DEF Unlinked, Slaves, NoSlave
<1>6. ASSUME Alive(s)' PROVE Prompt(s)'
  <2>1. sp'[s] = "spin" /\ ~ Engaged(s)
    BY <1>1, <1>2, <1>6 DEF Alive, Matched, Engaged, Reg, Waits, AsksClient, AsksResume, AsksName,
       Reports
  <2>2. ~ (dpc = "wait_ok" /\ id = s) /\ ~ lost[s]
    BY <1>1, <1>2, <2>1 DEF Engaged, Waits, Prompt, Answered
  <2> QED BY <1>1, <1>5, <2>1, <2>2 DEF Prompt, Answered
<1> QED BY <1>1, <1>3, <1>4, <1>6, Disconnected

\* A session ends.
LEMMA SessionOverCalls ==
    ASSUME SocketInv, CallInv, dpc # "dead", NEW s \in Slaves,
           SessionExit(s) \/ SessionTimeout(s) \/ SessionRefused(s)
    PROVE  CallSound'
<1>1. /\ Touches(s) /\ Unlinked(s) /\ UNCHANGED <<dpc, id, busy, cur, tube, sc, late, lost>>
      /\ \A i \in Slaves \ {s} : untold'[i] = untold[i]
      /\ sp[s] = "session" /\ sp'[s] = "idle" /\ m2s'[s] = m2s[s]
      /\ \/ s2m'[s] = s2m[s] \o <<"FINISHED">> \/ s2m'[s] = s2m[s] \o <<"CRASHED">>
         \/ s2m'[s] = s2m[s] /\ untold'[s]
      /\ \/ UNCHANGED cs
         \/ Linked(s) /\ cs[sc[s]] = "served" /\ cs' = [cs EXCEPT ![sc[s]] = "out"]
  BY DEF SessionExit, SessionTimeout, SessionRefused, Tell, At, Unlinked, master, history, SocketInv,
     Types, CallInv, CallTypes, Touches, Places
<1>2. Matched(s) /\ Prompt(s)
  BY <1>1, SlaveKnows DEF Alive, Touches
<1>3. ~ Engaged(s) /\ busy[s] = 1 /\ m2s[s] = <<>> /\ s2m[s] \in {<<>>, <<"OK">>} /\ ~ late[s]
  BY <1>1, <1>2 DEF Matched, Engaged, Reg, Waits, Free, Busy, AsksClient, AsksResume, AsksName,
     Reports, Prompt
<1>4. s2m'[s] \in Ending \/ NeverTold(s)'
  <2>1. CASE s2m'[s] = s2m[s] /\ untold'[s]
    BY <1>3, <2>1 DEF NeverTold
  <2>2. CASE s2m'[s] = s2m[s] \o <<"FINISHED">> \/ s2m'[s] = s2m[s] \o <<"CRASHED">>
    BY <1>3, <2>2, Told DEF Ending
  <2> QED BY <1>1, <2>1, <2>2
<1>5. \A c \in Clients : conn'[c] # s
  BY <1>1, MasterAssumption DEF Unlinked, Slaves, NoSlave
<1>6. Prompt(s)'
  BY <1>1, <1>3, <1>4, <1>5 DEF Prompt, Engaged, Reg, Waits, Answered
<1>7. \/ UNCHANGED cs
      \/ \E d \in Clients : conn[d] = s /\ cs[d] = "served" /\ cs' = [cs EXCEPT ![d] = "out"]
  <2>1. sc[s] \in Clients \/ cs' = cs \/ cs' = [cs EXCEPT ![sc[s]] = "out"]
    BY <1>1
  <2>2. sc[s] \notin Clients => [cs EXCEPT ![sc[s]] = "out"] = cs
    BY DEF CallInv, CallTypes
  <2> QED BY <1>1, <2>1, <2>2 DEF Linked
<1> QED BY <1>1, <1>6, <1>7, Disconnected

\* What cannot happen while clients answer when they are called.
LEMMA NeverGivenUp ==
    ASSUME SocketInv, CallInv, dpc # "dead", NEW s \in Slaves,
           SlaveInfoTimeout(s) \/ ResumeFails(s)
    PROVE  FALSE
<1>1. Alive(s) /\ Prompt(s)
  BY SlaveKnows DEF SlaveInfoTimeout, ResumeFails, Alive
<1>2. CASE SlaveInfoTimeout(s)
  BY <1>1, <1>2 DEF SlaveInfoTimeout, Prompt
<1>3. CASE ResumeFails(s)
  BY <1>1, <1>3, MasterAssumption DEF ResumeFails, Linked, Prompt, Answered
<1> QED BY <1>2, <1>3

\* A slave process ends.
LEMMA SlaveEndsCalls ==
    ASSUME SocketInv, CallInv, dpc # "dead", NEW s \in Slaves,
           \/ SlaveRefused(s) \/ ReportFails(s) \/ UploadCut(s) \/ SlaveDies(s)
           \/ MasterGone(s)
    PROVE  CallSound'
<1>1. \E rest : Exit(s, rest)
  BY DEF SlaveRefused, ReportFails, UploadCut, SlaveDies, MasterGone
<1>2. Alive(s) /\ UNCHANGED <<master, s2m, cs, tube, sc, late, lost, untold>>
  BY DEF SlaveRefused, ReportFails, UploadCut, SlaveDies, MasterGone, history, Alive
<1>3. sp'[s] \in {"dead", "reset"} /\ sp' = [sp EXCEPT ![s] = sp'[s]]
  BY <1>1 DEF Exit, SocketInv, Types
<1>4. Touches(s) /\ Unlinked(s)
  BY <1>1, <1>2, <1>3 DEF Exit, Unlinked, SocketInv, Types, Touches, Places, master, Alive
<1> QED BY <1>2, <1>3, <1>4, Disconnected DEF master, Alive

LEMMA SlaveCalls ==
    ASSUME SocketInv, CallInv, dpc # "dead", NEW s \in Slaves,
           SlaveStep(s) \/ TransferCut(s) \/ SlaveDies(s) \/ MasterGone(s)
    PROVE  CallSound'
  BY SlaveReadsIpCalls, SlaveConnectsCalls, SlaveDefaultCalls, SlaveCrashedCalls, SlaveNameCalls,
     SlaveBytesCalls, ResumeDoneCalls, ResumeBrokenCalls, TransferCutCalls, ReportIpCalls,
     ReportBytesCalls, ReportNameCalls, SessionOverCalls, NeverGivenUp, SlaveEndsCalls DEF SlaveStep

-----------------------------------------------------------------------------
(* The steps of a client.                                                  *)

\* The clients move, the slaves and the dispatcher do not.
LEMMA ClientsMove ==
    ASSUME CallInv, dpc # "dead", UNCHANGED <<dpc, id, busy, cur, sp, m2s, s2m, late, lost, sc, untold, conn>>,
           TubeSound', InTube(cur)' => InTube(cur), Patient(cur) /\ dpc = "wait_ok" => Patient(cur)',
           \A c \in Clients : conn[c] # NoSlave => cs'[c] = cs[c]
    PROVE  CallSound'
<1>1. ASSUME NEW i \in Slaves, Alive(i)' PROVE Prompt(i)'
  <2>1. Prompt(i) /\ Engaged(i)' = Engaged(i) /\ Calling(i)' = Calling(i)
    BY <1>1 DEF CallInv, CallSound, Alive, Engaged, Calling
  <2> QED BY <2>1 DEF Prompt, NeverTold
<1>2. ASSUME NEW c \in Clients PROVE Connected(c)'
  BY DEF CallInv, CallSound, Connected
<1> QED BY <1>1, <1>2 DEF CallSound

LEMMA DialCalls ==
    ASSUME CallInv, dpc # "dead", NEW c \in Clients, Dial(c)
    PROVE  CallSound'
<1>1. /\ cs[c] = "out" /\ tube' = Append(tube, c) /\ cs' = [cs EXCEPT ![c] = "dialed"]
      /\ UNCHANGED <<dpc, id, busy, cur, sp, m2s, s2m, late, lost, sc, untold, conn>>
  BY DEF Dial, master, slave, history
<1>2. cs'[c] = "dialed" /\ \A d \in Clients \ {c} : cs'[d] = cs[d]
  BY <1>1 DEF CallInv, CallTypes
<1>3. /\ Len(tube') = Len(tube) + 1 /\ Len(tube) \in Nat
      /\ \A k \in 1 .. Len(tube) : tube'[k] = tube[k]
      /\ tube'[Len(tube) + 1] = c
  BY <1>1, AppendProperties, LenProperties DEF CallInv, CallTypes
<1>4. \A k \in 1 .. Len(tube) : Patient(tube[k]) /\ tube[k] # c
  BY <1>1 DEF CallInv, CallSound, TubeSound, Patient
<1>5. \A k \in 1 .. Len(tube') : k \in 1 .. Len(tube) \/ k = Len(tube) + 1
  BY <1>3
<1>6. TubeSound'
  <2>1. ASSUME NEW k \in 1 .. Len(tube') PROVE Patient(tube[k])'
    BY <1>2, <1>3, <1>4, <1>5 DEF Patient
  <2>2. ASSUME NEW k \in 1 .. Len(tube'), NEW l \in 1 .. Len(tube'), tube'[k] = tube'[l]
        PROVE  k = l
    BY <1>3, <1>4, <1>5, <2>2 DEF CallInv, CallSound, TubeSound
  <2> QED BY <2>1, <2>2 DEF TubeSound, CallInv, CallTypes
<1>7. Patient(cur) => Patient(cur)' /\ (InTube(cur)' => InTube(cur))
  <2>1. Patient(cur) => cur # c
    BY <1>1 DEF Patient
  <2> QED BY <1>1, <1>2, <1>3, <1>5, <2>1 DEF Patient, InTube
<1>8. \A d \in Clients : conn[d] # NoSlave => cs'[d] = cs[d]
  BY <1>1, <1>2 DEF CallInv, CallSound, Connected
<1>9. ASSUME NEW i \in Slaves, Alive(i)' PROVE Prompt(i)'
  <2>1. Prompt(i) /\ Engaged(i)' = Engaged(i) /\ Calling(i)' = Calling(i)
    BY <1>1, <1>9 DEF CallInv, CallSound, Alive, Engaged, Calling
  <2> QED BY <1>1, <1>7, <2>1 DEF Prompt, NeverTold
<1> QED BY <1>1, <1>6, <1>8, <1>9 DEF CallSound, Connected, CallInv

LEMMA WaitingClientCalls ==
    ASSUME Punctual, CallInv, dpc # "dead", NEW c \in Clients, Listen(c) \/ HangUp(c) \/ Abandoned(c)
    PROVE  CallSound'
<1>1. UNCHANGED <<dpc, id, busy, cur, tube, sp, m2s, s2m, late, lost, sc, untold, conn>>
  BY DEF Listen, HangUp, Abandoned, master, slave, history
<1>2. \A d \in Clients \ {c} : cs'[d] = cs[d]
  BY DEF Listen, HangUp, Abandoned, CallInv, CallTypes
<1>3. \/ Patient(c) => Patient(c)'
      \/ ~ InTube(c) /\ ~ (dpc = "wait_ok" /\ cur = c)
  BY DEF Listen, HangUp, Abandoned, Forgotten, InTube, Patient, Punctual, CallInv, CallTypes
<1>4. TubeSound'
  <2>1. ASSUME NEW k \in 1 .. Len(tube) PROVE Patient(tube[k])'
    <3>1. Patient(tube[k]) /\ InTube(tube[k])
      BY DEF CallInv, CallSound, TubeSound, InTube
    <3> QED BY <1>1, <1>2, <1>3, <3>1 DEF Patient
  <2> QED BY <1>1, <2>1 DEF TubeSound, CallInv, CallSound
<1>5. Patient(cur) /\ dpc = "wait_ok" => Patient(cur)'
  BY <1>1, <1>2, <1>3 DEF Patient
<1>6. \A d \in Clients : conn[d] # NoSlave => cs'[d] = cs[d]
  <2>1. conn[c] = NoSlave
    BY DEF Listen, HangUp, Abandoned, CallInv, CallSound, Connected
  <2> QED BY <1>2, <2>1
<1> QED BY <1>1, <1>4, <1>5, <1>6, ClientsMove DEF InTube

\* A client in its session vanishes or is killed.
LEMMA LostClientCalls ==
    ASSUME Punctual, SocketInv, CallInv, dpc # "dead", NEW c \in Clients,
           ClientVanishes(c) \/ ClientKilled(c)
    PROVE  CallSound'
<1>1. /\ conn[c] # NoSlave /\ cs' = [cs EXCEPT ![c] = "out"]
      /\ conn' = [conn EXCEPT ![c] = NoSlave]
      /\ UNCHANGED <<dpc, todo, id, busy, cur, tube, m2s, sc, late>>
  BY DEF ClientVanishes, ClientKilled, master
<1>2. PICK s \in Slaves : s = conn[c]
  BY <1>1 DEF SocketInv, Types
<1>3. /\ \A d \in Clients \ {c} : conn'[d] = conn[d] /\ cs'[d] = cs[d]
      /\ conn'[c] = NoSlave /\ cs'[c] = "out"
  BY <1>1 DEF SocketInv, Types, CallInv, CallTypes
<1>4. /\ cs[c] = "served" => sp[s] = "session"
      /\ cs[c] # "served" => sp[s] \in Answered
      /\ sc[s] = c /\ Alive(s) /\ ~ Patient(c)
  BY <1>1, <1>2 DEF CallInv, CallSound, Connected, Alive, Answered, Patient
<1>5. \/ /\ cs[c] = "served" /\ sp[s] = "session"
         /\ sp' = sp /\ lost' = [lost EXCEPT ![s] = TRUE] /\ UNCHANGED <<s2m, untold>>
      \/ /\ sp[s] = "session" /\ sp' \in {[sp EXCEPT ![s] = "spin"], [sp EXCEPT ![s] = "dead"]}
         /\ UNCHANGED <<s2m, lost, untold>>
      \/ /\ sp[s] = "session" /\ sp' = [sp EXCEPT ![s] = "idle"]
         /\ untold' = [untold EXCEPT ![s] = TRUE] /\ UNCHANGED <<s2m, lost>>
      \/ /\ sp[s] = "resume" /\ sp' \in {[sp EXCEPT ![s] = "spin"], [sp EXCEPT ![s] = "dead"]}
         /\ UNCHANGED <<s2m, lost, untold>>
      \/ /\ sp[s] = "resume" /\ sp' = [sp EXCEPT ![s] = "idle"] /\ UNCHANGED <<lost, untold>>
         /\ s2m' = [s2m EXCEPT ![s] = @ \o <<"CRASHED">>]
  BY <1>2, <1>4 DEF ClientVanishes, ClientKilled, Punctual, At, Tell, Dropped, history, slave
<1>6. /\ sp'[s] \in {"session", "spin", "dead", "idle"} /\ sp' = [sp EXCEPT ![s] = sp'[s]]
      /\ s2m' = [s2m EXCEPT ![s] = s2m'[s]]
      /\ \A i \in Slaves \ {s} : lost'[i] = lost[i] /\ untold'[i] = untold[i]
  BY <1>4, <1>5 DEF SocketInv, Types, CallInv, CallTypes
<1>7. Touches(s)
  BY <1>1, <1>3, <1>4, <1>6 DEF Touches, Places, SocketInv, Types, Alive
<1>8. Quiet(s)
  BY <1>1, <1>2, <1>3, <1>4, <1>6, <1>7 DEF Quiet, Patient
<1>9. \A d \in Clients : conn'[d] # s
  BY <1>1, <1>2, <1>3, <1>4, SlaveKnows
<1>10. ASSUME Alive(s)' PROVE Prompt(s)'
  <2>1. Prompt(s) /\ Matched(s)
    BY <1>4, SlaveKnows
  <2>2. ~ (dpc = "wait_ok" /\ id = s) /\ (sp[s] = "session" => ~ late[s])
    BY <1>4, <1>5, <2>1 DEF Prompt, Matched, AsksClient
  <2>3. CASE sp'[s] # "idle"
    BY <1>1, <1>4, <1>5, <1>6, <1>9, <1>10, <2>1, <2>2, <2>3
       DEF Prompt, Answered, Alive, SocketInv, Types, CallInv, CallTypes
  <2>4. CASE sp'[s] = "idle"
    <3>1. sp[s] \in {"session", "resume"}
      BY <1>5
    <3>2. /\ ~ Engaged(s) /\ busy[s] = 1 /\ m2s[s] = <<>> /\ s2m[s] \in {<<>>, <<"OK">>}
      BY <2>1, <3>1 DEF Matched, Engaged, Reg, Waits, Free, Busy, AsksClient, AsksResume, AsksName,
         Reports
    <3>3. /\ m2s'[s] = <<>> /\ busy'[s] = 1 /\ ~ Engaged(s)'
          /\ ~ (dpc' = "wait_ok" /\ id' = s)
          /\ s2m'[s] \in Ending \/ NeverTold(s)'
      <4>1. (s2m'[s] = s2m[s] /\ untold'[s]) \/ s2m'[s] = s2m[s] \o <<"CRASHED">>
        BY <1>5, <2>4, <3>1 DEF SocketInv, Types, CallInv, CallTypes
      <4>2. s2m'[s] \in Ending \/ NeverTold(s)'
        <5>1. CASE s2m'[s] = s2m[s] /\ untold'[s]
          BY <3>2, <5>1 DEF NeverTold
        <5>2. CASE s2m'[s] = s2m[s] \o <<"CRASHED">>
          BY <3>2, <5>2, Told DEF Ending
        <5> QED BY <4>1, <5>1, <5>2
      <4> QED BY <1>1, <2>2, <3>2, <4>2 DEF Engaged, master
    <3> QED BY <1>9, <2>4, <3>3 DEF Prompt, Answered
  <2> QED BY <2>3, <2>4
<1> QED BY <1>8, <1>9, <1>10, QuietKeeps

-----------------------------------------------------------------------------
(* The steps of the dispatcher.                                            *)

\* The dispatcher talks to slave i, or to nobody.
LEMMA DispatcherQuiet ==
    ASSUME SocketInv, CallInv, dpc # "dead", UNCHANGED <<sc, late, lost, untold, cs, conn>>, TubeSound',
           NEW i \in Slaves, Apart(i),
           \A j \in Slaves \ {i} : ~ Engaged(j) /\ ~ Engaged(j)',
           Alive(i) => sp'[i] = sp[i], Alive(i)' => Alive(i),
           dpc' # "dead" /\ Alive(i) /\ Alive(i)' => Prompt(i)'
    PROVE  dpc' # "dead" => CallSound'
<1> SUFFICES ASSUME dpc' # "dead" PROVE CallSound'
  OBVIOUS
<1>1. ASSUME NEW j \in Slaves \ {i}, Alive(j)' PROVE Prompt(j)'
  <2>1. /\ sp'[j] = sp[j] /\ m2s'[j] = m2s[j] /\ s2m'[j] = s2m[j] /\ busy'[j] = busy[j]
        /\ ~ Engaged(j) /\ ~ Engaged(j)'
    BY DEF Apart
  <2>2. Prompt(j)
    BY <1>1, <2>1 DEF CallInv, CallSound, Alive
  <2> QED BY <2>1, <2>2 DEF Prompt, NeverTold, Engaged, Reg, Waits
<1>2. ASSUME NEW c \in Clients, conn[c] # NoSlave PROVE Connected(c)'
  <2>1. Connected(c)
    BY DEF CallInv, CallSound
  <2>2. sp[conn[c]] \in Answered \cup {"session"}
    BY <1>2, <2>1 DEF Connected
  <2>3. sp'[conn[c]] = sp[conn[c]]
    BY <1>2, <2>2 DEF Apart, Alive, Answered, SocketInv, Types, CallInv, CallTypes
  <2> QED BY <2>1, <2>3 DEF Connected
<1>3. ASSUME NEW c \in Clients PROVE Connected(c)'
  BY <1>2 DEF Connected
<1> QED BY <1>1, <1>3 DEF CallSound

\* A write that finds slave i alive, and the pipe as it was.
LEMMA SentAlive ==
    ASSUME Types, NEW i \in Slaves, NEW m, NEW next, Send(i, m, next)
    PROVE  /\ Alive(i) => /\ sp'[i] = sp[i] /\ Alive(i)' /\ dpc' = next
                         /\ m2s'[i] = Append(m2s[i], m)
           /\ Alive(i)' => Alive(i)
           /\ \A j \in Slaves \ {i} : sp'[j] = sp[j] /\ m2s'[j] = m2s[j]
           /\ dpc' \in {next, "dead"}
  BY DEF Types, Send, Alive

LEMMA SameTube ==
    ASSUME CallInv, dpc # "dead", UNCHANGED <<tube, cs>>
    PROVE  TubeSound'
  BY DEF CallInv, CallSound, TubeSound, Patient

\* The address at the head of the pipe is nowhere else.
LEMMA TubeTail ==
    ASSUME CallInv, dpc # "dead", tube # <<>>, tube' = Tail(tube), UNCHANGED cs
    PROVE  TubeSound' /\ Patient(Head(tube)) /\ \A k \in 1 .. Len(tube') : tube'[k] # Head(tube)
<1>1. /\ Len(tube) \in Nat \ {0} /\ Len(tube') = Len(tube) - 1
      /\ \A k \in 1 .. Len(tube') : tube'[k] = tube[k + 1]
  BY HeadTailProperties, EmptySeq DEF CallInv, CallTypes
<1>2. Head(tube) = tube[1]
  BY DEF CallInv, CallTypes
<1>3. \A k \in 1 .. Len(tube') : k + 1 \in 1 .. Len(tube) /\ k + 1 # 1
  BY <1>1
<1>4. /\ \A k, l \in 1 .. Len(tube) : tube[k] = tube[l] => k = l
      /\ \A k \in 1 .. Len(tube) : tube[k] \in Clients /\ cs[tube[k]] \in {"dialed", "listening"}
  BY DEF CallInv, CallSound, TubeSound, Patient
<1>5. 1 \in 1 .. Len(tube)
  BY <1>1
<1>6. \A k \in 1 .. Len(tube') :
          tube[k + 1] \in Clients /\ cs[tube[k + 1]] \in {"dialed", "listening"}
  BY <1>3, <1>4
<1>7. \A k \in 1 .. Len(tube') :
          tube'[k] \in Clients /\ cs'[tube'[k]] \in {"dialed", "listening"}
  BY <1>1, <1>6
<1>8. \A k, l \in 1 .. Len(tube') : tube'[k] = tube'[l] => k = l
  <2> TAKE k, l \in 1 .. Len(tube')
  <2>1. tube'[k] = tube[k + 1] /\ tube'[l] = tube[l + 1]
    BY <1>1
  <2>2. tube[k + 1] = tube[l + 1] => k + 1 = l + 1
    BY <1>3, <1>4
  <2> QED BY <1>1, <2>1, <2>2
<1>9. Patient(Head(tube))
  BY <1>2, <1>4, <1>5 DEF Patient
<1>10. TubeSound'
  BY <1>7, <1>8 DEF TubeSound, Patient
<1>11. \A k \in 1 .. Len(tube') : tube'[k] # Head(tube)
  BY <1>1, <1>2, <1>3, <1>4, <1>5
<1> QED BY <1>9, <1>10, <1>11

LEMMA ScanningCalls ==
    ASSUME SocketInv, CallInv, dpc # "dead", Select \/ ScanEnds \/ Refuse
    PROVE  CallSound'
<1>1. /\ UNCHANGED <<id, busy, sp, m2s, s2m, conn, cs, sc, late, lost, untold>>
      /\ dpc \in {"select", "scan"} /\ dpc' \in {"select", "scan"}
  BY DEF Select, ScanEnds, Refuse, slave, client, history
<1>2. TubeSound'
  <2>1. CASE UNCHANGED tube
    BY <1>1, <2>1, SameTube
  <2>2. CASE Refuse
    <3>1. tube # <<>> /\ tube' = Tail(tube)
      BY <2>2 DEF Refuse, CallInv, CallTypes
    <3> QED BY <1>1, <3>1, TubeTail
  <2> QED BY <2>1, <2>2 DEF Select, ScanEnds
<1>3. PICK i \in Slaves : i = id
  BY DEF SocketInv, Types
<1>4. \A j \in Slaves : ~ Engaged(j) /\ ~ Engaged(j)'
  BY <1>1 DEF Engaged, Reg, Waits
<1>5. ASSUME Alive(i) PROVE Prompt(i)'
  <2>1. Prompt(i)
    BY <1>5 DEF CallInv, CallSound
  <2> QED BY <1>1, <1>4, <2>1 DEF Prompt, NeverTold, Calling
<1> QED BY <1>1, <1>2, <1>4, <1>5, DispatcherQuiet DEF Apart, Alive

LEMMA RegisterCalls ==
    ASSUME SocketInv, CallInv, dpc # "dead", RegIp \/ RegBytes \/ RegName
    PROVE  dpc' # "dead" => CallSound'
<1>1. PICK i \in Slaves : i = id
  BY DEF SocketInv, Types
<1>2. /\ dpc \in Reg /\ Readable(i) /\ Taken(i)
      /\ UNCHANGED <<id, busy, tube, cs, conn, sc, late, lost, untold>>
      /\ \/ dpc = "reg_ip" /\ Send(i, "OK", "reg_bytes")
         \/ dpc = "reg_bytes" /\ Send(i, "OK", "reg_name")
         \/ dpc = "reg_name" /\ dpc' = "scan" /\ UNCHANGED <<m2s, sp>>
  BY <1>1 DEF RegIp, RegBytes, RegName, Reg, slave, client, history
<1>3. /\ Alive(i) => sp'[i] = sp[i]
      /\ Alive(i)' => Alive(i)
      /\ \A j \in Slaves \ {i} : sp'[j] = sp[j] /\ m2s'[j] = m2s[j]
      /\ dpc' \in Reg \cup {"scan", "dead"}
      /\ dpc = "reg_name" => dpc' = "scan" /\ m2s'[i] = m2s[i]
  BY <1>2, SentAlive DEF SocketInv, Reg, Alive
<1>4. /\ \A j \in Slaves \ {i} : s2m'[j] = s2m[j]
      /\ s2m[i] # <<>> => s2m'[i] = Tail(s2m[i])
  BY <1>2, Read DEF SocketInv
<1>5. ASSUME dpc' # "dead", Alive(i), Alive(i)' PROVE Prompt(i)'
  <2>1. Matched(i) /\ Prompt(i) /\ s2m[i] # <<>> /\ sp'[i] = sp[i]
    BY <1>2, <1>3, <1>5, SlaveKnows DEF Readable
  <2>2. CASE dpc \in {"reg_ip", "reg_bytes"}
    <3>1. sp[i] \in {"rep2", "rep3"}
      BY <1>1, <2>1, <2>2 DEF Matched, Reports
    <3> QED BY <1>2, <1>3, <2>1, <3>1 DEF Prompt, Answered, Reg
  <2>3. CASE dpc = "reg_name"
    <3>1. sp[i] = "idle" /\ m2s[i] = <<>> /\ LastPart(s2m[i]) /\ busy[i] = 0
      BY <1>1, <2>1, <2>3 DEF Matched, Reports, Reg
    <3>2. s2m[i] = <<"name">>
      BY <1>1, <2>1, <2>3, <3>1 DEF LastPart, Prompt, Engaged, Reg
    <3>3. s2m'[i] = <<>>
      BY <1>4, <2>1, <3>2, ReadOff
    <3> QED BY <1>2, <1>3, <2>1, <2>3, <3>1, <3>3 DEF Prompt, Answered, Engaged, Reg, Waits
  <2> QED BY <1>2, <2>2, <2>3 DEF Reg
<1>6. Apart(i) /\ \A j \in Slaves \ {i} : ~ Engaged(j) /\ ~ Engaged(j)'
  BY <1>1, <1>2, <1>3, <1>4 DEF Apart, Engaged
<1>7. TubeSound'
  BY <1>2, SameTube
<1> QED BY <1>2, <1>3, <1>5, <1>6, <1>7, DispatcherQuiet

LEMMA WaitsCalls ==
    ASSUME Punctual, SocketInv, CallInv, dpc # "dead", WaitOk \/ WaitOk2 \/ WaitOk3 \/ WaitTimeout
    PROVE  dpc' # "dead" => CallSound'
<1>1. PICK i \in Slaves : i = id
  BY DEF SocketInv, Types
<1>2. /\ dpc \in Waits /\ Readable(i) /\ Taken(i)
      /\ UNCHANGED <<id, busy, tube, cs, conn, sc, late, lost, untold>>
      /\ \/ Send(i, "CRASHED", "wait_ok2") \/ Send(i, "DEFAULT", "select")
         \/ Send(i, "name", "wait_ok3") \/ Send(i, "bytes", "select")
         \/ dpc' = "select" /\ UNCHANGED <<m2s, sp>>
      /\ dpc = "wait_ok" =>
            /\ info' = GotInfo(i, info)
            /\ info' = "OK" => Send(i, "CRASHED", "wait_ok2") \/ Send(i, "DEFAULT", "select")
  BY <1>1 DEF WaitOk, WaitOk2, WaitOk3, WaitTimeout, Silent, Punctual, Waits, slave, client, history
<1>3. /\ Alive(i) => sp'[i] = sp[i]
      /\ Alive(i)' => Alive(i)
      /\ \A j \in Slaves \ {i} : sp'[j] = sp[j] /\ m2s'[j] = m2s[j]
      /\ dpc' \in {"wait_ok2", "wait_ok3", "select", "dead"}
  BY <1>2, SentAlive DEF SocketInv, Alive
<1>4. \A j \in Slaves \ {i} : s2m'[j] = s2m[j]
  BY <1>2, Read DEF SocketInv
<1>5. ASSUME dpc' # "dead", Alive(i), Alive(i)' PROVE Prompt(i)'
  <2>1. Matched(i) /\ Prompt(i) /\ s2m[i] # <<>> /\ sp'[i] = sp[i]
    BY <1>2, <1>3, <1>5, SlaveKnows DEF Readable
  <2>2. CASE dpc = "wait_ok"
    <3>1. s2m[i] = <<"OK">>
      BY <1>1, <2>1, <2>2 DEF Prompt
    <3>2. sp[i] = "wait_info" /\ m2s[i] = <<>>
      BY <1>1, <2>1, <2>2, <3>1 DEF Matched, AsksClient, Fresh
    <3>3. info' = "OK"
      BY <1>2, <2>2, <3>1, ReadOff DEF GotInfo, Got, Infos
    <3>4. m2s'[i] # <<>>
      BY <1>2, <1>5, <2>2, <3>2, <3>3, SentAlive, ReadOff DEF SocketInv
    <3> QED BY <1>2, <1>3, <2>1, <3>2, <3>4 DEF Prompt, Answered
  <2>3. CASE dpc \in {"wait_ok2", "wait_ok3"}
    <3>1. sp[i] \in {"rcv_name", "rcv_bytes"}
      BY <1>1, <2>1, <2>3 DEF Matched, AsksResume, AsksName
    <3> QED BY <1>2, <1>3, <2>1, <3>1 DEF Prompt, Answered
  <2> QED BY <1>2, <2>2, <2>3 DEF Waits
<1>6. Apart(i) /\ \A j \in Slaves \ {i} : ~ Engaged(j) /\ ~ Engaged(j)'
  BY <1>1, <1>2, <1>3, <1>4 DEF Apart, Engaged
<1>7. TubeSound'
  BY <1>2, SameTube
<1> QED BY <1>2, <1>3, <1>5, <1>6, <1>7, DispatcherQuiet

\* What the first slave that is not busy is given, and finds.
LEMMA HandsOver ==
    ASSUME SocketInv, CallInv, dpc # "dead", Dispatch
    PROVE  \E i \in Slaves :
              /\ i = slave_not_busy /\ id' = i /\ Send(i, Head(tube), "wait_ok")
              /\ busy[i] = 0 /\ dpc = "scan" /\ tube # <<>>
              /\ Alive(i) => sp[i] = "idle" /\ m2s[i] = <<>> /\ s2m[i] = <<>>
<1>1. slave_not_busy \in Slaves /\ busy[slave_not_busy] = 0
  BY FirstNotBusy, MasterAssumption DEF Dispatch, SocketInv, Types
<1>2. PICK i \in Slaves : i = slave_not_busy
  BY <1>1
<1>3. dpc = "scan" /\ tube # <<>> /\ id' = i /\ Send(i, Head(tube), "wait_ok")
  BY <1>2 DEF Dispatch, CallInv, CallTypes
<1>4. ASSUME Alive(i) PROVE sp[i] = "idle" /\ m2s[i] = <<>> /\ s2m[i] = <<>>
  <2>1. Matched(i) /\ Prompt(i) /\ ~ Engaged(i) /\ busy[i] = 0
    BY <1>1, <1>2, <1>3, <1>4, SlaveKnows DEF Engaged, Reg, Waits
  <2> QED BY <2>1 DEF Matched, Free, Prompt
<1> QED BY <1>1, <1>2, <1>3, <1>4

LEMMA DispatchCalls ==
    ASSUME SocketInv, CallInv, dpc # "dead", Dispatch
    PROVE  dpc' # "dead" => CallSound'
<1>1. PICK i \in Slaves :
          /\ i = slave_not_busy /\ id' = i /\ Send(i, Head(tube), "wait_ok")
          /\ busy[i] = 0 /\ dpc = "scan" /\ tube # <<>>
          /\ Alive(i) => sp[i] = "idle" /\ m2s[i] = <<>> /\ s2m[i] = <<>>
  BY HandsOver
<1>2. PICK c : c = Head(tube)
  OBVIOUS
<1>3. /\ cur' = c /\ tube' = Tail(tube) /\ busy' = [busy EXCEPT ![i] = 1]
      /\ UNCHANGED <<s2m, cs, conn, sc, late, lost, untold>> /\ Send(i, c, "wait_ok")
  BY <1>1, <1>2 DEF Dispatch, client, history
<1>4. /\ Alive(i) => sp'[i] = sp[i] /\ dpc' = "wait_ok" /\ m2s'[i] = Append(m2s[i], c)
      /\ Alive(i)' => Alive(i)
      /\ \A j \in Slaves \ {i} : sp'[j] = sp[j] /\ m2s'[j] = m2s[j]
  BY <1>3, SentAlive DEF SocketInv
<1>5. busy'[i] = 1 /\ \A j \in Slaves \ {i} : busy'[j] = busy[j]
  BY <1>3 DEF SocketInv, Types
<1>6. /\ TubeSound' /\ Patient(c) /\ Patient(c)'
      /\ \A k \in 1 .. Len(tube') : tube'[k] # c
  BY <1>1, <1>2, <1>3, TubeTail DEF Patient
<1>7. ASSUME Alive(i) PROVE Prompt(i)'
  <2>1. Prompt(i)
    BY <1>7 DEF CallInv, CallSound
  <2>2. /\ m2s'[i] = <<c>> /\ <<c>> # <<>> /\ s2m'[i] = <<>>
        /\ sp'[i] = "idle" /\ dpc' = "wait_ok"
    BY <1>1, <1>3, <1>4, <1>7, ReadOff
  <2>3. Patient(cur)' /\ ~ InTube(cur)' /\ Calling(i)'
    BY <1>3, <1>6, <2>2 DEF Patient, InTube, Calling
  <2>4. /\ late'[i] = late[i] /\ lost'[i] = lost[i] /\ sc'[i] = sc[i]
            /\ untold'[i] = untold[i] /\ conn' = conn
        /\ sp[i] = "idle" /\ id' = i
    BY <1>1, <1>3, <1>7
  <2>5. lost'[i] => \A d \in Clients : conn'[d] # i
    BY <2>1, <2>4 DEF Prompt
  <2> QED BY <2>2, <2>3, <2>4, <2>5 DEF Prompt, Answered
<1>8. Apart(i) /\ \A j \in Slaves \ {i} : ~ Engaged(j) /\ ~ Engaged(j)'
  BY <1>1, <1>3, <1>4, <1>5 DEF Apart, Engaged, Reg, Waits
<1> QED BY <1>3, <1>4, <1>6, <1>7, <1>8, DispatcherQuiet

LEMMA ScanCalls ==
    ASSUME SocketInv, CallInv, dpc # "dead", Scan
    PROVE  dpc' # "dead" => CallSound'
<1>1. (CHOOSE j \in todo : \A k \in todo : j <= k) \in todo
  BY FirstToScan DEF Scan, SocketInv, Types
<1>2. PICK i \in todo : i = CHOOSE j \in todo : \A k \in todo : j <= k
  BY <1>1
<1>3. PICK got : got = GotInfo(i, info)
  OBVIOUS
<1>4. /\ dpc = "scan" /\ Taken(i) /\ id' = i
      /\ busy' = IF got \in Releases THEN [busy EXCEPT ![i] = 0] ELSE busy
      /\ \/ got = "DURING" /\ Send(i, "OK", "reg_ip")
         \/ got # "DURING" /\ UNCHANGED <<dpc, m2s, sp>>
      /\ UNCHANGED <<tube, cs, conn, sc, late, lost, untold>>
  BY <1>2, <1>3 DEF Scan, client, history
<1>5. i \in Slaves /\ ~ Engaged(i) /\ (Alive(i) => s2m[i] # <<>> /\ Matched(i) /\ Prompt(i))
  BY <1>4, SlaveKnows DEF SocketInv, Types, ScanSound, Engaged, Reg, Waits
<1>6. /\ Alive(i) => sp'[i] = sp[i] /\ (got # "DURING" => m2s'[i] = m2s[i])
      /\ Alive(i)' => Alive(i)
      /\ \A j \in Slaves \ {i} : sp'[j] = sp[j] /\ m2s'[j] = m2s[j]
      /\ dpc' \in {"scan", "reg_ip", "dead"}
      /\ got # "DURING" => dpc' = "scan"
  BY <1>4, <1>5, SentAlive DEF SocketInv, Alive
<1>7. /\ \A j \in Slaves \ {i} : s2m'[j] = s2m[j]
      /\ s2m[i] # <<>> => s2m'[i] = Tail(s2m[i])
  BY <1>4, <1>5, Read DEF SocketInv
<1>8. /\ busy'[i] = IF got \in Releases THEN 0 ELSE busy[i]
      /\ \A j \in Slaves \ {i} : busy'[j] = busy[j]
  BY <1>4, <1>5 DEF SocketInv, Types
<1>9. ASSUME dpc' # "dead", Alive(i), Alive(i)' PROVE Prompt(i)'
  <2>1. got = IF Head(s2m[i]) \in Infos THEN Head(s2m[i]) ELSE Junk
    BY <1>3, <1>5, <1>9 DEF GotInfo, Got
  <2>2. CASE sp[i] = "rep1"
    BY <1>4, <1>5, <1>6, <1>9, <2>2 DEF Prompt, Answered
  <2>3. CASE sp[i] = "idle"
    <3>1. m2s[i] = <<>> /\ busy[i] = 1 /\ (s2m[i] \in Ending \/ NeverTold(i))
      BY <1>4, <1>5, <1>9, <2>3 DEF Prompt, Matched, Free, Busy
    <3>2. \/ got = "OK" /\ s2m'[i] \in Ending
          \/ got = "OK" /\ s2m'[i] = <<>> /\ untold[i]
          \/ got \in {"FINISHED", "CRASHED"} /\ s2m'[i] = <<>>
      <4>1. CASE s2m[i] \in {<<"FINISHED">>, <<"CRASHED">>}
        BY <1>5, <1>7, <1>9, <2>1, <4>1, ReadOff DEF Infos
      <4>2. CASE s2m[i] \in {<<"OK", "FINISHED">>, <<"OK", "CRASHED">>}
        <5>1. /\ Head(s2m[i]) = "OK"
              /\ Tail(s2m[i]) \in {<<"FINISHED">>, <<"CRASHED">>}
          <6>1. CASE s2m[i] = <<"OK", "FINISHED">>
            BY <6>1, ReadOff
          <6>2. CASE s2m[i] = <<"OK", "CRASHED">>
            BY <6>2, ReadOff
          <6> QED BY <4>2, <6>1, <6>2
        <5> QED BY <1>5, <1>7, <1>9, <2>1, <5>1 DEF Infos, Ending
      <4>3. CASE NeverTold(i)
        <5>1. s2m[i] = <<"OK">> /\ untold[i]
          BY <1>5, <1>9, <4>3 DEF NeverTold
        <5> QED BY <1>5, <1>7, <1>9, <2>1, <5>1, ReadOff DEF Infos
      <4> QED BY <3>1, <4>1, <4>2, <4>3 DEF Ending
    <3>3. /\ dpc' = "scan" /\ m2s'[i] = <<>>
          /\ \/ busy'[i] = 1 /\ (s2m'[i] \in Ending \/ NeverTold(i)')
             \/ busy'[i] = 0 /\ s2m'[i] = <<>>
      BY <1>4, <1>6, <1>8, <1>9, <3>1, <3>2 DEF Releases, NeverTold
    <3> QED BY <1>4, <1>5, <1>6, <1>9, <2>3, <3>3 DEF Prompt, Answered, Engaged, Reg, Waits
  <2>4. CASE sp[i] \notin {"rep1", "idle"}
    <3>1. s2m[i] = <<"OK">> /\ sp[i] \notin {"connect"} /\ ~ (sp[i] = "wait_info" /\ m2s[i] = <<>>)
      BY <1>4, <1>5, <1>9, <2>4 DEF Prompt, Matched, Free, Busy
    <3>2. got # "DURING"
      BY <2>1, <3>1, ReadOff DEF Infos
    <3>3. dpc' = "scan" /\ m2s'[i] = m2s[i] /\ sp'[i] = sp[i]
      BY <1>6, <1>9, <3>2
    <3> QED BY <1>4, <1>5, <1>9, <2>4, <3>1, <3>3 DEF Prompt, Answered
  <2> QED BY <2>2, <2>3, <2>4
<1>10. Apart(i) /\ \A j \in Slaves \ {i} : ~ Engaged(j) /\ ~ Engaged(j)'
  BY <1>4, <1>6, <1>7, <1>8 DEF Apart, Engaged, Reg, Waits
<1>11. TubeSound'
  BY <1>4, SameTube
<1> QED BY <1>4, <1>5, <1>6, <1>9, <1>10, <1>11, DispatcherQuiet
-----------------------------------------------------------------------------
(* The invariant, and what it says of busy[].                              *)

LEMMA CallInvStep ==
    ASSUME Punctual
    PROVE  SocketInv /\ CallInv /\ [Next]_vars => CallInv'
<1> SUFFICES ASSUME SocketInv, CallInv, [Next]_vars PROVE CallInv'
  OBVIOUS
<1>1. CASE UNCHANGED vars
  <2>1. CallTypes'
    BY <1>1 DEF vars, master, slave, history, client, CallInv, CallTypes
  <2>2. ASSUME dpc # "dead" PROVE CallSound'
    BY <1>1, <2>2 DEF vars, master, slave, history, client, CallInv, CallSound, TubeSound, Patient, InTube,
       Prompt, NeverTold, Calling, Engaged, Connected, Alive
  <2> QED BY <1>1, <2>1, <2>2 DEF CallInv, vars, master
<1>2. CASE DispatcherStep
  <2>1. CallTypes' /\ dpc # "dead"
    BY <1>2, CallTypesDispatcher DEF CallInv, DispatcherStep, Select, Scan, RegIp, RegBytes, RegName,
       ScanEnds, Dispatch, Refuse, WaitOk, WaitOk2, WaitOk3, WaitTimeout
  <2>2. dpc' # "dead" => CallSound'
    BY <1>2, <2>1, ScanningCalls, ScanCalls, RegisterCalls, DispatchCalls, WaitsCalls
       DEF DispatcherStep
  <2> QED BY <2>1, <2>2 DEF CallInv
<1>3. CASE \E s \in Slaves : \/ SlaveStep(s) \/ TransferCut(s) \/ SlaveDies(s)
                            \/ MasterGone(s)
  <2>1. PICK s \in Slaves : SlaveStep(s) \/ TransferCut(s) \/ SlaveDies(s) \/ MasterGone(s)
    BY <1>3
  <2>2. CallTypes' /\ dpc' = dpc
    BY <2>1, CallTypesSlave DEF CallInv, SlaveStep, TransferCut, SlaveDies, MasterGone, SlaveReadsIp,
       SlaveConnects, SlaveRefused, SlaveDefault, SlaveCrashed, SlaveName, SlaveBytes,
       SlaveInfoTimeout, ResumeDone, ResumeBroken, ResumeFails, ReportIp, ReportBytes, ReportName,
       ReportFails, SessionExit, SessionTimeout, SessionRefused, UploadCut, master
  <2> QED BY <2>1, <2>2, SlaveCalls DEF CallInv
<1>4. CASE \E c \in Clients : \/ Dial(c) \/ Listen(c) \/ HangUp(c) \/ Abandoned(c)
                             \/ ClientVanishes(c) \/ ClientKilled(c)
  <2>1. PICK c \in Clients : \/ Dial(c) \/ Listen(c) \/ HangUp(c) \/ Abandoned(c)
                             \/ ClientVanishes(c) \/ ClientKilled(c)
    BY <1>4
  <2>2. CallTypes' /\ dpc' = dpc
    BY <2>1, CallTypesClient DEF CallInv, Dial, Listen, HangUp, Abandoned, ClientVanishes,
       ClientKilled, master
  <2> QED BY <2>1, <2>2, DialCalls, WaitingClientCalls, LostClientCalls DEF CallInv
<1> QED BY <1>1, <1>2, <1>3, <1>4 DEF Next

LEMMA CallInvImplies == SocketInv /\ CallInv => BusySlaveHasClient
<1> SUFFICES ASSUME SocketInv, CallInv, dpc = "select", NEW i \in Slaves, busy[i] = 1, Alive(i),
                    ~ untold[i], sp[i] = "idle", m2s[i] = <<>>
             PROVE  \E k \in 1 .. Len(s2m[i]) : s2m[i][k] \in {"FINISHED", "CRASHED", "DURING"}
  BY DEF BusySlaveHasClient, ReportOnItsWay
<1>1. s2m[i] \in Ending
  BY SlaveKnows DEF Prompt, NeverTold
<1>2. PICK q : q = s2m[i]
  OBVIOUS
<1>3. CASE q \in {<<"FINISHED">>, <<"CRASHED">>}
  <2>1. Len(q) = 1 /\ q[1] \in {"FINISHED", "CRASHED"}
    BY <1>3
  <2> QED BY <1>2, <2>1
<1>4. CASE q \in {<<"OK", "FINISHED">>, <<"OK", "CRASHED">>}
  <2>1. Len(q) = 2 /\ q[2] \in {"FINISHED", "CRASHED"}
    BY <1>4
  <2> QED BY <1>2, <2>1
<1> QED BY <1>1, <1>2, <1>3, <1>4 DEF Ending

\* When the clients that are called answer and none vanishes before its session,
\* a slave held for busy has a client or its release is on the way, unless its
\* session ended without a report (slave.c:331); even though clients vanish in
\* their sessions and clients and slaves are killed (master.c:20-22).
THEOREM BusySlaveIsBusy ==
    ASSUME Punctual
    PROVE  Spec => []BusySlaveHasClient
<1>1. Init => SocketInv /\ CallInv
  BY SocketInvInit, CallInvInit
<1>2. (SocketInv /\ CallInv) /\ [Next]_vars => (SocketInv /\ CallInv)'
  BY SocketInvStep, CallInvStep
<1>3. SocketInv /\ CallInv => BusySlaveHasClient
  BY CallInvImplies
<1> QED BY <1>1, <1>2, <1>3, PTL DEF Spec

-----------------------------------------------------------------------------
(* Handing a client to a slave.                                            *)

\* Nothing happens to a dispatcher that is dead.
LEMMA DeadStays == dpc = "dead" /\ [Next]_vars => dpc' = "dead"
<1> SUFFICES ASSUME dpc = "dead", [Next]_vars PROVE UNCHANGED dpc
  OBVIOUS
<1>1. ~ DispatcherStep
  BY DEF DispatcherStep, Select, Scan, RegIp, RegBytes, RegName, ScanEnds, Dispatch, Refuse, WaitOk,
     WaitOk2, WaitOk3, WaitTimeout
<1>2. ASSUME NEW s \in Slaves, SlaveStep(s) \/ TransferCut(s) \/ SlaveDies(s) \/ MasterGone(s)
      PROVE  UNCHANGED dpc
  BY <1>2 DEF SlaveStep, TransferCut, SlaveDies, MasterGone, SlaveReadsIp, SlaveConnects,
     SlaveRefused, SlaveDefault, SlaveCrashed, SlaveName, SlaveBytes, SlaveInfoTimeout, ResumeDone,
     ResumeBroken, ResumeFails, ReportIp, ReportBytes, ReportName, ReportFails, SessionExit,
     SessionTimeout, SessionRefused, UploadCut, master
<1>3. ASSUME NEW c \in Clients, \/ Dial(c) \/ Listen(c) \/ HangUp(c) \/ Abandoned(c)
                                \/ ClientVanishes(c) \/ ClientKilled(c)
      PROVE  UNCHANGED dpc
  BY <1>3 DEF Dial, Listen, HangUp, Abandoned, ClientVanishes, ClientKilled, master
<1> QED BY <1>1, <1>2, <1>3 DEF Next, vars, master

\* Only Dispatch gives an address to a slave.
LEMMA OnlyDispatch ==
    ASSUME [Next]_vars, dpc = "scan", dpc' = "wait_ok"
    PROVE  Dispatch
<1>1. ~ UNCHANGED dpc
  OBVIOUS
<1>2. ~ UNCHANGED vars
  BY <1>1 DEF vars, master
<1>3. ASSUME NEW s \in Slaves, SlaveStep(s) \/ TransferCut(s) \/ SlaveDies(s) \/ MasterGone(s)
      PROVE  FALSE
  BY <1>1, <1>3 DEF SlaveStep, TransferCut, SlaveDies, MasterGone, SlaveReadsIp, SlaveConnects,
     SlaveRefused, SlaveDefault, SlaveCrashed, SlaveName, SlaveBytes, SlaveInfoTimeout, ResumeDone,
     ResumeBroken, ResumeFails, ReportIp, ReportBytes, ReportName, ReportFails, SessionExit,
     SessionTimeout, SessionRefused, UploadCut, master
<1>4. ASSUME NEW c \in Clients, \/ Dial(c) \/ Listen(c) \/ HangUp(c) \/ Abandoned(c)
                                \/ ClientVanishes(c) \/ ClientKilled(c)
      PROVE  FALSE
  BY <1>1, <1>4 DEF Dial, Listen, HangUp, Abandoned, ClientVanishes, ClientKilled, master
<1>5. DispatcherStep
  BY <1>2, <1>3, <1>4 DEF Next
<1>6. ~ Scan
  BY DEF Scan, Send
<1> QED BY <1>5, <1>6 DEF DispatcherStep, Select, RegIp, RegBytes, RegName, ScanEnds, Refuse, WaitOk,
      WaitOk2, WaitOk3, WaitTimeout

LEMMA HandsToIdle ==
    ASSUME SocketInv, CallInv, [Next]_vars, dpc = "scan", dpc' = "wait_ok", Alive(id')
    PROVE  sp[id'] = "idle" /\ m2s[id'] = <<>> /\ s2m[id'] = <<>>
<1>1. Dispatch /\ dpc # "dead"
  BY OnlyDispatch
<1> QED BY <1>1, HandsOver

\* When the clients that are called answer and none vanishes before its session,
\* the slave that is given an address waits for it, and nothing of its former
\* session is left in its socket to be taken for the answer (master.c:130-141),
\* unless its process has ended, by an upload that was cut (slave.c:652) or
\* otherwise.
THEOREM AddressGoesToIdleSlave ==
    ASSUME Punctual
    PROVE  Spec => HandsToIdleSlave
<1>1. Init => SocketInv /\ CallInv
  BY SocketInvInit, CallInvInit
<1>2. (SocketInv /\ CallInv) /\ [Next]_vars => (SocketInv /\ CallInv)'
  BY SocketInvStep, CallInvStep
<1>3. (SocketInv /\ CallInv) /\ [Next]_vars =>
          [(dpc = "scan" /\ dpc' = "wait_ok" /\ Alive(id')) =>
              /\ sp[id'] = "idle"
              /\ m2s[id'] = <<>> /\ s2m[id'] = <<>>]_vars
  BY HandsToIdle
<1> QED BY <1>1, <1>2, <1>3, PTL DEF Spec, HandsToIdleSlave

-----------------------------------------------------------------------------
(* The dispatcher and the slaves that end, when only sessions go wrong.    *)

\* Nobody is killed: the only thing that goes wrong is a session.
Unharmed == Faults \subseteq {"session"}

\* The slave the dispatcher waits for is alive; or it was found dead by the first
\* write, and the next ends the dispatcher.
Standing ==
    /\ dpc # "dead"
    /\ Engaged(id) => Alive(id) \/ (dpc \in {"wait_ok", "reg_ip"} /\ sp[id] = "reset")

LEMMA StandingInit == Init => Standing
  BY DEF Init, Standing, Engaged, Reg, Waits

\* The facts about a slave that moves.
LEMMA SlaveIs ==
    ASSUME SocketInv, CallInv, dpc # "dead", NEW s \in Slaves
    PROVE  /\ Alive(s) => Matched(s) /\ Prompt(s)
           /\ sc = [i \in Slaves |-> sc[i]] /\ sp \in [Slaves -> Places]
           /\ m2s = [i \in Slaves |-> m2s[i]] /\ s2m = [i \in Slaves |-> s2m[i]]
           /\ late \in [Slaves -> BOOLEAN] /\ lost \in [Slaves -> BOOLEAN]
  BY SlaveKnows DEF SocketInv, Types, CallInv, CallTypes

\* The dispatcher answers every part of a report, and in time.
LEMMA ReportsAreRead ==
    ASSUME Unharmed, SocketInv, dpc # "dead", NEW s \in Slaves
    PROVE  ~ ReportFails(s)
<1> SUFFICES ASSUME ReportFails(s) PROVE FALSE
  OBVIOUS
<1>1. sp[s] \in {"rep1", "rep2", "rep3"} /\ "dial" \notin Faults
  BY DEF ReportFails, Unharmed
<1>2. Matched(s)
  BY <1>1 DEF SocketInv, AllMatched, Alive
<1>3. m2s[s] \in {<<>>, <<"OK">>}
  BY <1>1, <1>2 DEF Matched, Engaged, Reg, Waits, Free, Busy, AsksClient, AsksResume, AsksName,
     Reports
<1> QED BY <1>1, <1>3, ReadOff DEF ReportFails, Silent, Hears

\* A slave ends only in a session or in a resume, while nobody waits for it.
LEMMA SlaveStands ==
    ASSUME Unharmed, SocketInv, CallInv, Standing, NEW s \in Slaves,
           SlaveStep(s) \/ TransferCut(s) \/ SlaveDies(s) \/ MasterGone(s)
    PROVE  Standing'
<1>1. ~ SlaveRefused(s) /\ ~ SlaveDies(s) /\ ~ MasterGone(s) /\ dpc # "dead"
  BY DEF SlaveRefused, SlaveDies, MasterGone, Unharmed, Standing
<1>2. ~ ReportFails(s)
  BY <1>1, ReportsAreRead
<1>3. UNCHANGED <<dpc, id>>
  BY <1>1, <1>2 DEF SlaveStep, TransferCut, SlaveReadsIp, SlaveConnects, SlaveDefault, SlaveCrashed,
     SlaveName, SlaveBytes, SlaveInfoTimeout, ResumeDone, ResumeBroken, ResumeFails, ReportIp,
     ReportBytes, ReportName, SessionExit, SessionTimeout, SessionRefused, UploadCut, master
<1>4. CASE UploadCut(s) \/ ResumeBroken(s)
  <2>1. sp[s] \in {"session", "resume"} /\ \A i \in Slaves \ {s} : sp'[i] = sp[i]
    BY <1>4 DEF UploadCut, ResumeBroken, Exit, At, SocketInv, Types
  <2>2. ~ Engaged(s)
    BY <1>1, <2>1, SlaveIs DEF Alive, Matched, Engaged, Reg, Waits, AsksClient, AsksResume, AsksName,
       Reports
  <2>3. id = s \/ (id \in Slaves \ {s} /\ sp'[id] = sp[id])
    BY <2>1 DEF SocketInv, Types
  <2> QED BY <1>3, <2>2, <2>3 DEF Standing, Engaged, Alive
<1>5. CASE ~ UploadCut(s) /\ ~ ResumeBroken(s)
  <2>1. /\ sp[s] \notin {"dead", "reset"}
        /\ \E place \in Places \ {"dead", "reset"} : sp' = [sp EXCEPT ![s] = place]
    BY <1>1, <1>2, <1>5 DEF SlaveStep, TransferCut, SlaveReadsIp, SlaveConnects, SlaveDefault,
       SlaveCrashed, SlaveName, SlaveBytes, SlaveInfoTimeout, ResumeDone, ResumeFails, ReportIp,
       ReportBytes, ReportName, SessionExit, SessionTimeout, SessionRefused, At, Places
  <2>2. \A i \in Slaves : sp'[i] = sp[i] \/ (Alive(i) /\ Alive(i)')
    BY <2>1 DEF SocketInv, Types, Alive
  <2> QED BY <1>3, <2>2 DEF Standing, Engaged, Alive, SocketInv, Types
<1> QED BY <1>4, <1>5

\* What a write does to the slave it is for.
LEMMA SentOrLost ==
    ASSUME Types, NEW i \in Slaves, NEW m, NEW next, Send(i, m, next), dpc' # "dead"
    PROVE  /\ dpc' = next
           /\ \/ Alive(i) /\ Alive(i)'
              \/ sp[i] = "dead" /\ sp'[i] = "reset" /\ m2s' = m2s
           /\ Alive(i) => UNCHANGED sp /\ m2s'[i] = Append(m2s[i], m)
           /\ \A j \in Slaves \ {i} : sp'[j] = sp[j] /\ m2s'[j] = m2s[j]
<1>1. CASE Alive(i) /\ m2s' = [m2s EXCEPT ![i] = Append(@, m)] /\ dpc' = next /\ UNCHANGED sp
  BY <1>1 DEF Types, Alive
<1>2. CASE sp[i] = "dead" /\ sp' = [sp EXCEPT ![i] = "reset"] /\ dpc' = next /\ UNCHANGED m2s
  BY <1>2 DEF Types, Alive
<1> QED BY <1>1, <1>2 DEF Send

LEMMA DispatcherStands ==
    ASSUME SocketInv, Standing, DispatcherStep
    PROVE  dpc' # "dead" => Standing'
<1> SUFFICES ASSUME dpc' # "dead" PROVE Standing'
  OBVIOUS
<1>1. CASE dpc' \notin Reg \cup Waits
  BY <1>1 DEF Standing, Engaged
<1>2. CASE Scan /\ dpc' \in Reg \cup Waits
  <2>1. PICK i \in Slaves : i = CHOOSE j \in todo : \A k \in todo : j <= k
    BY <1>2, FirstToScan DEF Scan, SocketInv, Types
  <2>2. id' = i /\ Send(i, "OK", "reg_ip")
    BY <1>2, <2>1 DEF Scan, Reg, Waits
  <2> QED BY <2>2, SentOrLost DEF SocketInv, Standing, Alive
<1>3. CASE Dispatch
  <2>1. PICK i \in Slaves : i = slave_not_busy
    BY <1>3, FirstNotBusy, MasterAssumption DEF Dispatch, SocketInv, Types
  <2>2. id' = i /\ \E m : Send(i, m, "wait_ok")
    BY <1>3, <2>1 DEF Dispatch
  <2> QED BY <2>2, SentOrLost DEF SocketInv, Standing, Alive
<1>4. CASE /\ RegIp \/ RegBytes \/ WaitOk \/ WaitOk2 \/ WaitOk3
           /\ dpc' \in Reg \cup Waits
  <2>1. PICK i \in Slaves : i = id
    BY DEF SocketInv, Types
  <2>2. /\ dpc \in Reg \cup Waits /\ id' = i
        /\ \E m : \E next : Send(i, m, next)
    BY <1>4, <2>1 DEF RegIp, RegBytes, WaitOk, WaitOk2, WaitOk3, Reg, Waits
  <2>3. Alive(i) \/ sp[i] = "reset"
    BY <2>1, <2>2 DEF Standing, Engaged
  <2>4. Alive(i)'
    BY <2>2, <2>3, SentOrLost DEF SocketInv, Alive
  <2> QED BY <2>2, <2>4 DEF Standing
<1>5. CASE Select \/ ScanEnds \/ Refuse \/ RegName \/ WaitTimeout
  BY <1>1, <1>5 DEF Select, ScanEnds, Refuse, RegName, WaitTimeout, Reg, Waits
<1> QED BY <1>1, <1>2, <1>3, <1>4, <1>5 DEF DispatcherStep

LEMMA StandingStep ==
    ASSUME Unharmed
    PROVE  SocketInv /\ CallInv /\ Standing /\ [Next]_vars => (dpc' # "dead" => Standing')
<1> SUFFICES ASSUME SocketInv, CallInv, Standing, [Next]_vars
             PROVE  dpc' # "dead" => Standing'
  OBVIOUS
<1>1. CASE UNCHANGED <<dpc, id, sp>>
  BY <1>1 DEF Standing, Engaged, Alive
<1>2. CASE DispatcherStep
  BY <1>2, DispatcherStands
<1>3. CASE \E s \in Slaves : \/ SlaveStep(s) \/ TransferCut(s) \/ SlaveDies(s)
                            \/ MasterGone(s)
  BY <1>3, SlaveStands
<1>4. CASE \E c \in Clients : \/ Dial(c) \/ Listen(c) \/ HangUp(c) \/ Abandoned(c)
                             \/ ClientVanishes(c) \/ ClientKilled(c)
  BY <1>1, <1>4 DEF Dial, Listen, HangUp, Abandoned, ClientVanishes, ClientKilled, Unharmed, master,
     slave
<1>5. CASE UNCHANGED vars
  BY <1>1, <1>5 DEF vars, master, slave
<1> QED BY <1>2, <1>3, <1>4, <1>5 DEF Next

-----------------------------------------------------------------------------
(* What is recorded and what is owed, when only sessions go wrong and the  *)
(* list of unfinished transfers has one place.                             *)

\* The slave resumes a transfer whose record is removed.
Resuming(s) == sp[s] = "resume" \/ (sp[s] = "rcv_bytes" /\ m2s[s] # <<>>)

\* The slave reports a transfer that was cut and that is not recorded yet: the
\* dispatcher may still read the name when the slave is idle again.
InReport(s) ==
    \/ sp[s] \in {"rep1", "rep2", "rep3"}
    \/ dpc = "reg_name" /\ id = s /\ sp[s] = "idle"

Resumed(c) == \E s \in Slaves : sc[s] = c /\ Resuming(s)
Reported(c) == \E s \in Slaves : sc[s] = c /\ InReport(s)
Recorded(c) == recs = <<c>>

Unit(p) == IF p THEN 1 ELSE 0

\* A transfer that is owed is in one of the three places, or its record was
\* removed by a resume that failed.
Ledger(c) ==
    owed[c] = Unit(Recorded(c)) + Unit(Resumed(c)) + Unit(Reported(c)) + dropped[c]

DebtTypes ==
    /\ owed \in [Clients -> Int] /\ dropped \in [Clients -> Nat]
    /\ recs = <<>> \/ \E c \in Clients : Recorded(c)
    /\ \A s \in Slaves : sp[s] = "session" \/ InReport(s) => sc[s] \in Clients

\* One transfer at a time is reported or recorded.
OneReport ==
    /\ \A s, t \in Slaves : InReport(s) /\ InReport(t) => s = t
    /\ recs # <<>> => \A s \in Slaves : ~ InReport(s)

\* What the dispatcher notes is the client of the slave i that reports, and
\* what it removes is the record of the client of the slave i that resumes.
ForClient(i) ==
    /\ dpc = "reg_ip" /\ sp[i] = "rep2" => s2m[i] = <<sc[i]>>
    /\ dpc \in {"reg_bytes", "reg_name"} => rip = sc[i]
    /\ dpc \in Waits /\ sp[i] # "idle" /\ Alive(i) => sc[i] = cur
    /\ dpc \in {"wait_ok2", "wait_ok3"} => recs = <<cur>>

DebtInv ==
    /\ DebtTypes /\ OneReport /\ ForClient(id)
    /\ \A c \in Clients : Ledger(c)

LEMMA DebtInvInit == Init => DebtInv
<1> SUFFICES ASSUME Init PROVE DebtInv
  OBVIOUS
<1>1. \A s \in Slaves : ~ Resuming(s) /\ ~ InReport(s)
  BY DEF Init, Resuming, InReport
<1>2. \A c : recs = <<>> /\ ~ Recorded(c)
  BY ReadOff DEF Init, Recorded
<1>3. DebtTypes
  BY <1>1, <1>2 DEF Init, DebtTypes
<1>4. OneReport
  BY <1>1, <1>2 DEF OneReport
<1>5. ForClient(id)
  BY DEF Init, ForClient, Waits
<1>6. ASSUME NEW c \in Clients PROVE Ledger(c)
  <2>1. ~ Recorded(c) /\ ~ Resumed(c) /\ ~ Reported(c)
    BY <1>1, <1>2 DEF Resumed, Reported
  <2>2. owed[c] = 0 /\ dropped[c] = 0
    BY DEF Init
  <2> QED BY <2>1, <2>2 DEF Ledger, Unit
<1> QED BY <1>3, <1>4, <1>5, <1>6 DEF DebtInv

\* A client is resumed by one slave.
LEMMA OneResumes ==
    ASSUME SocketInv, CallInv, Standing, NEW s \in Slaves, NEW t \in Slaves,
           sp[s] \in {"rcv_bytes", "resume"}, Resuming(t), sc[s] = sc[t]
    PROVE  s = t
<1>1. Prompt(s) /\ Prompt(t)
  BY SlaveKnows DEF Standing, Resuming, Alive
<1> QED BY <1>1 DEF Prompt, Answered, Resuming

-----------------------------------------------------------------------------
(* Frames.                                                                 *)

\* Slave i keeps what it resumes or reports.
SameDebt(i) ==
    /\ Resuming(i)' <=> Resuming(i)
    /\ InReport(i)' <=> InReport(i)
    /\ Resuming(i) \/ InReport(i) \/ sp'[i] = "session" => sc'[i] = sc[i]
    /\ sp'[i] = "session" => sc[i] \in Clients

LEMMA SameLedger ==
    ASSUME DebtInv, UNCHANGED <<owed, dropped, recs>>, \A i \in Slaves : SameDebt(i)
    PROVE  DebtTypes' /\ OneReport' /\ \A c \in Clients : Ledger(c)'
<1>1. \A c : Recorded(c)' <=> Recorded(c)
  BY DEF Recorded
<1>2. DebtTypes'
  BY <1>1 DEF DebtInv, DebtTypes, SameDebt
<1>3. OneReport'
  BY DEF DebtInv, OneReport, SameDebt
<1>4. ASSUME NEW c \in Clients PROVE Ledger(c)'
  <2>1. Resumed(c)' <=> Resumed(c)
    BY DEF Resumed, SameDebt
  <2>2. Reported(c)' <=> Reported(c)
    BY DEF Reported, SameDebt
  <2>3. Ledger(c)
    BY DEF DebtInv
  <2> QED BY <1>1, <2>1, <2>2, <2>3 DEF Ledger, Unit
<1> QED BY <1>2, <1>3, <1>4

\* Slave s moves alone.
Alone(s) ==
    /\ UNCHANGED <<dpc, id, cur, rip, recs>>
    /\ \A i \in Slaves \ {s} :
          sp'[i] = sp[i] /\ m2s'[i] = m2s[i] /\ s2m'[i] = s2m[i] /\ sc'[i] = sc[i]

LEMMA OthersSameDebt ==
    ASSUME DebtInv, NEW s, Alone(s), NEW i \in Slaves \ {s}
    PROVE  SameDebt(i)
<1>1. sp'[i] = sp[i] /\ m2s'[i] = m2s[i] /\ sc'[i] = sc[i] /\ dpc' = dpc /\ id' = id
  BY DEF Alone
<1>2. (Resuming(i)' <=> Resuming(i)) /\ (InReport(i)' <=> InReport(i))
  BY <1>1 DEF Resuming, InReport
<1> QED BY <1>1, <1>2 DEF SameDebt, DebtInv, DebtTypes

LEMMA SlaveMovesDebt ==
    ASSUME SocketInv, DebtInv, NEW s \in Slaves, Alone(s), UNCHANGED <<owed, dropped>>,
           SameDebt(s), id = s => ForClient(s)'
    PROVE  DebtInv'
<1>1. DebtTypes' /\ OneReport' /\ \A c \in Clients : Ledger(c)'
  <2>1. \A i \in Slaves : SameDebt(i)
    BY OthersSameDebt
  <2>2. UNCHANGED <<owed, dropped, recs>>
    BY DEF Alone
  <2> QED BY <2>1, <2>2, SameLedger
<1>2. PICK i \in Slaves : i = id /\ i = id' /\ ForClient(i)
  BY DEF Alone, SocketInv, Types, DebtInv
<1>3. ForClient(i)'
  <2>1. CASE i = s
    BY <1>2, <2>1
  <2>2. CASE i # s
    BY <1>2, <2>2 DEF Alone, ForClient, Alive
  <2> QED BY <2>1, <2>2
<1> QED BY <1>1, <1>2, <1>3 DEF DebtInv

LEMMA SlaveAlone ==
    ASSUME SocketInv, CallInv, NEW s \in Slaves, SlaveStep(s) \/ TransferCut(s)
    PROVE  Alone(s)
<1> USE DEF Alone, SocketInv, Types, CallInv, CallTypes, master, client, At, Consumed, Tell
<1>1. CASE SlaveReadsIp(s) \/ SlaveConnects(s) \/ SlaveDefault(s) \/ SlaveCrashed(s)
  BY <1>1 DEF SlaveReadsIp, SlaveConnects, SlaveDefault, SlaveCrashed
<1>2. CASE \/ SlaveName(s) \/ SlaveBytes(s) \/ SlaveInfoTimeout(s) \/ ResumeDone(s)
           \/ ResumeBroken(s) \/ ResumeFails(s)
  BY <1>2 DEF SlaveName, SlaveBytes, SlaveInfoTimeout, ResumeDone, ResumeBroken, ResumeFails
<1>3. CASE ReportIp(s) \/ ReportBytes(s) \/ ReportName(s) \/ TransferCut(s)
  BY <1>3 DEF ReportIp, ReportBytes, ReportName, TransferCut
<1>4. CASE SlaveRefused(s) \/ ReportFails(s) \/ UploadCut(s)
  BY <1>4 DEF SlaveRefused, ReportFails, UploadCut, Exit
<1>5. CASE SessionExit(s) \/ SessionTimeout(s) \/ SessionRefused(s)
  BY <1>5 DEF SessionExit, SessionTimeout, SessionRefused
<1> QED BY <1>1, <1>2, <1>3, <1>4, <1>5 DEF SlaveStep

-----------------------------------------------------------------------------
(* The slaves' steps.                                                      *)

\* The connection to the client, up to the start of the session.
LEMMA CallingDebt ==
    ASSUME SocketInv, CallInv, Standing, DebtInv, NEW s \in Slaves,
           SlaveReadsIp(s) \/ SlaveConnects(s) \/ SlaveDefault(s) \/ SlaveCrashed(s)
    PROVE  DebtInv'
<1>1. Alone(s) /\ UNCHANGED <<owed, dropped>>
  BY SlaveAlone DEF SlaveStep, SlaveReadsIp, SlaveConnects, SlaveDefault, SlaveCrashed, history
<1>2. Matched(s) /\ Prompt(s) /\ dpc # "dead"
  BY SlaveIs DEF Standing, Alive, SlaveReadsIp, SlaveConnects, SlaveDefault, SlaveCrashed
<1>3. CASE SlaveReadsIp(s)
  <2>1. /\ sp[s] = "idle" /\ m2s[s] # <<>> /\ sp'[s] = "connect"
        /\ sc'[s] = Head(m2s[s]) /\ UNCHANGED <<dpc, id, cur>>
    BY <1>2, <1>3, SlaveIs DEF SlaveReadsIp, At, master
  <2>2. dpc = "wait_ok" /\ id = s
    BY <1>2, <2>1 DEF Prompt
  <2>3. m2s[s] = <<cur>>
    BY <1>2, <2>1, <2>2 DEF Prompt, Calling
  <2>4. sc'[s] = cur
    BY <2>1, <2>3, ReadOff
  <2>5. SameDebt(s)
    BY <2>1, <2>2 DEF SameDebt, Resuming, InReport
  <2>6. ForClient(s)'
    BY <2>1, <2>2, <2>4 DEF ForClient
  <2> QED BY <1>1, <2>5, <2>6, SlaveMovesDebt
<1>4. CASE SlaveConnects(s) \/ SlaveDefault(s) \/ SlaveCrashed(s)
  <2>1. /\ sp[s] \in {"connect", "wait_info"} /\ sc'[s] = sc[s]
        /\ sp'[s] \in {"wait_info", "session", "rcv_name"}
        /\ sp'[s] = "session" => sp[s] = "wait_info"
    BY <1>2, <1>4, SlaveIs DEF SlaveConnects, SlaveDefault, SlaveCrashed, At
  <2>2. SameDebt(s)
    BY <1>2, <2>1 DEF SameDebt, Resuming, InReport, Prompt, Answered
  <2>3. id = s => ForClient(s)'
    BY <1>1, <2>1 DEF ForClient, Alone, DebtInv, Alive
  <2> QED BY <1>1, <2>2, <2>3, SlaveMovesDebt
<1> QED BY <1>3, <1>4

\* The slave is told what to resume.
LEMMA ToResumeDebt ==
    ASSUME SocketInv, CallInv, Standing, DebtInv, NEW s \in Slaves, SlaveName(s) \/ SlaveBytes(s)
    PROVE  DebtInv'
<1>1. Alone(s) /\ UNCHANGED <<owed, dropped>>
  BY SlaveAlone DEF SlaveStep, SlaveName, SlaveBytes, history
<1>2. /\ m2s[s] # <<>> /\ sc'[s] = sc[s] /\ m2s'[s] = Tail(m2s[s])
      /\ \/ sp[s] = "rcv_name" /\ sp'[s] = "rcv_bytes"
         \/ sp[s] = "rcv_bytes" /\ sp'[s] = "resume"
  BY SlaveIs DEF SlaveName, SlaveBytes, At, Consumed, Standing
<1>3. sp[s] = "rcv_name" => m2s'[s] = <<>>
  <2>1. sp[s] = "rcv_name" => One(m2s[s])
    BY <1>2, SlaveIs DEF Standing, Alive, Matched, Engaged, Reg, Waits, Free, Busy, AsksClient,
       AsksResume, AsksName, Reports
  <2> QED BY <1>2, <2>1, ReadOff DEF One
<1>4. SameDebt(s)
  BY <1>2, <1>3 DEF SameDebt, Resuming, InReport
<1>5. id = s => ForClient(s)'
  BY <1>1, <1>2 DEF ForClient, Alone, DebtInv, Alive
<1> QED BY <1>1, <1>4, <1>5, SlaveMovesDebt

\* The transfer is resumed to its end, or the resume is broken.
LEMMA ResumeOverDebt ==
    ASSUME SocketInv, CallInv, Standing, DebtInv, NEW s \in Slaves, ResumeDone(s) \/ ResumeBroken(s)
    PROVE  DebtInv'
<1>1. Alone(s)
  BY SlaveAlone DEF SlaveStep
<1>2. PICK c \in Clients : c = sc[s]
  BY SlaveIs DEF ResumeDone, ResumeBroken, Prompt, Answered, Standing, Alive
<1>3. /\ sp[s] = "resume" /\ sp'[s] \in {"session", "spin", "dead"} /\ sc'[s] = c /\ recs' = recs
      /\ UNCHANGED <<dpc, id>>
      /\ \/ owed' = [owed EXCEPT ![c] = @ - 1] /\ dropped' = dropped
         \/ dropped' = [dropped EXCEPT ![c] = @ + 1] /\ owed' = owed
  BY <1>2, SlaveIs DEF ResumeDone, ResumeBroken, Dropped, At, master, Standing
<1>4. /\ Resuming(s) /\ ~ Resuming(s)' /\ ~ InReport(s) /\ ~ InReport(s)'
      /\ \A i \in Slaves \ {s} : SameDebt(i) /\ sc'[i] = sc[i]
  BY <1>1, <1>3, OthersSameDebt DEF Resuming, InReport, Alone
<1>5. \A d : Recorded(d)' <=> Recorded(d)
  BY <1>3 DEF Recorded
<1>6. \A d : Reported(d)' <=> Reported(d)
  BY <1>3, <1>4 DEF Reported, SameDebt
<1>7. Resumed(c) /\ ~ Resumed(c)'
  <2>1. \A i \in Slaves \ {s} : Resuming(i) => sc[i] # c
    BY <1>2, <1>3, OneResumes
  <2> QED BY <1>2, <1>4, <2>1 DEF Resumed, SameDebt
<1>8. \A d \in Clients \ {c} : Resumed(d)' <=> Resumed(d)
  BY <1>2, <1>3, <1>4 DEF Resumed, SameDebt
<1>9. DebtTypes'
  BY <1>2, <1>3, <1>4, <1>5 DEF DebtInv, DebtTypes, SameDebt
<1>10. OneReport'
  BY <1>3, <1>4 DEF DebtInv, OneReport, SameDebt
<1>11. ASSUME NEW d \in Clients PROVE Ledger(d)'
  <2>1. /\ Ledger(d) /\ owed[d] \in Int /\ dropped[d] \in Nat
        /\ \/ owed'[d] = (IF d = c THEN owed[d] - 1 ELSE owed[d]) /\ dropped'[d] = dropped[d]
           \/ dropped'[d] = (IF d = c THEN dropped[d] + 1 ELSE dropped[d]) /\ owed'[d] = owed[d]
    BY <1>3 DEF DebtInv, DebtTypes
  <2>2. CASE d = c
    BY <1>5, <1>6, <1>7, <2>1, <2>2 DEF Ledger, Unit
  <2>3. CASE d # c
    BY <1>5, <1>6, <1>8, <2>1, <2>3 DEF Ledger, Unit
  <2> QED BY <2>2, <2>3
<1>12. ForClient(id)'
  <2>1. PICK i \in Slaves : i = id /\ i = id' /\ ForClient(i)
    BY <1>3 DEF SocketInv, Types, DebtInv
  <2> QED BY <1>1, <1>2, <1>3, <2>1 DEF ForClient, Alone, Alive
<1> QED BY <1>9, <1>10, <1>11, <1>12 DEF DebtInv

\* There is one place in the list: nothing is recorded or reported when a
\* transfer is cut.
LEMMA RoomIsFree ==
    ASSUME MaxRecords <= 1, DebtTypes, NEW s, RecordRoom(s)
    PROVE  recs = <<>> /\ \A t \in Slaves : ~ InReport(t)
<1> DEFINE Reporting == {t \in Slaves : sp[t] \in {"rep1", "rep2", "rep3"}}
           reading == IF dpc \in {"reg_ip", "reg_bytes", "reg_name"} THEN 1 ELSE 0
<1>1. IsFiniteSet(Reporting)
  <2>1. NbEsclave \in Int /\ IsFiniteSet(Slaves)
    BY MasterAssumption, FS_Interval DEF Slaves
  <2> QED BY <2>1, FS_Subset
<1>2. Cardinality(Reporting) \in Nat
  BY <1>1, FS_CardinalityType
<1>3. Len(recs) \in Nat /\ (Len(recs) = 0 => recs = <<>>)
  <2>1. recs = <<>> \/ \E c \in Clients : recs = <<c>>
    BY DEF DebtTypes, Recorded
  <2> QED BY <2>1
<1>4. Len(recs) + Cardinality(Reporting) + reading < 1
  BY <1>2, <1>3, MasterAssumption DEF RecordRoom
<1>5. Len(recs) = 0 /\ Cardinality(Reporting) = 0 /\ dpc # "reg_name"
  <2> HIDE DEF Reporting
  <2> QED BY <1>2, <1>3, <1>4
<1>6. Reporting = {}
  BY <1>1, <1>5, FS_EmptySet
<1> QED BY <1>3, <1>5, <1>6 DEF InReport

\* A transfer is cut.
LEMMA TransferCutDebt ==
    ASSUME MaxRecords <= 1, SocketInv, CallInv, Standing, DebtInv, NEW s \in Slaves,
           TransferCut(s)
    PROVE  DebtInv'
<1>1. Alone(s)
  BY SlaveAlone
<1>2. sp[s] = "session"
  BY SlaveIs DEF TransferCut, Prompt, Answered, Standing, Alive
<1>3. PICK c \in Clients : c = sc[s]
  BY <1>2 DEF DebtInv, DebtTypes
<1>4. /\ sp'[s] = "rep1" /\ sc'[s] = c /\ m2s' = m2s /\ recs' = recs
      /\ owed' = [owed EXCEPT ![c] = @ + 1] /\ UNCHANGED <<dpc, id, dropped>>
  BY <1>2, <1>3, SlaveIs DEF TransferCut, At, master, Standing
<1>5. recs = <<>> /\ \A t \in Slaves : ~ InReport(t)
  BY RoomIsFree DEF TransferCut, DebtInv
<1>6. /\ ~ Resuming(s) /\ ~ Resuming(s)' /\ InReport(s)'
      /\ \A i \in Slaves \ {s} : SameDebt(i) /\ sc'[i] = sc[i]
  BY <1>1, <1>2, <1>4, OthersSameDebt DEF Resuming, InReport, Alone
<1>7. \A d : Recorded(d)' <=> Recorded(d)
  BY <1>4 DEF Recorded
<1>8. \A d : Resumed(d)' <=> Resumed(d)
  BY <1>6 DEF Resumed, SameDebt
<1>9. \A d : ~ Reported(d) /\ (Reported(d)' <=> d = c)
  BY <1>4, <1>5, <1>6 DEF Reported, SameDebt
<1>10. DebtTypes'
  BY <1>3, <1>4, <1>6, <1>7 DEF DebtInv, DebtTypes, SameDebt
<1>11. OneReport'
  BY <1>4, <1>5, <1>6 DEF OneReport, SameDebt
<1>12. ASSUME NEW d \in Clients PROVE Ledger(d)'
  <2>1. /\ Ledger(d) /\ owed'[d] = (IF d = c THEN owed[d] + 1 ELSE owed[d])
        /\ owed[d] \in Int /\ dropped[d] \in Nat /\ dropped'[d] = dropped[d]
    BY <1>4 DEF DebtInv, DebtTypes
  <2> QED BY <1>7, <1>8, <1>9, <2>1 DEF Ledger, Unit
<1>13. ForClient(id)'
  <2>1. PICK i \in Slaves : i = id /\ i = id' /\ ForClient(i)
    BY <1>4 DEF SocketInv, Types, DebtInv
  <2> QED BY <1>1, <1>2, <1>3, <1>4, <2>1 DEF ForClient, Alone, Alive
<1> QED BY <1>10, <1>11, <1>12, <1>13 DEF DebtInv

\* The three parts of the report.
LEMMA ReportDebt ==
    ASSUME SocketInv, CallInv, Standing, DebtInv, NEW s \in Slaves,
           ReportIp(s) \/ ReportBytes(s) \/ ReportName(s)
    PROVE  DebtInv'
<1>1. Alone(s) /\ UNCHANGED <<owed, dropped>>
  BY SlaveAlone DEF SlaveStep, ReportIp, ReportBytes, ReportName, history
<1>2. /\ Hears(s, "OK") /\ sc'[s] = sc[s] /\ UNCHANGED <<dpc, id, cur, recs, rip>>
      /\ \/ sp[s] = "rep1" /\ sp'[s] = "rep2" /\ s2m'[s] = s2m[s] \o <<sc[s]>>
         \/ sp[s] = "rep2" /\ sp'[s] = "rep3"
         \/ sp[s] = "rep3" /\ sp'[s] = "idle"
  BY SlaveIs DEF ReportIp, ReportBytes, ReportName, At, Tell, master, Standing
<1>3. /\ id = s /\ dpc \in Reg
      /\ sp[s] = "rep1" => dpc = "reg_ip" /\ s2m[s] = <<>>
      /\ sp[s] = "rep2" => dpc = "reg_bytes"
      /\ sp[s] = "rep3" => dpc = "reg_name"
  BY <1>2, SlaveIs DEF Standing, Alive, Hears, Matched, Engaged, Reg, Waits, Free, Busy, AsksClient, AsksResume,
     AsksName, Reports
<1>4. SameDebt(s)
  BY <1>2, <1>3 DEF SameDebt, Resuming, InReport
<1>5. sp[s] = "rep1" => s2m'[s] = <<sc[s]>>
  BY <1>2, <1>3, Told
<1>6. ForClient(s)'
  BY <1>2, <1>3, <1>5 DEF ForClient, DebtInv, Reg, Waits
<1> QED BY <1>1, <1>4, <1>6, SlaveMovesDebt

\* The session ends, or the slave in it.
LEMMA SessionDebt ==
    ASSUME SocketInv, CallInv, Standing, DebtInv, NEW s \in Slaves,
           SessionExit(s) \/ SessionTimeout(s) \/ SessionRefused(s) \/ UploadCut(s)
    PROVE  DebtInv'
<1>1. Alone(s) /\ UNCHANGED <<owed, dropped>>
  BY SlaveAlone DEF SlaveStep, SessionExit, SessionTimeout, SessionRefused, UploadCut, history
<1>2. /\ sp[s] = "session" /\ sp'[s] \in {"idle", "dead", "reset"} /\ sc'[s] = sc[s]
      /\ UNCHANGED <<dpc, id, cur, recs, rip>>
  BY SlaveIs DEF SessionExit, SessionTimeout, SessionRefused, UploadCut, Exit, At, master, Standing
<1>3. ~ Engaged(s)
  BY <1>2, SlaveIs DEF Standing, Alive, Matched, Engaged, Reg, Waits, AsksClient, AsksResume,
     AsksName, Reports
<1>4. SameDebt(s)
  BY <1>2, <1>3 DEF SameDebt, Resuming, InReport, Engaged, Reg
<1>5. id = s => ForClient(s)'
  BY <1>2, <1>3 DEF ForClient, Engaged, Reg, Waits
<1> QED BY <1>1, <1>4, <1>5, SlaveMovesDebt

\* The other steps need a client that does not answer, or a death.
LEMMA SlaveDebt ==
    ASSUME Unharmed, MaxRecords <= 1, SocketInv, CallInv, Standing, DebtInv, NEW s \in Slaves,
           SlaveStep(s) \/ TransferCut(s) \/ SlaveDies(s) \/ MasterGone(s)
    PROVE  DebtInv'
<1>1. ~ SlaveRefused(s) /\ ~ SlaveDies(s) /\ ~ MasterGone(s)
  BY DEF SlaveRefused, SlaveDies, MasterGone, Unharmed, Standing
<1>2. ~ ReportFails(s) /\ ~ SlaveInfoTimeout(s) /\ ~ ResumeFails(s)
  BY ReportsAreRead, NeverGivenUp DEF Standing
<1> QED BY <1>1, <1>2, CallingDebt, ToResumeDebt, ResumeOverDebt, TransferCutDebt, ReportDebt,
           SessionDebt DEF SlaveStep

-----------------------------------------------------------------------------
(* The dispatcher's steps.                                                 *)

\* The dispatcher talks to slave i, which does not move unless it is dead.
LEMMA DispatcherMovesDebt ==
    ASSUME SocketInv, DebtInv, NEW i \in Slaves, UNCHANGED <<sc, owed, dropped, recs>>,
           \A j \in Slaves : sp'[j] = sp[j] \/ (~ Alive(j) /\ ~ Alive(j)'),
           \A j \in Slaves \ {i} : m2s'[j] = m2s[j],
           sp[i] = "rcv_bytes" => m2s'[i] = m2s[i],
           \A j \in Slaves : InReport(j)' <=> InReport(j),
           id' = i, ForClient(i)'
    PROVE  DebtInv'
<1>1. ASSUME NEW j \in Slaves PROVE SameDebt(j)
  <2>1. Resuming(j)' <=> Resuming(j)
    BY DEF Resuming, Alive
  <2>2. sp'[j] = "session" => sp[j] = "session"
    BY DEF Alive
  <2> QED BY <2>1, <2>2 DEF SameDebt, DebtInv, DebtTypes
<1> QED BY <1>1, SameLedger DEF DebtInv

\* The dispatcher finds the slave it waits for dead, and does not survive it
\* unless the slave had left something else than its answer.
LEMMA DeadReadDebt ==
    ASSUME SocketInv, Standing, DebtInv, ~ Alive(id), dpc' # "dead",
           RegIp \/ RegBytes \/ RegName \/ WaitOk \/ WaitOk2 \/ WaitOk3
    PROVE  DebtInv'
<1>1. PICK i \in Slaves : i = id /\ id' = i
  BY DEF RegIp, RegBytes, RegName, WaitOk, WaitOk2, WaitOk3, SocketInv, Types
<1>2. sp[i] = "reset" /\ dpc \in {"wait_ok", "reg_ip"}
  BY <1>1 DEF Standing, Engaged, RegIp, RegBytes, RegName, WaitOk, WaitOk2, WaitOk3, Reg, Waits
<1>3. \A m, next : ~ Send(i, m, next)
  BY <1>2 DEF Send, Alive
<1>4. WaitOk /\ dpc' = "select" /\ UNCHANGED <<m2s, sp, sc, owed, dropped, recs>>
  BY <1>1, <1>2, <1>3 DEF RegIp, RegBytes, RegName, WaitOk, WaitOk2, WaitOk3, history
<1>5. \A j \in Slaves : InReport(j)' <=> InReport(j)
  BY <1>2, <1>4 DEF InReport
<1>6. ForClient(i)'
  BY <1>4 DEF ForClient, Waits
<1> QED BY <1>1, <1>4, <1>5, <1>6, DispatcherMovesDebt

\* select(), and the steps of the scan that read nothing.
LEMMA ScanningDebt ==
    ASSUME SocketInv, DebtInv, Select \/ ScanEnds \/ Refuse
    PROVE  DebtInv'
<1>1. /\ UNCHANGED <<sp, sc, owed, dropped, recs, m2s, s2m, id, rip>> /\ dpc \in {"select", "scan"}
      /\ dpc' \in {"select", "scan"}
  BY DEF Select, ScanEnds, Refuse, slave, history
<1>2. PICK i \in Slaves : i = id
  BY DEF SocketInv, Types
<1>3. \A j \in Slaves : InReport(j)' <=> InReport(j)
  BY <1>1 DEF InReport
<1>4. ForClient(i)'
  BY <1>1 DEF ForClient, Waits
<1> QED BY <1>1, <1>2, <1>3, <1>4, DispatcherMovesDebt

\* The address goes to a slave that waits for it, or that is dead.
LEMMA DispatchDebt ==
    ASSUME SocketInv, CallInv, Standing, DebtInv, Dispatch, dpc' # "dead"
    PROVE  DebtInv'
<1>1. PICK i \in Slaves :
          /\ i = slave_not_busy /\ id' = i /\ Send(i, Head(tube), "wait_ok") /\ dpc = "scan"
          /\ Alive(i) => sp[i] = "idle"
  BY HandsOver DEF Standing
<1>2. /\ UNCHANGED <<sc, owed, dropped, recs>> /\ dpc' = "wait_ok"
      /\ \A j \in Slaves \ {i} : sp'[j] = sp[j] /\ m2s'[j] = m2s[j]
      /\ \/ sp[i] = "idle" /\ sp'[i] = "idle"
         \/ sp[i] = "dead" /\ sp'[i] = "reset"
  BY <1>1, SentOrLost DEF Dispatch, SocketInv, history, Alive
<1>3. \A j \in Slaves : InReport(j)' <=> InReport(j)
  BY <1>1, <1>2 DEF InReport
<1>4. ForClient(i)'
  BY <1>1, <1>2 DEF ForClient, Waits, Alive
<1>5. \A j \in Slaves : sp'[j] = sp[j] \/ (~ Alive(j) /\ ~ Alive(j)')
  BY <1>2 DEF Alive
<1> QED BY <1>1, <1>2, <1>3, <1>4, <1>5, DispatcherMovesDebt

\* A slave is read in the scan.
LEMMA ScanDebt ==
    ASSUME SocketInv, SocketInv', Standing, DebtInv, Scan, dpc' # "dead"
    PROVE  DebtInv'
<1>1. PICK i \in todo : i = CHOOSE j \in todo : \A k \in todo : j <= k
  BY FirstToScan DEF Scan, SocketInv, Types
<1>2. i \in Slaves /\ dpc = "scan" /\ id' = i /\ UNCHANGED <<sc, owed, dropped, recs>>
  BY <1>1 DEF Scan, SocketInv, Types, history
<1>3. /\ \A j \in Slaves \ {i} : sp'[j] = sp[j] /\ m2s'[j] = m2s[j]
      /\ sp'[i] = sp[i] \/ (sp[i] = "dead" /\ sp'[i] = "reset")
      /\ \/ dpc' = "scan" /\ m2s' = m2s
         \/ dpc' = "reg_ip" /\ (Alive(i) => m2s'[i] = Append(m2s[i], "OK"))
  <2>1. Send(i, "OK", "reg_ip") \/ UNCHANGED <<dpc, m2s, sp>>
    BY <1>1 DEF Scan
  <2>2. CASE UNCHANGED <<dpc, m2s, sp>>
    BY <1>2, <2>2
  <2>3. CASE Send(i, "OK", "reg_ip")
    BY <1>2, <2>3, SentOrLost DEF SocketInv, Alive
  <2> QED BY <2>1, <2>2, <2>3
<1>4. dpc' = "reg_ip" /\ Alive(i) => sp[i] = "rep1"
  <2> SUFFICES ASSUME dpc' = "reg_ip", Alive(i) PROVE sp[i] = "rep1"
    OBVIOUS
  <2>1. Reports(i, "rep1", "rep2", One(s2m[i]))'
    BY <1>2, <1>3 DEF SocketInv, AllMatched, Matched, Alive
  <2>2. m2s'[i] # <<>>
    <3>1. m2s'[i] = Append(m2s[i], "OK")
      BY <1>3
    <3>2. m2s[i] = <<>> \/ One(m2s[i]) \/ m2s[i] = <<"DEFAULT">>
      <4>1. Matched(i) /\ ~ Engaged(i)
        BY <1>2 DEF SocketInv, AllMatched, Engaged, Reg, Waits
      <4> QED BY <4>1 DEF Matched, Free, Busy
    <3>3. \A h : Append(<<h>>, "OK") # <<>>
      OBVIOUS
    <3> QED BY <3>1, <3>2, <3>3, ReadOff DEF One
  <2> QED BY <1>3, <2>1, <2>2 DEF Reports, Alive
<1>5. \A j \in Slaves : InReport(j)' <=> InReport(j)
  BY <1>2, <1>3 DEF InReport
<1>6. ForClient(i)'
  BY <1>2, <1>3, <1>4 DEF ForClient, Waits, Alive
<1>7. \A j \in Slaves : sp'[j] = sp[j] \/ (~ Alive(j) /\ ~ Alive(j)')
  BY <1>3 DEF Alive
<1>8. sp[i] = "rcv_bytes" => m2s'[i] = m2s[i]
  BY <1>3, <1>4 DEF Alive
<1> QED BY <1>2, <1>3, <1>5, <1>6, <1>7, <1>8, DispatcherMovesDebt

\* The slave the dispatcher waits for, once it can be read.
LEMMA Reading ==
    ASSUME SocketInv, CallInv, Standing, Alive(id), Readable(id), Taken(id)
    PROVE  \E i \in Slaves :
              /\ i = id /\ Matched(i) /\ Prompt(i) /\ Alive(i) /\ s2m[i] # <<>>
  BY SlaveIs DEF Standing, Readable, SocketInv, Types

\* The first two parts of a report are received.
LEMMA RegisterDebt ==
    ASSUME SocketInv, CallInv, Standing, DebtInv, Alive(id), RegIp \/ RegBytes
    PROVE  DebtInv'
<1>1. PICK i \in Slaves : i = id /\ Matched(i) /\ Alive(i) /\ s2m[i] # <<>>
  BY Reading DEF RegIp, RegBytes
<1>2. /\ id' = i /\ UNCHANGED <<sc, owed, dropped, recs>>
      /\ \/ dpc = "reg_ip" /\ rip' = Got(i, Junk) /\ Send(i, "OK", "reg_bytes")
         \/ dpc = "reg_bytes" /\ rip' = rip /\ Send(i, "OK", "reg_name")
  BY <1>1 DEF RegIp, RegBytes, history
<1>3. /\ UNCHANGED sp /\ \A j \in Slaves \ {i} : m2s'[j] = m2s[j]
      /\ \/ dpc = "reg_ip" /\ dpc' = "reg_bytes"
         \/ dpc = "reg_bytes" /\ dpc' = "reg_name"
  BY <1>1, <1>2 DEF Send, Alive, SocketInv, Types
<1>4. /\ dpc = "reg_ip" => sp[i] = "rep2"
      /\ dpc = "reg_bytes" => sp[i] = "rep3"
  BY <1>1, <1>2 DEF Matched, Reports
<1>5. rip' = sc[i]
  <2>1. dpc = "reg_ip" => s2m[i] = <<sc[i]>>
    BY <1>1, <1>4 DEF DebtInv, ForClient
  <2>2. dpc = "reg_ip" => rip' = sc[i]
    BY <1>1, <1>2, <2>1, ReadOff DEF Got
  <2>3. dpc = "reg_bytes" => rip' = sc[i]
    BY <1>1, <1>2 DEF DebtInv, ForClient
  <2> QED BY <1>2, <2>2, <2>3
<1>6. \A j \in Slaves : InReport(j)' <=> InReport(j)
  BY <1>1, <1>2, <1>3, <1>4 DEF InReport
<1>7. ForClient(i)'
  BY <1>2, <1>3, <1>5 DEF ForClient, Waits
<1> QED BY <1>2, <1>3, <1>4, <1>6, <1>7, DispatcherMovesDebt

\* The last part is received: the transfer is recorded.
LEMMA RegNameDebt ==
    ASSUME SocketInv, CallInv, Standing, DebtInv, Alive(id), RegName
    PROVE  DebtInv'
<1>1. PICK i \in Slaves : i = id /\ Matched(i) /\ Alive(i) /\ s2m[i] # <<>>
  BY Reading DEF RegName
<1>2. /\ dpc = "reg_name" /\ dpc' = "scan" /\ id' = i /\ recs' = <<rip>> \o recs
      /\ UNCHANGED <<sp, sc, owed, dropped, m2s>>
  BY <1>1 DEF RegName, slave, history
<1>3. sp[i] = "idle" /\ InReport(i) /\ sc[i] \in Clients
  BY <1>1, <1>2 DEF Matched, Reports, InReport, DebtInv, DebtTypes
<1>4. PICK c \in Clients : c = sc[i]
  BY <1>3
<1>5. recs = <<>> /\ rip = c
  BY <1>1, <1>2, <1>3, <1>4 DEF DebtInv, OneReport, ForClient
<1>6. recs' = <<c>>
  <2>1. <<c>> \o <<>> = <<c>>
    BY ConcatEmptySeq
  <2> QED BY <1>2, <1>5, <2>1
<1>7. /\ \A j \in Slaves : Resuming(j)' <=> Resuming(j)
      /\ \A j \in Slaves : InReport(j) <=> j = i
      /\ \A j \in Slaves : ~ InReport(j)'
  <2>1. \A j \in Slaves : InReport(j) <=> j = i
    BY <1>3 DEF DebtInv, OneReport
  <2> QED BY <1>1, <1>2, <1>3, <2>1 DEF Resuming, InReport
<1>8. \A d : ~ Recorded(d) /\ (Recorded(d)' <=> d = c)
  <2>1. \A d : <<c>> = <<d>> <=> d = c
    OBVIOUS
  <2> QED BY <1>5, <1>6, <2>1, ReadOff DEF Recorded
<1>9. \A d : (Resumed(d)' <=> Resumed(d)) /\ (Reported(d) <=> d = c) /\ ~ Reported(d)'
  BY <1>2, <1>4, <1>7 DEF Resumed, Reported
<1>10. DebtTypes' /\ OneReport'
  BY <1>2, <1>4, <1>7, <1>8 DEF DebtInv, DebtTypes, OneReport
<1>11. ASSUME NEW d \in Clients PROVE Ledger(d)'
  <2>1. Ledger(d) /\ owed'[d] = owed[d] /\ dropped'[d] = dropped[d]
            /\ owed[d] \in Int /\ dropped[d] \in Nat
    BY <1>2 DEF DebtInv, DebtTypes
  <2> QED BY <1>8, <1>9, <2>1 DEF Ledger, Unit
<1>12. ForClient(id)'
  BY <1>2 DEF ForClient, Waits
<1> QED BY <1>10, <1>11, <1>12 DEF DebtInv

\* The slave answers the address, and is told whether to resume.
LEMMA WaitDebt ==
    ASSUME Unharmed, SocketInv, CallInv, Standing, DebtInv, Alive(id),
           WaitOk \/ WaitOk2 \/ WaitTimeout
    PROVE  DebtInv'
<1>1. ~ WaitTimeout
  BY DEF WaitTimeout, Silent, Unharmed
<1>2. PICK i \in Slaves : i = id /\ Matched(i) /\ Prompt(i) /\ Alive(i) /\ s2m[i] # <<>>
  BY <1>1, Reading DEF WaitOk, WaitOk2
<1>3. /\ dpc \in {"wait_ok", "wait_ok2"} /\ id' = i /\ cur' = cur /\ UNCHANGED <<sc, owed, dropped, recs>>
      /\ \/ Contains(recs, cur) /\ Send(i, "CRASHED", "wait_ok2")
         \/ Send(i, "DEFAULT", "select")
         \/ dpc = "wait_ok2" /\ Send(i, "name", "wait_ok3")
         \/ dpc' = "select" /\ UNCHANGED <<m2s, sp>>
  BY <1>1, <1>2 DEF WaitOk, WaitOk2, history
<1>4. sp[i] \in {"wait_info", "rcv_name"}
  BY <1>2, <1>3 DEF Matched, Prompt, AsksClient, AsksResume, Calling, Fresh
<1>5. /\ UNCHANGED sp /\ \A j \in Slaves \ {i} : m2s'[j] = m2s[j]
      /\ \/ Contains(recs, cur) /\ dpc' = "wait_ok2"
         \/ dpc = "wait_ok2" /\ dpc' = "wait_ok3"
         \/ dpc' = "select"
  BY <1>2, <1>3 DEF Send, Alive, SocketInv, Types
<1>6. \A j \in Slaves : InReport(j)' <=> InReport(j)
  BY <1>3, <1>5 DEF InReport
<1>7. sc[i] = cur /\ (dpc = "wait_ok2" => recs = <<cur>>)
  BY <1>2, <1>3, <1>4 DEF DebtInv, ForClient, Waits
<1>8. Contains(recs, cur) => recs = <<cur>>
  <2>1. ASSUME NEW c, recs = <<c>>, Contains(recs, cur) PROVE c = cur
    BY <2>1 DEF Contains
  <2>2. ~ Contains(<<>>, cur)
    BY DEF Contains
  <2> QED BY <2>1, <2>2 DEF DebtInv, DebtTypes, Recorded
<1>9. ForClient(i)'
  BY <1>3, <1>5, <1>7, <1>8 DEF ForClient, Waits
<1> QED BY <1>3, <1>4, <1>5, <1>6, <1>9, DispatcherMovesDebt

\* The slave is told what to resume: the record is removed.
LEMMA WaitOk3Debt ==
    ASSUME SocketInv, CallInv, Standing, DebtInv, Alive(id), WaitOk3
    PROVE  DebtInv'
<1>1. PICK i \in Slaves : i = id /\ Matched(i) /\ Prompt(i) /\ Alive(i) /\ s2m[i] # <<>>
  BY Reading DEF WaitOk3
<1>2. /\ dpc = "wait_ok3" /\ id' = i /\ recs' = RemoveByIp(recs, cur) /\ UNCHANGED <<sc, owed, dropped>>
      /\ \E old : IF GotInfo(i, old) = "OK" THEN Send(i, "bytes", "select")
                  ELSE dpc' = "select" /\ UNCHANGED <<m2s, sp>>
  BY <1>1 DEF WaitOk3, history
<1>3. sp[i] = "rcv_bytes" /\ m2s[i] = <<>> /\ s2m[i] = <<"OK">>
  BY <1>1, <1>2 DEF Matched, AsksName
<1>4. Send(i, "bytes", "select")
  <2>1. \A old : GotInfo(i, old) = "OK"
    BY <1>3, ReadOff DEF GotInfo, Got, Infos
  <2> QED BY <1>2, <2>1
<1>5. /\ UNCHANGED sp /\ \A j \in Slaves \ {i} : m2s'[j] = m2s[j]
      /\ dpc' = "select" /\ m2s'[i] = Append(<<>>, "bytes")
  BY <1>1, <1>3, <1>4 DEF Send, Alive, SocketInv, Types
<1>6. recs = <<cur>> /\ sc[i] = cur
  BY <1>1, <1>2, <1>3 DEF DebtInv, ForClient, Waits
<1>7. PICK c \in Clients : c = cur
  BY <1>1, <1>3, <1>6 DEF Prompt, Answered
<1>8. recs' = <<>>
  BY <1>2, <1>6, ReadOff DEF RemoveByIp
<1>9. /\ ~ Resuming(i) /\ Resuming(i)'
      /\ \A j \in Slaves \ {i} : Resuming(j)' <=> Resuming(j)
      /\ \A j \in Slaves : InReport(j)' <=> InReport(j)
  BY <1>1, <1>2, <1>3, <1>5, ReadOff DEF Resuming, InReport
<1>10. \A d : ~ Recorded(d)' /\ (Recorded(d) <=> d = c)
  <2>1. \A d : <<c>> = <<d>> <=> d = c
    OBVIOUS
  <2> QED BY <1>6, <1>7, <1>8, <2>1, ReadOff DEF Recorded
<1>11. ~ Resumed(c) /\ Resumed(c)'
  <2>1. \A j \in Slaves \ {i} : Resuming(j) => sc[j] # c
    BY <1>3, <1>6, <1>7, OneResumes
  <2> QED BY <1>2, <1>6, <1>7, <1>9, <2>1 DEF Resumed
<1>12. \A d \in Clients \ {c} : Resumed(d)' <=> Resumed(d)
  BY <1>2, <1>6, <1>7, <1>9 DEF Resumed
<1>13. \A d : Reported(d)' <=> Reported(d)
  BY <1>2, <1>9 DEF Reported
<1>14. DebtTypes' /\ OneReport'
  BY <1>2, <1>5, <1>8, <1>9 DEF DebtInv, DebtTypes, OneReport
<1>15. ASSUME NEW d \in Clients PROVE Ledger(d)'
  <2>1. Ledger(d) /\ owed'[d] = owed[d] /\ dropped'[d] = dropped[d]
            /\ owed[d] \in Int /\ dropped[d] \in Nat
    BY <1>2 DEF DebtInv, DebtTypes
  <2>2. CASE d = c
    BY <1>10, <1>11, <1>13, <2>1, <2>2 DEF Ledger, Unit
  <2>3. CASE d # c
    BY <1>10, <1>12, <1>13, <2>1, <2>3 DEF Ledger, Unit
  <2> QED BY <2>2, <2>3
<1>16. ForClient(id)'
  BY <1>5 DEF ForClient, Waits
<1> QED BY <1>14, <1>15, <1>16 DEF DebtInv

-----------------------------------------------------------------------------
(* The invariant, and what it says of the list.                            *)

LEMMA DebtInvStep ==
    ASSUME Unharmed, MaxRecords <= 1
    PROVE  SocketInv /\ CallInv /\ Standing /\ DebtInv /\ [Next]_vars =>
              (dpc' # "dead" => DebtInv')
<1> SUFFICES ASSUME SocketInv, CallInv, Standing, DebtInv, [Next]_vars, dpc' # "dead" PROVE DebtInv'
  OBVIOUS
<1>1. CASE DispatcherStep
  <2>1. SocketInv' /\ (RegIp \/ RegBytes \/ RegName \/ WaitOk \/ WaitOk2 \/ WaitOk3 => Alive(id) \/ DebtInv')
    BY SocketInvStep, DeadReadDebt
  <2>2. ~ WaitTimeout
    BY DEF WaitTimeout, Silent, Unharmed
  <2> QED BY <1>1, <2>1, <2>2, ScanningDebt, ScanDebt, RegisterDebt, RegNameDebt, DispatchDebt,
             WaitDebt, WaitOk3Debt DEF DispatcherStep
<1>2. CASE \E s \in Slaves : \/ SlaveStep(s) \/ TransferCut(s) \/ SlaveDies(s)
                            \/ MasterGone(s)
  BY <1>2, SlaveDebt
<1>3. CASE UNCHANGED <<dpc, id, cur, rip, recs, sp, sc, m2s, s2m, owed, dropped>>
  <2>1. PICK s \in Slaves : s = id
    BY DEF SocketInv, Types
  <2>2. Alone(s)
    BY <1>3 DEF Alone
  <2>3. SameDebt(s)
    BY <1>3 DEF SameDebt, Resuming, InReport, DebtInv, DebtTypes
  <2>4. ForClient(s)'
    BY <1>3, <2>1 DEF ForClient, DebtInv, Alive
  <2> QED BY <1>3, <2>2, <2>3, <2>4, SlaveMovesDebt
<1>4. CASE \E c \in Clients : \/ Dial(c) \/ Listen(c) \/ HangUp(c) \/ Abandoned(c)
                             \/ ClientVanishes(c) \/ ClientKilled(c)
  BY <1>3, <1>4 DEF Dial, Listen, HangUp, Abandoned, ClientVanishes, ClientKilled, Unharmed, master,
     slave, history
<1>5. CASE UNCHANGED vars
  BY <1>3, <1>5 DEF vars, master, slave, history
<1> QED BY <1>1, <1>2, <1>4, <1>5 DEF Next

\* The list has one place: the records of a client are one or none.
LEMMA RecordsCounted ==
    ASSUME DebtTypes, NEW c \in Clients
    PROVE  Records(c) = Unit(Recorded(c))
<1>1. CASE recs = <<>>
  <2>1. {k \in 1 .. Len(recs) : recs[k] = c} = {} /\ ~ Recorded(c)
    BY <1>1, ReadOff DEF Recorded
  <2> QED BY <2>1, FS_EmptySet DEF Records, Unit
<1>2. ASSUME NEW d \in Clients, recs = <<d>> PROVE Records(c) = Unit(Recorded(c))
  <2>1. CASE d = c
    <3>1. {k \in 1 .. Len(recs) : recs[k] = c} = {1} /\ Recorded(c)
      BY <1>2, <2>1 DEF Recorded
    <3> QED BY <3>1, FS_Singleton DEF Records, Unit
  <2>2. CASE d # c
    <3>1. {k \in 1 .. Len(recs) : recs[k] = c} = {}
      BY <1>2, <2>2
    <3>2. ~ Recorded(c)
      BY <1>2, <2>2 DEF Recorded
    <3> QED BY <3>1, <3>2, FS_EmptySet DEF Records, Unit
  <2> QED BY <2>1, <2>2
<1> QED BY <1>1, <1>2 DEF DebtTypes, Recorded

LEMMA DebtInvRecords ==
    ASSUME DebtInv
    PROVE  RecordedIsOwed
<1> SUFFICES ASSUME NEW c \in Clients PROVE Records(c) <= owed[c]
  BY DEF RecordedIsOwed
<1>1. Records(c) = Unit(Recorded(c)) /\ Ledger(c) /\ owed[c] \in Int /\ dropped[c] \in Nat
  BY RecordsCounted DEF DebtInv, DebtTypes
<1> QED BY <1>1 DEF Ledger, Unit

LEMMA DebtInvOwed ==
    ASSUME SocketInv, CallInv, Standing, DebtInv
    PROVE  OwedIsRecorded
<1> SUFFICES ASSUME dpc = "select", \A s \in Slaves : s2m[s] = <<>> /\ m2s[s] = <<>>,
                    NEW c \in Clients
             PROVE  owed[c] = Records(c)
                                + Cardinality({s \in Slaves : sc[s] = c /\ sp[s] = "resume"})
                                + dropped[c]
  BY DEF OwedIsRecorded, Quiescent, BeingResumed
<1> DEFINE Resumers == {s \in Slaves : sc[s] = c /\ sp[s] = "resume"}
<1>1. \A s \in Slaves : (Resuming(s) <=> sp[s] = "resume") /\ ~ InReport(s)
  <2> SUFFICES ASSUME NEW s \in Slaves PROVE sp[s] \notin {"rep1", "rep2", "rep3"}
    BY DEF Resuming, InReport
  <2>1. Alive(s) => Matched(s) /\ ~ Engaged(s) /\ s2m[s] = <<>>
    BY SlaveIs DEF Standing, Engaged, Reg, Waits
  <2> QED BY <2>1, ReadOff DEF Matched, Free, Busy, Alive
<1>2. ~ Reported(c)
  BY <1>1 DEF Reported
<1>3. Cardinality(Resumers) = Unit(Resumed(c))
  <2>1. CASE Resumers = {}
    <3>1. ~ Resumed(c)
      BY <1>1, <2>1 DEF Resumed
    <3> HIDE DEF Resumers
    <3> QED BY <2>1, <3>1, FS_EmptySet DEF Unit
  <2>2. ASSUME NEW s \in Resumers PROVE Cardinality(Resumers) = Unit(Resumed(c))
    <3>1. Resumers = {s} /\ Resumed(c)
      BY <1>1, OneResumes DEF Resumed
    <3> HIDE DEF Resumers
    <3> QED BY <3>1, FS_Singleton DEF Unit
  <2> QED BY <2>1, <2>2
<1>4. Records(c) = Unit(Recorded(c)) /\ Ledger(c) /\ owed[c] \in Int /\ dropped[c] \in Nat
  BY RecordsCounted DEF DebtInv, DebtTypes
<1> HIDE DEF Resumers
<1>5. owed[c] = Records(c) + Cardinality(Resumers) + dropped[c]
  BY <1>2, <1>3, <1>4 DEF Ledger, Unit
<1> QED BY <1>5 DEF Resumers

\* As long as the dispatcher lives, every transfer is accounted for.
DebtSound == SocketInv /\ CallInv /\ (dpc # "dead" => Standing /\ DebtInv)

LEMMA DebtSoundAlways ==
    ASSUME Unharmed, MaxRecords <= 1
    PROVE  Spec => []DebtSound
<1>1. Init => DebtSound
  BY SocketInvInit, CallInvInit, StandingInit, DebtInvInit DEF DebtSound
<1>2. Punctual
  BY DEF Unharmed, Punctual
<1>3. DebtSound /\ [Next]_vars => DebtSound'
  <2> SUFFICES ASSUME DebtSound, [Next]_vars PROVE DebtSound'
    OBVIOUS
  <2>1. SocketInv' /\ CallInv'
    BY <1>2, SocketInvStep, CallInvStep DEF DebtSound
  <2>2. dpc = "dead" => dpc' = "dead"
    BY DeadStays
  <2> QED BY <2>1, <2>2, StandingStep, DebtInvStep DEF DebtSound
<1> QED BY <1>1, <1>3, PTL DEF Spec

\* When the only thing that goes wrong is that clients vanish in their sessions,
\* and at most one transfer at a time is reported or recorded, a recorded
\* transfer was cut and not resumed to its end: nobody is asked to resume a
\* download that is complete (slave.c:90, client.c:71).
THEOREM RecordsAreOwed ==
    ASSUME Unharmed, MaxRecords <= 1
    PROVE  Spec => []RecordedIsOwed
<1>1. DebtSound => RecordedIsOwed
  BY DebtInvRecords DEF DebtSound, RecordedIsOwed
<1> QED BY <1>1, DebtSoundAlways, PTL

\* In the same circumstances no record is lost but those that a resume took with
\* it (slave.c:570, client.c:417): when no message is on its way, a transfer that
\* was cut is in the list, or it is being resumed, or its resume has failed.
THEOREM CutIsRecorded ==
    ASSUME Unharmed, MaxRecords <= 1
    PROVE  Spec => []OwedIsRecorded
<1>1. DebtSound => OwedIsRecorded
  BY DebtInvOwed DEF DebtSound, OwedIsRecorded, Quiescent
<1> QED BY <1>1, DebtSoundAlways, PTL
============================================================================
