----------------------------- MODULE FtpMaster -----------------------------
(***************************************************************************)
(* The dispatching of clients to slaves in SR/projet_ftp: the two          *)
(* processes of master.c (the acceptor and the dispatcher, joined by a     *)
(* pipe), the main loop of each slave.c outside the commands themselves,   *)
(* and the connection phase of each client.c.                              *)
(*                                                                         *)
(* The code between two blocking calls is one action: the dispatcher       *)
(* blocks in select and in each attente_reponse, a slave in its reads of   *)
(* the master's socket, in the connection to its client and in its         *)
(* session.  A message is what one write() puts in a socket.  A client is  *)
(* a host, known by its IP address.                                        *)
(*                                                                         *)
(* A timeout expires only when the answer cannot come in time: the peer is *)
(* dead, does not read its socket, or waits itself for somebody silent.    *)
(***************************************************************************)
EXTENDS Integers, Sequences, FiniteSets

CONSTANTS
    NbEsclave,   \* NB_ESCLAVE
    Clients,     \* IP addresses of the clients
    Faults,      \* what may go wrong, a subset of AllFaults
    MaxRecords,  \* bound: transfers recorded, or being reported, at a time
    MaxOwed      \* bound: transfers of one client cut and not yet resumed

AllFaults ==
    { "session",  \* a client vanishes during its session
      "kill",     \* a client is killed, its kernel closes the connection
      "resume",   \* a client vanishes while its transfer is resumed
      "dial",     \* a client does not listen yet, or no more, when called
      "die" }     \* a slave process is killed

None == "none"   \* in a buffer no address has been copied to

ASSUME MasterAssumption ==
    /\ NbEsclave \in Nat \ {0}
    /\ IsFiniteSet(Clients) /\ None \notin Clients
    /\ Faults \subseteq AllFaults
    /\ MaxRecords \in Nat /\ MaxOwed \in Nat

Slaves == 0 .. NbEsclave - 1
Junk == "junk"
NoSlave == -1

\* The integers of define.h, by their names.
Infos == {"FINISHED", "CRASHED", "DURING", "DEFAULT", "OK"}

VARIABLES
    dpc,    \* where the dispatcher blocks
    todo,   \* slaves select() found readable and the scan has not reached
    tubeRdy,\* select() found the pipe readable
    info,   \* main's info, which keeps its value when a read returns nothing
    id,     \* the slave of the current exchange
    cur,    \* main's client_ip_string
    rip,    \* register_crash_transfert's ip_client_crashed
    busy,   \* busy[]
    recs,   \* unfinished_transfert: the addresses recorded, newest first
    tube,   \* the pipe from the acceptor
    acc,    \* the acceptor: "up" or "dead"
    m2s,    \* bytes written by the dispatcher and not read by the slave
    s2m,    \* bytes written by the slave and not read by the dispatcher
    sp,     \* where each slave blocks
    sc,     \* client_ip_string of each slave
    late,   \* envoi_info_crash_to_client is on the stack: main sets connected
            \* to 1 when it returns, whatever happened
    lost,   \* the client was connected to the slave and vanished
    cs,     \* state of each client
    conn,   \* the slave a client's open connection leads to
    owed,   \* history: transfers of the client cut and not resumed to the end
    dropped,\* history: those of them whose record was removed by a resume that
            \* failed
    untold  \* history: the last session of the slave ended without a report

master == <<dpc, todo, tubeRdy, info, id, cur, rip, busy, recs>>
slave == <<sp, sc, late, lost>>
client == <<cs, conn>>
history == <<owed, dropped, untold>>
vars == <<master, tube, acc, m2s, s2m, slave, client, history>>

\* Where they block: the dispatcher in "select", "scan", "reg_ip", "reg_bytes",
\* "reg_name", "wait_ok", "wait_ok2" or "wait_ok3", or "dead"; a slave in "idle",
\* "connect", "wait_info", "rcv_name", "rcv_bytes", "resume", "session", "rep1",
\* "rep2", "rep3" or "spin", or "dead" or "reset".  A client is "out", "dialed",
\* "listening", "accepted" or "served".

\* The slaves are connected, nothing is recorded (master.c:56-81).
Init ==
    /\ dpc = "select" /\ todo = {} /\ tubeRdy = FALSE
    /\ info \in Infos \cup {Junk}   \* never initialised
    /\ id = 0 /\ cur = None /\ rip = None
    /\ busy = [i \in Slaves |-> 0]
    /\ recs = <<>> /\ tube = <<>> /\ acc = "up"
    /\ m2s = [i \in Slaves |-> <<>>] /\ s2m = [i \in Slaves |-> <<>>]
    /\ sp = [i \in Slaves |-> "idle"]
    /\ sc = [i \in Slaves |-> None]
    /\ late = [i \in Slaves |-> FALSE]
    /\ lost = [i \in Slaves |-> FALSE]
    /\ cs = [c \in Clients |-> "out"]
    /\ conn = [c \in Clients |-> NoSlave]
    /\ owed = [c \in Clients |-> 0]
    /\ dropped = [c \in Clients |-> 0]
    /\ untold = [i \in Slaves |-> FALSE]

-----------------------------------------------------------------------------
(* A definition named Mut_... is the operator after it with a bug such     *)
(* code could have; no specification uses it, and the run of the property  *)
(* it breaks is repeated with it.                                          *)
(*                                                                         *)
(* Sockets.  A write to a slave that has closed its end is lost the first  *)
(* time and raises SIGPIPE, which nothing handles, after that; a read from *)
(* it returns what is left and then 0, leaving the variable as it was.     *)

Alive(i) == sp[i] \notin {"dead", "reset"}

\* The dispatcher writes m to slave i and goes on at next.
Send(i, m, next) ==
    \/ /\ Alive(i)
       /\ m2s' = [m2s EXCEPT ![i] = Append(@, m)]
       /\ dpc' = next
       /\ UNCHANGED sp
    \/ /\ sp[i] = "dead"
       /\ sp' = [sp EXCEPT ![i] = "reset"]
       /\ dpc' = next
       /\ UNCHANGED m2s
    \/ /\ sp[i] = "reset"
       /\ dpc' = "dead"
       /\ UNCHANGED <<m2s, sp>>

Readable(i) == s2m[i] # <<>> \/ ~Alive(i)

\* What a read of slave i leaves in a variable that held old.
Got(i, old) == IF s2m[i] = <<>> THEN old ELSE Head(s2m[i])

\* The same for an integer: the bytes of anything else are some integer.
GotInfo(i, old) == IF Got(i, old) \in Infos THEN Got(i, old) ELSE Junk

Taken(i) == s2m' = [s2m EXCEPT ![i] = IF @ = <<>> THEN @ ELSE Tail(@)]

\* A slave writes these messages, if the dispatcher still reads them.
Tell(i, msgs) == s2m' = [s2m EXCEPT ![i] = @ \o msgs]

-----------------------------------------------------------------------------
(* The acceptor and the clients' connection phase.                         *)

\* Bound on the addresses in the pipe.
TubeBound == Cardinality(Clients)

\* A client connects to the master; the acceptor passes its address on.  The
\* acceptor dies of SIGPIPE when the dispatcher is dead.
Dial(c) ==
    /\ cs[c] = "out" /\ acc = "up" /\ Len(tube) < TubeBound
    /\ IF dpc = "dead"
       THEN /\ acc' = "dead"
            /\ UNCHANGED <<tube, cs>>
       ELSE /\ tube' = Append(tube, c)
            /\ cs' = [cs EXCEPT ![c] = "dialed"]
            /\ UNCHANGED acc
    /\ UNCHANGED <<master, m2s, s2m, slave, conn, history>>

\* Open_listenfd(SLAVE_TO_CLIENT), after the connection to the master.
Listen(c) ==
    /\ cs[c] = "dialed"
    /\ cs' = [cs EXCEPT ![c] = "listening"]
    /\ UNCHANGED <<master, tube, acc, m2s, s2m, slave, conn, history>>

\* Nobody is going to call this client: its address was refused.
Forgotten(c) ==
    /\ cs[c] = "listening"
    /\ ~\E k \in 1 .. Len(tube) : tube[k] = c
    /\ ~(dpc = "wait_ok" /\ cur = c)
    /\ \A s \in Slaves : ~(sp[s] = "connect" /\ sc[s] = c)

\* The user interrupts a client that is waiting for a slave.
HangUp(c) ==
    /\ "dial" \in Faults \/ Forgotten(c)
    /\ cs[c] \in {"dialed", "listening"}
    /\ cs' = [cs EXCEPT ![c] = "out"]
    /\ UNCHANGED <<master, tube, acc, m2s, s2m, slave, conn, history>>

\* The client finds its connection closed, or silent at its first read.
Abandoned(c) ==
    /\ cs[c] \in {"accepted", "served"} /\ conn[c] = NoSlave
    /\ cs' = [cs EXCEPT ![c] = "out"]
    /\ UNCHANGED <<master, tube, acc, m2s, s2m, slave, conn, history>>

\* The slave s still has its client at the other end of its connection.
Linked(s) == sc[s] # None /\ conn[sc[s]] = s

\* The connection of s is closed by the slave.
Unlinked(s) ==
    conn' = [c \in Clients |-> IF conn[c] = s THEN NoSlave ELSE conn[c]]

-----------------------------------------------------------------------------
(* The dispatcher.                                                         *)

\* slave_not_busy(): -1, or the first slave that is not busy.
slave_not_busy ==
    IF \A i \in Slaves : busy[i] = 1 THEN -1
    ELSE CHOOSE i \in Slaves : /\ busy[i] = 0
                               /\ \A j \in 0 .. i - 1 : busy[j] = 1

\* contain()
Contains(list, c) == \E k \in 1 .. Len(list) : list[k] = c

Mut_RecordKept(list, c) == list

\* remove_by_ip when the match is the head of the list, and when there is none.
\* The bound MaxRecords keeps its other cases away: they are StockIp's.
RemoveByIp(list, c) == IF list # <<>> /\ Head(list) = c THEN Tail(list) ELSE list

Select ==
    /\ dpc = "select"
    /\ tube # <<>> \/ \E i \in Slaves : Readable(i)
    /\ todo' = {i \in Slaves : Readable(i)}
    /\ tubeRdy' = (tube # <<>>)
    /\ dpc' = "scan"
    /\ UNCHANGED <<info, id, cur, rip, busy, recs, tube, acc, m2s, s2m, slave,
                   client, history>>

Mut_CrashIgnored == {"FINISHED", "DURING"}
Mut_AnyAnswerReleases == Infos

\* The messages that release a slave.
Releases == {"FINISHED", "CRASHED", "DURING"}

\* One readable slave is read: it released its client, or it reports a
\* transfer that was cut, which the dispatcher receives before going on.
Scan ==
    /\ dpc = "scan" /\ todo # {}
    /\ LET i == CHOOSE j \in todo : \A k \in todo : j <= k
           got == GotInfo(i, info)
       IN  /\ Taken(i)
           /\ todo' = todo \ {i}
           /\ id' = i
           /\ busy' = IF got \in Releases
                      THEN [busy EXCEPT ![i] = 0] ELSE busy
           /\ IF got = "DURING"
              THEN /\ info' = "OK"
                   /\ Send(i, "OK", "reg_ip")
              ELSE /\ info' = got
                   /\ UNCHANGED <<dpc, m2s, sp>>
    /\ UNCHANGED <<tubeRdy, cur, rip, recs, tube, acc, sc, late, lost, client, history>>

\* register_crash_transfert, one wait after the other.
RegIp ==
    /\ dpc = "reg_ip" /\ Readable(id)
    /\ rip' = Got(id, Junk) /\ Taken(id)
    /\ Send(id, "OK", "reg_bytes")
    /\ UNCHANGED <<todo, tubeRdy, info, id, cur, busy, recs, tube, acc, sc,
                   late, lost, client, history>>

RegBytes ==
    /\ dpc = "reg_bytes" /\ Readable(id)
    /\ Taken(id)
    /\ Send(id, "OK", "reg_name")
    /\ UNCHANGED <<todo, tubeRdy, info, id, cur, rip, busy, recs, tube, acc, sc,
                   late, lost, client, history>>

RegName ==
    /\ dpc = "reg_name" /\ Readable(id)
    /\ Taken(id)
    /\ recs' = <<rip>> \o recs
    /\ dpc' = "scan"
    /\ UNCHANGED <<todo, tubeRdy, info, id, cur, rip, busy, tube, acc, m2s,
                   slave, client, history>>

\* Every readable slave has been read and the pipe was not readable.
ScanEnds ==
    /\ dpc = "scan" /\ todo = {} /\ ~tubeRdy
    /\ dpc' = "select"
    /\ UNCHANGED <<todo, tubeRdy, info, id, cur, rip, busy, recs, tube, acc, m2s,
                   s2m, slave, client, history>>

\* The next address of the pipe goes to the first slave that is not busy.
Dispatch ==
    /\ dpc = "scan" /\ todo = {} /\ tubeRdy
    /\ slave_not_busy >= 0
    /\ cur' = Head(tube) /\ tube' = Tail(tube)
    /\ id' = slave_not_busy
    /\ busy' = [busy EXCEPT ![slave_not_busy] = 1]
    /\ Send(slave_not_busy, Head(tube), "wait_ok")
    /\ UNCHANGED <<todo, tubeRdy, info, rip, recs, acc, s2m, sc, late, lost, client,
                   history>>

\* "All slaves are busy": the address is forgotten, the client not told.
Refuse ==
    /\ dpc = "scan" /\ todo = {} /\ tubeRdy
    /\ slave_not_busy = -1
    /\ cur' = Head(tube) /\ tube' = Tail(tube)
    /\ dpc' = "select"
    /\ UNCHANGED <<todo, tubeRdy, info, id, rip, busy, recs, acc, m2s, s2m,
                   slave, client, history>>

\* The slave has answered the address: it is told whether to resume.
WaitOk ==
    /\ dpc = "wait_ok" /\ Readable(id)
    /\ info' = GotInfo(id, info) /\ Taken(id)
    /\ CASE info' = "OK" /\ Contains(recs, cur) -> Send(id, "CRASHED", "wait_ok2")
         [] info' = "OK" /\ ~Contains(recs, cur) -> Send(id, "DEFAULT", "select")
         [] OTHER -> dpc' = "select" /\ UNCHANGED <<m2s, sp>>
    /\ UNCHANGED <<todo, tubeRdy, id, cur, rip, busy, recs, tube, acc, sc, late,
                   lost, client, history>>

\* The slave is ready for the name of the file (envoi_info_crash).
WaitOk2 ==
    /\ dpc = "wait_ok2" /\ Readable(id)
    /\ info' = GotInfo(id, info) /\ Taken(id)
    /\ IF info' = "OK"
       THEN Send(id, "name", "wait_ok3")
       ELSE dpc' = "select" /\ UNCHANGED <<m2s, sp>>
    /\ UNCHANGED <<todo, tubeRdy, id, cur, rip, busy, recs, tube, acc, sc, late,
                   lost, client, history>>

\* envoi_info_crash ends, well or not (its info is never initialised), and
\* main removes the record in any case.
WaitOk3 ==
    /\ dpc = "wait_ok3" /\ Readable(id)
    /\ Taken(id)
    /\ \E old \in {"OK", Junk} :
          IF GotInfo(id, old) = "OK"
          THEN Send(id, "bytes", "select")
          ELSE dpc' = "select" /\ UNCHANGED <<m2s, sp>>
    /\ recs' = RemoveByIp(recs, cur)
    /\ UNCHANGED <<todo, tubeRdy, info, id, cur, rip, busy, tube, acc, sc, late,
                   lost, client, history>>

\* The slave blocks in something that lasts longer than SHORT_TIMEOUT: the
\* connection to a client that does not answer.
Silent(i) ==
    /\ "dial" \in Faults
    /\ sp[i] = "connect" /\ cs[sc[i]] \in {"out", "dialed"}
    /\ s2m[i] = <<>>

\* SHORT_TIMEOUT in the dispatcher.  The slave stays busy.
WaitTimeout ==
    /\ dpc = "wait_ok" /\ Silent(id)
    /\ dpc' = "select"
    /\ UNCHANGED <<todo, tubeRdy, info, id, cur, rip, busy, recs, tube, acc, m2s,
                   s2m, slave, client, history>>

-----------------------------------------------------------------------------
(* The slaves.                                                             *)

\* The process ends: its sockets are closed, with a reset when the dispatcher's
\* messages rest were not read.
Exit(s, rest) ==
    /\ sp' = [sp EXCEPT ![s] = IF rest = <<>> THEN "dead" ELSE "reset"]
    /\ m2s' = [m2s EXCEPT ![s] = <<>>]
    /\ Unlinked(s)

\* The next message of the dispatcher is m.
Hears(s, m) == m2s[s] # <<>> /\ Head(m2s[s]) = m

Consumed(s) == m2s' = [m2s EXCEPT ![s] = Tail(@)]

At(s, place) == sp' = [sp EXCEPT ![s] = place]

\* The idle slave reads the address of its next client.
SlaveReadsIp(s) ==
    /\ sp[s] = "idle" /\ m2s[s] # <<>>
    /\ sc' = [sc EXCEPT ![s] = Head(m2s[s])]
    /\ Consumed(s) /\ At(s, "connect")
    /\ late' = [late EXCEPT ![s] = FALSE]
    /\ lost' = [lost EXCEPT ![s] = FALSE]
    /\ untold' = [untold EXCEPT ![s] = FALSE]
    /\ UNCHANGED <<master, tube, acc, s2m, client, owed, dropped>>

\* The client's kernel accepts the connection as long as its listening socket
\* is open, which the client never closes; its process accepts one only.
SlaveConnects(s) ==
    /\ sp[s] = "connect"
    /\ LET c == sc[s]
       IN  /\ cs[c] \in {"listening", "accepted", "served"}
           /\ IF cs[c] = "listening"
              THEN /\ cs' = [cs EXCEPT ![c] = "accepted"]
                   /\ conn' = [conn EXCEPT ![c] = s]
              ELSE UNCHANGED client
    /\ Tell(s, <<"OK">>) /\ At(s, "wait_info")
    /\ UNCHANGED <<master, tube, acc, m2s, sc, late, lost, history>>

\* Nobody listens: unix_error exits.
SlaveRefused(s) ==
    /\ sp[s] = "connect"
    /\ cs[sc[s]] \in {"out", "dialed"}
    /\ "dial" \in Faults
    /\ Exit(s, m2s[s])
    /\ UNCHANGED <<master, tube, acc, s2m, sc, late, lost, cs, history>>

\* No transfer to resume: the client is told so and the session begins.
SlaveDefault(s) ==
    /\ sp[s] = "wait_info" /\ Hears(s, "DEFAULT")
    /\ Consumed(s) /\ Tell(s, <<"OK">>) /\ At(s, "session")
    /\ cs' = IF Linked(s) THEN [cs EXCEPT ![sc[s]] = "served"] ELSE cs
    /\ UNCHANGED <<master, tube, acc, sc, late, lost, conn, history>>

\* A transfer to resume: the slave gets ready for its name ...
SlaveCrashed(s) ==
    /\ sp[s] = "wait_info" /\ Hears(s, "CRASHED")
    /\ Consumed(s) /\ Tell(s, <<"OK">>) /\ At(s, "rcv_name")
    /\ UNCHANGED <<master, tube, acc, sc, late, lost, client, history>>

Mut_NameNotAnswered(s) ==
    /\ sp[s] = "rcv_name" /\ m2s[s] # <<>>
    /\ Consumed(s) /\ At(s, "rcv_bytes")
    /\ UNCHANGED <<master, tube, acc, s2m, sc, late, lost, client, history>>

\* ... and its offset (reception_info_crash_from_master) ...
SlaveName(s) ==
    /\ sp[s] = "rcv_name" /\ m2s[s] # <<>>
    /\ Consumed(s) /\ Tell(s, <<"OK">>) /\ At(s, "rcv_bytes")
    /\ UNCHANGED <<master, tube, acc, sc, late, lost, client, history>>

\* ... and turns to the client.
SlaveBytes(s) ==
    /\ sp[s] = "rcv_bytes" /\ m2s[s] # <<>>
    /\ Consumed(s) /\ At(s, "resume")
    /\ late' = [late EXCEPT ![s] = TRUE]
    /\ UNCHANGED <<master, tube, acc, s2m, sc, lost, client, history>>

\* The dispatcher has given this slave up: back to idle, clientfd left open.
SlaveInfoTimeout(s) ==
    /\ sp[s] = "wait_info" /\ m2s[s] = <<>>
    /\ ~(dpc = "wait_ok" /\ id = s)
    /\ At(s, "idle") /\ Unlinked(s)
    /\ UNCHANGED <<master, tube, acc, m2s, s2m, sc, late, lost, cs, history>>

\* The rest of the file is transferred and the session begins.
ResumeDone(s) ==
    /\ sp[s] = "resume" /\ Linked(s)
    /\ At(s, "session")
    /\ late' = [late EXCEPT ![s] = FALSE]
    /\ cs' = [cs EXCEPT ![sc[s]] = "served"]
    /\ owed' = [owed EXCEPT ![sc[s]] = @ - 1]
    /\ UNCHANGED <<master, tube, acc, m2s, s2m, sc, lost, conn, dropped, untold>>

\* The resume of s does not take place, and the dispatcher has removed its
\* record already.
Dropped(s) ==
    /\ dropped' = [dropped EXCEPT ![sc[s]] = @ + 1]
    /\ UNCHANGED <<owed, untold>>

\* The slave cannot open the file any more, tells nobody and waits for a command
\* of a client that waits for the size and exits (client.c:427); or the client
\* cannot open its copy and exits.  The slave reads end of file for ever then,
\* or dies of SIGPIPE in the transfer it has begun.
ResumeBroken(s) ==
    /\ sp[s] = "resume" /\ Linked(s)
    /\ At(s, "spin") \/ At(s, "dead")
    /\ cs' = [cs EXCEPT ![sc[s]] = "out"]
    /\ Unlinked(s) /\ Dropped(s)
    /\ UNCHANGED <<master, tube, acc, m2s, s2m, sc, late, lost>>

\* The client does not answer the handshake of the resume: the slave reports
\* it, closes clientfd and returns to main, which sets connected to 1; select
\* fails on the closed clientfd, and the slave reports it once more.  It comes
\* to the second report only if it cannot open the file when the client has
\* vanished: it leaves the handshake and waits for a command in vain.
ResumeFails(s) ==
    /\ sp[s] = "resume" /\ ~Linked(s)
    /\ Tell(s, <<"CRASHED", "CRASHED">>) \/ Tell(s, <<"CRASHED">>)
    /\ At(s, "idle") /\ Dropped(s)
    /\ UNCHANGED <<master, tube, acc, m2s, sc, late, lost, client>>

\* Bounds: room for one more record, reports under way counted, and for one
\* more transfer of this client that is cut and not resumed.
RecordRoom(s) ==
    /\ owed[sc[s]] < MaxOwed
    /\ Len(recs) + Cardinality({t \in Slaves : sp[t] \in {"rep1", "rep2", "rep3"}})
                 + (IF dpc \in {"reg_ip", "reg_bytes", "reg_name"} THEN 1 ELSE 0)
         < MaxRecords

Mut_CutNotReported(s) ==
    /\ sp[s] \in {"resume", "session"} /\ lost[s] /\ RecordRoom(s)
    /\ Tell(s, <<"CRASHED">>) /\ At(s, "idle")
    /\ owed' = IF sp[s] = "session" THEN [owed EXCEPT ![sc[s]] = @ + 1] ELSE owed
    /\ UNCHANGED <<master, tube, acc, m2s, sc, late, lost, client,
                   dropped, untold>>

\* A transfer, resumed or not, is cut by a client that vanished.
TransferCut(s) ==
    /\ sp[s] \in {"resume", "session"} /\ lost[s] /\ RecordRoom(s)
    /\ Tell(s, <<"DURING">>) /\ At(s, "rep1")
    /\ owed' = IF sp[s] = "session" THEN [owed EXCEPT ![sc[s]] = @ + 1] ELSE owed
    /\ UNCHANGED <<master, tube, acc, m2s, sc, late, lost, client,
                   dropped, untold>>

\* sent_crash_to_master, one wait after the other.
ReportIp(s) ==
    /\ sp[s] = "rep1" /\ Hears(s, "OK")
    /\ Consumed(s) /\ Tell(s, <<sc[s]>>) /\ At(s, "rep2")
    /\ UNCHANGED <<master, tube, acc, sc, late, lost, client, history>>

ReportBytes(s) ==
    /\ sp[s] = "rep2" /\ Hears(s, "OK")
    /\ Consumed(s) /\ Tell(s, <<"bytes">>) /\ At(s, "rep3")
    /\ UNCHANGED <<master, tube, acc, sc, late, lost, client, history>>

Mut_ReportsTwice(s) == <<"name", "CRASHED">>

\* The report ends with the name; main finds clientfd closed if it was a
\* resumed transfer, and reports that too.
EndOfReport(s) == IF late[s] THEN <<"name", "CRASHED">> ELSE <<"name">>

ReportName(s) ==
    /\ sp[s] = "rep3" /\ Hears(s, "OK")
    /\ Consumed(s) /\ At(s, "idle")
    /\ Tell(s, EndOfReport(s))
    /\ UNCHANGED <<master, tube, acc, sc, late, lost, client, history>>

\* No answer within SHORT_TIMEOUT, because the dispatcher is dead or waits as
\* long for another slave; or an answer that is not OK: exit(0).
ReportFails(s) ==
    /\ sp[s] \in {"rep1", "rep2", "rep3"}
    /\ \/ m2s[s] # <<>> /\ ~Hears(s, "OK")
       \/ /\ m2s[s] = <<>>
          /\ dpc = "dead" \/ (dpc = "wait_ok" /\ id # s /\ Silent(id))
    /\ Exit(s, m2s[s])
    /\ UNCHANGED <<master, tube, acc, s2m, sc, late, lost, cs, history>>

\* EXIT.
SessionExit(s) ==
    /\ sp[s] = "session" /\ Linked(s) /\ cs[sc[s]] = "served"
    /\ Tell(s, <<"FINISHED">>) /\ At(s, "idle")
    /\ cs' = [cs EXCEPT ![sc[s]] = "out"]
    /\ Unlinked(s)
    /\ UNCHANGED <<master, tube, acc, m2s, sc, late, lost, history>>

Mut_TimeoutNotTold(s) ==
    /\ sp[s] = "session"
    /\ At(s, "idle")
    /\ Unlinked(s)
    /\ UNCHANGED <<master, tube, acc, m2s, s2m, sc, late, lost, cs, history>>

\* No command within LONG_TIMEOUT, or no answer within SHORT_TIMEOUT to a
\* command before its transfer: every one of these is told.
SessionTimeout(s) ==
    /\ sp[s] = "session"
    /\ Tell(s, <<"CRASHED">>) /\ At(s, "idle")
    /\ Unlinked(s)
    /\ UNCHANGED <<master, tube, acc, m2s, sc, late, lost, cs, history>>

\* The client cannot create its copy of a download (client.c:154): the slave
\* closes the connection and tells nothing.
SessionRefused(s) ==
    /\ sp[s] = "session" /\ Linked(s) /\ cs[sc[s]] = "served"
    /\ At(s, "idle") /\ Unlinked(s)
    /\ untold' = [untold EXCEPT ![s] = TRUE]
    /\ UNCHANGED <<master, tube, acc, m2s, s2m, sc, late, lost, cs, owed, dropped>>

\* An upload is cut by a client that vanished (reception_fichier): exit(0).
UploadCut(s) ==
    /\ sp[s] = "session" /\ lost[s]
    /\ Exit(s, m2s[s])
    /\ UNCHANGED <<master, tube, acc, s2m, sc, late, lost, cs, history>>

\* The client's host vanishes.
ClientVanishes(c) ==
    /\ conn[c] # NoSlave
    /\ \/ "session" \in Faults /\ cs[c] = "served"
       \/ "resume" \in Faults /\ cs[c] = "accepted"
    /\ cs' = [cs EXCEPT ![c] = "out"]
    /\ conn' = [conn EXCEPT ![c] = NoSlave]
    /\ lost' = [lost EXCEPT ![conn[c]] = TRUE]
    /\ UNCHANGED <<master, tube, acc, m2s, s2m, sp, sc, late, history>>

\* The client is killed in its session: the slave reads end of file for ever
\* in its command loop, or dies of SIGPIPE in a transfer.  A read that returns
\* nothing may also leave an info that is not OK: at the start of a download the
\* slave closes the connection and tells nothing, in a resume it closes it and
\* select fails on it.
ClientKilled(c) ==
    /\ "kill" \in Faults
    /\ conn[c] # NoSlave
    /\ LET s == conn[c]
       IN  /\ \/ /\ sp[s] = "session" /\ cs[c] = "served"
                 /\ \/ (At(s, "spin") \/ At(s, "dead")) /\ UNCHANGED untold
                    \/ At(s, "idle") /\ untold' = [untold EXCEPT ![s] = TRUE]
                 /\ UNCHANGED <<s2m, owed, dropped>>
              \/ /\ sp[s] = "resume" /\ Dropped(s)
                 /\ \/ (At(s, "spin") \/ At(s, "dead")) /\ UNCHANGED s2m
                    \/ At(s, "idle") /\ Tell(s, <<"CRASHED">>)
    /\ cs' = [cs EXCEPT ![c] = "out"]
    /\ conn' = [conn EXCEPT ![c] = NoSlave]
    /\ UNCHANGED <<master, tube, acc, m2s, sc, late, lost>>

\* A slave process is killed.
SlaveDies(s) ==
    /\ "die" \in Faults /\ Alive(s)
    /\ Exit(s, m2s[s])
    /\ UNCHANGED <<master, tube, acc, s2m, sc, late, lost, cs, history>>

\* Both processes of the master are dead: read returns 0, the slave calls its
\* last client, or nobody, and its answer raises SIGPIPE.
MasterGone(s) ==
    /\ sp[s] = "idle" /\ m2s[s] = <<>> /\ dpc = "dead" /\ acc = "dead"
    /\ Exit(s, <<>>)
    /\ UNCHANGED <<master, tube, acc, s2m, sc, late, lost, cs, history>>

-----------------------------------------------------------------------------
DispatcherStep ==
    \/ Select \/ Scan \/ RegIp \/ RegBytes \/ RegName
    \/ ScanEnds \/ Dispatch \/ Refuse
    \/ WaitOk \/ WaitOk2 \/ WaitOk3 \/ WaitTimeout

SlaveStep(s) ==
    \/ SlaveReadsIp(s) \/ SlaveConnects(s) \/ SlaveRefused(s)
    \/ SlaveDefault(s) \/ SlaveCrashed(s) \/ SlaveName(s) \/ SlaveBytes(s)
    \/ SlaveInfoTimeout(s)
    \/ ResumeDone(s) \/ ResumeBroken(s) \/ ResumeFails(s)
    \/ ReportIp(s) \/ ReportBytes(s) \/ ReportName(s) \/ ReportFails(s)
    \/ SessionExit(s) \/ SessionTimeout(s) \/ SessionRefused(s) \/ UploadCut(s)

Next ==
    \/ DispatcherStep
    \/ \E s \in Slaves : SlaveStep(s) \/ TransferCut(s) \/ SlaveDies(s)
                         \/ MasterGone(s)
    \/ \E c \in Clients : \/ Dial(c) \/ Listen(c) \/ HangUp(c) \/ Abandoned(c)
                          \/ ClientVanishes(c) \/ ClientKilled(c)

\* Every process runs until it blocks; a select returns after its timeout; a
\* user either types the next command or leaves.
Fairness ==
    /\ WF_vars(DispatcherStep)
    /\ \A s \in Slaves : WF_vars(SlaveStep(s))
    /\ \A c \in Clients : WF_vars(Listen(c))

Spec == Init /\ [][Next]_vars

FairSpec == Spec /\ Fairness

-----------------------------------------------------------------------------
\* A client is handed to a slave that is waiting for one, and no message of
\* its former session is still to be read: the dispatcher would take it for
\* the answer (master.c:130-141).  Only a slave whose process has ended may be
\* handed one besides, when the end of file on its socket is read as the release
\* it never sent (master.c:103).
HandsToIdleSlave ==
    [][(dpc = "scan" /\ dpc' = "wait_ok" /\ Alive(id')) =>
          /\ sp[id'] = "idle"
          /\ m2s[id'] = <<>> /\ s2m[id'] = <<>>]_vars

\* Reports of the end of a session that the dispatcher has still to read.
ReportOnItsWay(i) ==
    \E k \in 1 .. Len(s2m[i]) : s2m[i][k] \in {"FINISHED", "CRASHED", "DURING"}

\* busy[i] is 1 only while slave i has a client or its release is on the way:
\* "renvoie -1 si tous les esclaves sont occupes" (master.c:20-22).  The code
\* keeps this but for the session it ends without a report (slave.c:331).
BusySlaveHasClient ==
    dpc = "select" =>
        \A i \in Slaves :
            (busy[i] = 1 /\ Alive(i) /\ ~untold[i]) =>
                sp[i] # "idle" \/ m2s[i] # <<>> \/ ReportOnItsWay(i)

\* busy[i] is 0 only when slave i has no client and will not be given one: the
\* next client can be handed to it (master.c:276-283).
FreeSlaveHasNoClient ==
    dpc = "select" =>
        \A i \in Slaves :
            (busy[i] = 0 /\ Alive(i)) => sp[i] = "idle" /\ m2s[i] = <<>>

\* The dispatcher always comes back to select: whatever it waits for (master.c:
\* 138, 146, 214, 243-254) is sent by a slave that does not wait for it, and no
\* SHORT_TIMEOUT has to expire as long as clients answer when they are called.
DispatcherReturns == (dpc # "select") ~> (dpc \in {"select", "dead"})

\* The ways of a session to end without a report: the client could not create its
\* copy (slave.c:331), an upload was cut (slave.c:652), a resume was broken.
Stranded(i) == untold[i] \/ ~Alive(i) \/ sp[i] = "spin"

\* A busy slave is free again some day (master.c:104-111), whatever comes between
\* its report and the dispatcher: only a session that ends without a report, or
\* the death of the dispatcher, keeps it busy.
SlaveFreed ==
    \A i \in Slaves : (busy[i] = 1) ~> (busy[i] = 0 \/ Stranded(i) \/ dpc = "dead")

Records(c) == Cardinality({k \in 1 .. Len(recs) : recs[k] = c})

\* What is recorded was cut and not resumed: a client is not asked to resume a
\* download that it has completed (slave.c:90, client.c:71).
RecordedIsOwed == dpc # "dead" => \A c \in Clients : Records(c) <= owed[c]

Quiescent == dpc = "select" /\ \A s \in Slaves : s2m[s] = <<>> /\ m2s[s] = <<>>

BeingResumed(c) == Cardinality({s \in Slaves : sc[s] = c /\ sp[s] = "resume"})

\* What was cut is recorded, once no message is on its way, or being resumed: the
\* client will resume (slave.c:90, client.c:71).  The code keeps this but for the
\* record that it removes (master.c:150) for a resume that fails then.
OwedIsRecorded ==
    Quiescent =>
        \A c \in Clients : owed[c] = Records(c) + BeingResumed(c) + dropped[c]
=============================================================================
