---------------------------- MODULE FtpTransfer ----------------------------
(***************************************************************************)
(* The data phase of a download in SR/projet_ftp: slave.c                  *)
(* envoi_fichier_au_client against client.c reception_fichier, for one     *)
(* client, one file and every session the client opens to get it: the GET, *)
(* the crash, the offset the slave reports to the master, the resume.      *)
(*                                                                         *)
(* The code between two blocking calls (select, read on a socket) is one   *)
(* action.  The server file is the sequence of its offsets 0..Size-1, so a *)
(* byte is identified with the offset it was read at; disk says which byte *)
(* the client's copy holds at each position.  The commands that precede    *)
(* the data phase are left to the session; the report to the master is one *)
(* step here.                                                              *)
(***************************************************************************)
EXTENDS Integers

CONSTANTS
    Size,       \* nb_octets: length of the file on the server
    MaxLine,    \* MAXLINE: what one read() of the file or of a socket returns
    Fragment,   \* TRUE when the client's read() may return part of a chunk
    Faults      \* what may go wrong, a subset of AllFaults

AllFaults ==
    { "slow",      \* a live peer takes more than SHORT_TIMEOUT to answer
      "vanish",    \* the client's host disappears, nothing is sent any more
      "kill",      \* the client process ends, its kernel closes the socket
      "noreport" } \* the master does not answer the crash report

ASSUME SizesAssumption == Size \in Nat \ {0} /\ MaxLine \in Nat \ {0}
ASSUME FragmentAssumption == Fragment \in BOOLEAN
ASSUME FaultsAssumption == Faults \subseteq AllFaults

NoRec == -1
Unwritten == -1

VARIABLES
    spc,    \* where the slave is
    nb,     \* the slave's nb: offset of the next byte it reads from its file
    wire,   \* bytes sent by the slave and not read by the client
    acks,   \* OK integers sent by the client and not read by the slave
    exits,  \* EXIT integers that follow them: 0 or 1
    link,   \* the client's connection as the slave's kernel sees it
    cpc,    \* where the client is
    cnb,    \* the client's nb: its offset in its own copy
    disk,   \* the client's copy: the byte held at each position
    rec     \* the master's record of an unfinished transfer, or NoRec

vars == <<spc, nb, wire, acks, exits, link, cpc, cnb, disk, rec>>

Offsets == 0 .. Size - 1
Least(a, b) == IF a < b THEN a ELSE b

SlavePlaces == {"idle", "session", "loop", "await", "spin", "dead"}
ClientPlaces == {"out", "prompt", "recv"}
\* none: the slave has no open socket; fin and rst: the client closed its end;
\* gone: the client's host stopped answering.
Links == {"none", "open", "fin", "rst", "gone"}

TypeOK ==
    /\ spc \in SlavePlaces
    /\ nb \in 0 .. Size
    /\ wire \in 0 .. Size
    /\ acks \in Nat
    /\ exits \in {0, 1}
    /\ link \in Links
    /\ cpc \in ClientPlaces
    /\ cnb \in 0 .. Size
    /\ disk \in [Offsets -> Offsets \cup {Unwritten}]
    /\ rec \in Offsets \cup {NoRec}

Init ==
    /\ spc = "idle"
    /\ nb = 0
    /\ wire = 0
    /\ acks = 0
    /\ exits = 0
    /\ link = "none"
    /\ cpc = "out"
    /\ cnb = 0
    /\ disk = [p \in Offsets |-> Unwritten]
    /\ rec = NoRec

\* When another program runs: no slave to download from.
TransferIdle ==
    /\ spc = "dead"
    /\ nb = 0 /\ wire = 0 /\ acks = 0 /\ exits = 0
    /\ link = "none" /\ cpc = "out" /\ cnb = 0
    /\ disk = [p \in Offsets |-> Unwritten]
    /\ rec = NoRec

-----------------------------------------------------------------------------
(* What the two sides compute.  A definition named Mut_... is the operator *)
(* after it with a bug such code could have; no specification uses it, and *)
(* the run of the property it breaks is repeated with it.                  *)

\* The bytes one read() of the server's file returns from offset nb.
Mut_ChunkIgnoresEof(from) == MaxLine
Chunk(from) == Least(MaxLine, Size - from)

\* The offset reported when the chunk that ends at nb is not acknowledged.
Mut_ReportsOffsetSent(upto) == upto
ReportedOffset(upto) == upto - MaxLine

\* Where the slave's file stands when it serves from offset nb (lseek).
Mut_NoSeek(from) == 0
Seek(from) == from

-----------------------------------------------------------------------------
(* Opening a session: the master has handed the client to this idle slave. *)

\* No record for this client: both sides reach their command loops.
Connect ==
    /\ spc = "idle" /\ cpc = "out" /\ rec = NoRec
    /\ spc' = "session" /\ cpc' = "prompt" /\ link' = "open"
    /\ wire' = 0 /\ acks' = 0 /\ exits' = 0
    /\ UNCHANGED <<nb, cnb, disk, rec>>

\* The master takes its record off the list while it gives it to the slave,
\* and both sides seek to the recorded offset.
Resume ==
    /\ spc = "idle" /\ cpc = "out" /\ rec # NoRec
    /\ spc' = "loop" /\ cpc' = "recv" /\ link' = "open"
    /\ nb' = Seek(rec) /\ cnb' = rec
    /\ rec' = NoRec
    /\ wire' = 0 /\ acks' = 0 /\ exits' = 0
    /\ UNCHANGED disk

\* The handshake that precedes the resume fails after the master has taken
\* its record off the list: nothing is transferred and the record is lost.
ResumeAborted ==
    /\ spc = "idle" /\ cpc = "out" /\ rec # NoRec
    /\ Faults # {}
    /\ rec' = NoRec
    /\ UNCHANGED <<spc, nb, wire, acks, exits, link, cpc, cnb, disk>>

\* GET: the client opens its copy without O_TRUNC and both sides start at 0.
GetFile ==
    /\ spc = "session" /\ cpc = "prompt" /\ link = "open"
    /\ acks = 0 /\ exits = 0
    /\ spc' = "loop" /\ cpc' = "recv"
    /\ nb' = 0 /\ cnb' = 0
    /\ UNCHANGED <<wire, acks, exits, link, disk, rec>>

-----------------------------------------------------------------------------
(* The slave: envoi_fichier_au_client and the session loop around it.      *)

Closed == link \in {"fin", "rst"}
Readable == acks > 0 \/ exits > 0 \/ Closed

\* One chunk is read and written.  The kernel drops what is written to a peer
\* that has closed, answers it with a reset, and kills a slave that writes
\* after the reset (no handler for SIGPIPE).
SlaveSend ==
    /\ spc = "loop" /\ nb < Size
    /\ \/ /\ link # "rst"
          /\ nb' = nb + Chunk(nb)
          /\ wire' = IF link = "open" THEN wire + Chunk(nb) ELSE wire
          /\ spc' = "await"
          /\ link' \in (IF link = "fin" THEN {"fin", "rst"} ELSE {link})
       \/ /\ link = "rst"
          /\ spc' = "dead" /\ link' = "none"
          /\ UNCHANGED <<nb, wire>>
    /\ UNCHANGED <<acks, exits, cpc, cnb, disk, rec>>

\* select() returned: an integer is read, whichever it is; at end of file the
\* read returns 0 and the loop goes on all the same.
SlaveAck ==
    /\ spc = "await" /\ Readable
    /\ \/ /\ acks > 0
          /\ acks' = acks - 1 /\ UNCHANGED exits
       \/ /\ acks = 0
          /\ exits' = 0 /\ UNCHANGED acks
    /\ spc' = "loop"
    /\ UNCHANGED <<nb, wire, link, cpc, cnb, disk, rec>>

Mut_NoTimeout == FALSE /\ UNCHANGED vars

Mut_TimeoutCountsAsEnd ==
    /\ spc = "await" /\ ~Readable
    /\ link = "gone" \/ "slow" \in Faults
    /\ spc' = "loop" /\ nb' = Size
    /\ UNCHANGED <<wire, acks, exits, link, cpc, cnb, disk, rec>>

\* SHORT_TIMEOUT without an answer: the offset of the last chunk is reported,
\* unless that would be a negative one, and the session is closed.
SlaveTimeout ==
    /\ spc = "await" /\ ~Readable
    /\ link = "gone" \/ "slow" \in Faults
    /\ \/ /\ spc' = "idle"
          /\ rec' = IF ReportedOffset(nb) < 0 THEN rec ELSE ReportedOffset(nb)
       \/ /\ "noreport" \in Faults /\ ReportedOffset(nb) >= 0
          /\ spc' = "dead"
          /\ UNCHANGED rec
    /\ link' = "none"
    /\ UNCHANGED <<nb, wire, acks, exits, cpc, cnb, disk>>

\* The loop condition is false: the transfer is announced as done.
SlaveFinish ==
    /\ spc = "loop" /\ nb >= Size
    /\ spc' = "session"
    /\ UNCHANGED <<nb, wire, acks, exits, link, cpc, cnb, disk, rec>>

Mut_EndsOnExitOnly ==
    /\ spc = "session" /\ acks = 0
    /\ exits > 0
    /\ spc' = "idle" /\ link' = "none" /\ exits' = 0
    /\ UNCHANGED <<nb, wire, acks, cpc, cnb, disk, rec>>

\* EXIT, or LONG_TIMEOUT without a command.
SlaveEndSession ==
    /\ spc = "session" /\ acks = 0
    /\ exits > 0 \/ ~Closed
    /\ spc' = "idle" /\ link' = "none" /\ exits' = 0
    /\ UNCHANGED <<nb, wire, acks, cpc, cnb, disk, rec>>

\* End of file in the session loop: read returns 0, n > 0 is false, and the
\* loop starts again at once, for ever.
SlaveSpin ==
    /\ spc = "session" /\ acks = 0 /\ exits = 0 /\ Closed
    /\ spc' = "spin"
    /\ UNCHANGED <<nb, wire, acks, exits, link, cpc, cnb, disk, rec>>

-----------------------------------------------------------------------------
(* The client: reception_fichier and the prompt around it.                 *)

\* The client's process ends after it sent n EXIT integers.  Its kernel resets
\* the connection when bytes were still on their way, and closes it otherwise.
Leave(n) ==
    /\ cpc' = "out"
    /\ exits' = IF link = "open" THEN n ELSE exits
    /\ link' \in CASE link = "open" /\ wire > 0 -> {"fin", "rst"}
                   [] link = "open" /\ wire = 0 -> {"fin"}
                   [] OTHER -> {link}
    /\ wire' = 0
    /\ UNCHANGED <<spc, nb, acks, cnb, disk, rec>>

\* One read() of the socket, written at the client's offset and acknowledged.
ClientRead ==
    /\ cpc = "recv" /\ cnb < Size /\ wire > 0
    /\ \E n \in 1 .. Least(wire, MaxLine) :
          /\ Fragment \/ n = Least(wire, MaxLine)
          /\ cnb' = cnb + n
          /\ disk' = [p \in Offsets |->
                        IF p \in cnb .. cnb + n - 1
                        THEN p - cnb + (nb - wire) ELSE disk[p]]
          /\ wire' = wire - n
    /\ acks' = IF link = "open" THEN acks + 1 ELSE acks
    /\ UNCHANGED <<spc, nb, exits, link, cpc, rec>>

Mut_AcksTheEnd ==
    /\ cpc = "recv" /\ cnb >= Size
    /\ cpc' = "prompt"
    /\ acks' = acks + 1
    /\ UNCHANGED <<spc, nb, wire, exits, link, cnb, disk, rec>>

\* The loop condition is false: the client announces success and prompts.
ClientDone ==
    /\ cpc = "recv" /\ cnb >= Size
    /\ cpc' = "prompt"
    /\ UNCHANGED <<spc, nb, wire, acks, exits, link, cnb, disk, rec>>

Mut_EofIgnored == FALSE /\ UNCHANGED vars

\* The slave closed its end: the client's OK is answered by a reset and the
\* next one kills it.
ClientEof ==
    /\ cpc = "recv" /\ cnb < Size /\ link = "none"
    /\ Leave(0)

\* SHORT_TIMEOUT without a byte: exit(0).
ClientTimeout ==
    /\ "slow" \in Faults
    /\ cpc = "recv" /\ cnb < Size /\ wire = 0 /\ link # "none"
    /\ Leave(0)

\* The exit command at the prompt.
ClientQuit ==
    /\ cpc = "prompt"
    /\ Leave(1)

\* Ctrl-C: handler_kill sends EXIT and exits; or any other end of the process.
ClientKilled ==
    /\ "kill" \in Faults /\ cpc # "out"
    /\ \E n \in {0, 1} : Leave(n)

\* The client's host vanishes: what is on its way may or may not arrive.
ClientVanish ==
    /\ "vanish" \in Faults /\ cpc # "out"
    /\ cpc' = "out"
    /\ link' = IF link = "open" THEN "gone" ELSE link
    /\ acks' \in {0, acks}
    /\ wire' = 0
    /\ UNCHANGED <<spc, nb, exits, cnb, disk, rec>>

-----------------------------------------------------------------------------
SlaveTransferStep == SlaveSend \/ SlaveAck \/ SlaveTimeout \/ SlaveFinish

SlaveStep == SlaveTransferStep \/ SlaveEndSession \/ SlaveSpin

ClientTransferStep == ClientRead \/ ClientDone \/ ClientEof \/ ClientTimeout

Next ==
    \/ Connect \/ Resume \/ ResumeAborted \/ GetFile
    \/ SlaveSend \/ SlaveAck \/ SlaveTimeout \/ SlaveFinish
    \/ SlaveEndSession \/ SlaveSpin
    \/ ClientRead \/ ClientDone \/ ClientEof \/ ClientTimeout
    \/ ClientQuit \/ ClientKilled \/ ClientVanish

\* Each process runs until it blocks, and select() returns after its timeout.
Fairness == WF_vars(SlaveTransferStep) /\ WF_vars(SlaveEndSession)
            /\ WF_vars(ClientTransferStep)

Spec == Init /\ [][Next]_vars

FairSpec == Spec /\ Fairness

-----------------------------------------------------------------------------
Holds(n) == \A p \in 0 .. n - 1 : disk[p] = p

\* A recorded offset never lies beyond what the client has on its disk: the
\* slave reports nb-MAXLINE (slave.c:473) and the resume starts there, so a
\* hole before it would never be filled.
ResumeOffsetSafe == rec # NoRec => Holds(rec)

\* When the client's loop ends and it prints "Transfert successfully done"
\* (client.c:364) its copy is the server's file, whatever crashes and resumes
\* came before.
FileIntegrity == (cpc = "recv" /\ cnb >= Size) => Holds(Size)

\* No OK is left over once both sides are back in their command loops, where
\* the slave would take it for a command: OK and GET are both 1 (define.h,
\* parse.h).
NoStrayAck == (spc = "session" /\ cpc = "prompt") => acks = 0

\* The slave announces a successful transfer (slave.c:482) only to a client
\* that has the whole file, or has closed its end: the end of file is read as
\* an acknowledgement (slave.c:455).
SuccessMeansDelivered ==
    [][(spc = "loop" /\ spc' = "session") => Holds(Size) \/ Closed]_vars

\* A slave never stays in a transfer: it completes, it gives up or it dies,
\* whatever the client does (the SHORT_TIMEOUT of slave.c:454).
TransferEnds == (spc \in {"loop", "await"}) ~> (spc \notin {"loop", "await"})

\* A client never stays in a transfer either (client.c:345-358).
ReceptionEnds == (cpc = "recv") ~> (cpc # "recv")

\* A slave whose client vanished without a FIN comes out of its session some
\* day, so that the master can hand it another one (slave.c:364-368, 454-478).
SlaveReleased == (link = "gone") ~> (spc \in {"idle", "dead"})
=============================================================================
