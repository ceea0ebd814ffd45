----------------------------- MODULE FtpSession -----------------------------
(***************************************************************************)
(* One session of SR/projet_ftp: the command loop of client.c against the  *)
(* command loop of slave.c, over one connection.                           *)
(*                                                                         *)
(* The two sockets carry bytes and nothing else: a command, an answer OK   *)
(* and a size are four bytes each, an argument and a listing are as many   *)
(* as they have, and a read() takes what it finds.  A message here is what *)
(* one write() put there, with what its writer meant (kind); a reader of   *)
(* an integer takes the first message whatever it is, and a read(MAXLINE)  *)
(* takes several messages at once if they are there.  The code between two *)
(* blocking calls is one action.                                           *)
(*                                                                         *)
(* Commands that never reach the slave (HOST, an unknown command, a        *)
(* missing argument) leave the client at its prompt and are left out, as   *)
(* are peers that are slow: they are FtpTransfer's.                        *)
(***************************************************************************)
EXTENDS Integers, Sequences, SequencesExt

CONSTANTS
    Commands,   \* what the user types, a subset of the commands of parse.h
    MaxCmds,    \* bound: commands in a session
    Sizes,      \* sizes of the files that are transferred
    MaxLine,    \* MAXLINE
    Faults      \* the unusual things that may happen, a subset of AllFaults

AllFaults ==
    { "empty",      \* an empty file is transferred, an empty directory listed
      "unwritable", \* the client cannot create its copy of a file
      "typeahead",  \* a command is sent while bytes of the former are unread
      "afterput",   \* the user goes on after an upload
      "interrupt" } \* Ctrl-C in the client during a command

TextCommands == {"LS", "PWD"}
NameCommands == {"MKDIR", "CD", "RM", "RMR"}
ArgCommands == NameCommands \cup {"GET", "PUT"}
AllCommands == TextCommands \cup ArgCommands \cup {"EXIT"}

ASSUME SessionAssumption ==
    /\ Commands \subseteq AllCommands
    /\ MaxCmds \in Nat /\ MaxLine \in Nat \ {0}
    /\ Sizes \subseteq Nat \ {0}
    /\ Faults \subseteq AllFaults

NoFile == -1
Garbled == 0
OK == 1
ERROR_OPEN == 2
\* The command codes of parse.h.  GET is OK, and EXIT is four null bytes.
Code(c) == CASE c = "EXIT" -> 0 [] c = "GET" -> 1 [] c = "LS" -> 3
             [] c = "PWD" -> 4 [] c = "CD" -> 6 [] c = "RM" -> 7
             [] c = "MKDIR" -> 8 [] c = "PUT" -> 9 [] c = "RMR" -> 10

VARIABLES
    cpc,    \* where the client blocks
    typed,  \* commands typed so far, each with the size of the file it names
    cleft,  \* bytes the client still has to receive, or to send
    copy,   \* what the client wrote in its copy in the last download
    put,    \* the client has announced an upload as done
    spc,    \* where the slave blocks
    scmd,   \* the slave's int_cmd
    sfile,  \* the command whose argument the slave read last
    sleft,  \* bytes the slave still has to send, or to receive
    scopy,  \* what the slave wrote in its file in the last upload
    done,   \* history: what the slave executed, with its argument
    told,   \* history: reports of the session's end to the master
    c2s,    \* bytes from the client to the slave
    s2c,    \* bytes from the slave to the client
    link,   \* the connection
    met     \* history: the unusual things that happened

client == <<cpc, typed, cleft, copy, put>>
slave == <<spc, scmd, sfile, sleft, scopy, done, told>>
vars == <<client, slave, c2s, s2c, link, met>>

-----------------------------------------------------------------------------
(* Messages.  A definition named Mut_... is the operator after it with a   *)
(* bug such code could have; no specification uses it, and the run of the  *)
(* property it breaks is repeated with it.                                 *)

Msg(kind, val, len) == [kind |-> kind, val |-> val, len |-> len]
Cmd(c) == Msg("cmd", Code(c), 4)
Info(v) == Msg("info", v, 4)
Size(n) == Msg("size", n, 4)
Arg(k) == Msg("arg", k, 3)
Text == Msg("text", 0, 3)

\* The chunk at offset o of a file of n bytes that the k-th command names.
Data(k, n, o) ==
    Msg("data", <<k, o>>, IF n - o < MaxLine THEN n - o ELSE MaxLine)

\* The file itself, chunk by chunk.
Chunks(k, n) == [i \in 1 .. (n + MaxLine - 1) \div MaxLine |->
                    Data(k, n, MaxLine * (i - 1))]

Bytes(s) == FoldSeq(LAMBDA m, sum : m.len + sum, 0, s)

\* How many of the messages of s one read(MAXLINE) may take: whole ones only.
ReadSome(s) == {n \in 1 .. Len(s) : n = 1 \/ Bytes(SubSeq(s, 1, n)) <= MaxLine}
After(s, n) == SubSeq(s, n + 1, Len(s))

\* The integer a reader finds: four bytes of text are no code and no answer.
Junk == 99
IntOf(s) == IF Head(s).kind \in {"cmd", "info", "size"} THEN Head(s).val ELSE Junk

Mut_NameNotTerminated(s) ==
    IF Head(s).kind = "arg" /\ sfile = Garbled THEN Head(s).val ELSE Garbled

\* The name a reader finds: null bytes end it, so an EXIT behind it is unseen.
NameOf(s) ==
    IF Head(s).kind = "arg" /\ \A i \in 2 .. Len(s) : s[i] = Cmd("EXIT")
    THEN Head(s).val ELSE Garbled

\* The client blocks in "prompt", "text", "ok", "size", "recv", "putok", "putgo"
\* or "sent", or is "out"; the slave in "cmd", "arg", "getok", "getack",
\* "putsize", "putdata", "idle" or "spin", or is "dead".  The link is "open";
\* "fin" or "rst": the client closed its end, and has answered a write with a
\* reset; "closed" or "broken": the same of the slave.

\* The handshake is over, both sides are in their command loops.
Init ==
    /\ cpc = "prompt" /\ typed = <<>> /\ cleft = 0 /\ copy = <<>> /\ put = FALSE
    /\ spc = "cmd" /\ scmd = "EXIT" /\ sfile = Garbled /\ sleft = 0
    /\ scopy = <<>> /\ done = <<>> /\ told = 0
    /\ c2s = <<>> /\ s2c = <<>> /\ link = "open"
    /\ met = {}

-----------------------------------------------------------------------------
(* Sockets.  The first write to a peer that has closed is lost and may be  *)
(* answered by a reset; a write after it raises SIGPIPE, which kills.      *)

ClientWrites(msgs, next) ==
    /\ c2s' = IF link = "open" THEN c2s \o msgs ELSE c2s
    /\ cpc' = IF link = "broken" THEN "out" ELSE next
    /\ link' \in CASE link = "open" /\ next # "out" -> {"open"}
                   [] link = "open" /\ next = "out" ->
                        IF s2c = <<>> THEN {"fin"} ELSE {"fin", "rst"}
                   [] link = "closed" -> {"closed", "broken"}
                   [] OTHER -> {link}

SlaveWrites(msgs, next) ==
    /\ s2c' = IF link = "open" THEN s2c \o msgs ELSE s2c
    /\ spc' = IF link = "rst" /\ msgs # <<>> THEN "dead" ELSE next
    /\ link' \in IF link = "fin" /\ msgs # <<>> THEN {"fin", "rst"} ELSE {link}

Mut_ReportForgotten(n, next) ==
    /\ spc' = next
    /\ link' = IF link = "open" THEN "closed" ELSE link
    /\ UNCHANGED <<told, s2c>>

\* The slave closes the connection, having told the master n times.
SlaveEnds(n, next) ==
    /\ spc' = next /\ told' = told + n
    /\ link' = IF link = "open" THEN "closed" ELSE link
    /\ UNCHANGED s2c

-----------------------------------------------------------------------------
(* The client.                                                             *)

Here == Len(typed)

\* The user waits for the prompt, and longer than the slave needs to read an
\* argument or the last chunk of an upload.
Hurried == \E i \in 1 .. Len(c2s) : c2s[i].kind \in {"arg", "data"}

SizesNamed(c) ==
    IF c \in {"GET", "PUT"}
    THEN Sizes \cup {NoFile} \cup {n \in {0} : "empty" \in Faults}
    ELSE {NoFile}

Type(c, n) ==
    /\ cpc = "prompt" /\ Here < MaxCmds
    /\ n \in SizesNamed(c)
    /\ LET odd == (IF Hurried THEN {"typeahead"} ELSE {})
                  \cup (IF put /\ c # "EXIT" THEN {"afterput"} ELSE {})
                  \cup (IF n = 0 THEN {"empty"} ELSE {})
       IN  odd \subseteq Faults /\ met' = met \cup odd
    /\ typed' = Append(typed, [cmd |-> c, size |-> n])
    /\ ClientWrites(<<Cmd(c)>>, CASE c = "EXIT" -> "out"
                                  [] c \in TextCommands -> "text"
                                  [] OTHER -> "ok")
    /\ UNCHANGED <<cleft, copy, put, slave, s2c>>

\* LS, PWD: what one read returns is printed.
ClientText ==
    /\ cpc = "text" /\ s2c # <<>>
    /\ \E n \in ReadSome(s2c) : s2c' = After(s2c, n)
    /\ cpc' = "prompt"
    /\ UNCHANGED <<typed, cleft, copy, put, slave, c2s, link, met>>

\* The slave's answer to the command: the argument follows.
ClientOk ==
    /\ cpc = "ok" /\ s2c # <<>>
    /\ s2c' = Tail(s2c)
    /\ IF IntOf(s2c) = OK
       THEN ClientWrites(<<Arg(Here)>>, CASE typed[Here].cmd = "GET" -> "size"
                                          [] typed[Here].cmd = "PUT" -> "putok"
                                          [] OTHER -> "prompt")
       ELSE cpc' = "prompt" /\ UNCHANGED <<c2s, link>>
    /\ UNCHANGED <<typed, cleft, copy, put, slave, met>>

\* GET: the size, and the copy is opened.
ClientSize ==
    /\ cpc = "size" /\ s2c # <<>>
    /\ s2c' = Tail(s2c)
    /\ \/ /\ IntOf(s2c) > 0
          /\ ClientWrites(<<Info(OK)>>, "recv")
          /\ copy' = <<>> /\ cleft' = IntOf(s2c)
          /\ UNCHANGED met
       \/ /\ IntOf(s2c) > 0 /\ "unwritable" \in Faults
          /\ ClientWrites(<<Info(ERROR_OPEN)>>, "prompt")
          /\ met' = met \cup {"unwritable"}
          /\ UNCHANGED <<copy, cleft>>
       \/ /\ IntOf(s2c) <= 0
          /\ cpc' = "prompt"
          /\ UNCHANGED <<c2s, link, copy, cleft, met>>
    /\ UNCHANGED <<typed, put, slave>>

Mut_LastChunkUnread(left) == left <= MaxLine

Mut_ReadsOnce(left) == TRUE

\* The condition that ends the loop of either reception_fichier.
Complete(left) == left <= 0

\* reception_fichier: one read, written and acknowledged.
ClientRecv ==
    /\ cpc = "recv" /\ s2c # <<>>
    /\ \E n \in ReadSome(s2c) :
          /\ s2c' = After(s2c, n)
          /\ copy' = copy \o SubSeq(s2c, 1, n)
          /\ cleft' = cleft - Bytes(SubSeq(s2c, 1, n))
    /\ ClientWrites(<<Info(OK)>>, IF Complete(cleft') THEN "prompt" ELSE "recv")
    /\ UNCHANGED <<typed, put, slave, met>>

\* PUT: the slave has opened its file, or could not.
ClientPutOk ==
    /\ cpc = "putok" /\ s2c # <<>>
    /\ s2c' = Tail(s2c)
    /\ IF IntOf(s2c) = OK
       THEN ClientWrites(<<Size(typed[Here].size)>>,
                         IF typed[Here].size = NoFile THEN "prompt" ELSE "putgo")
       ELSE cpc' = "prompt" /\ UNCHANGED <<c2s, link>>
    /\ UNCHANGED <<typed, cleft, copy, put, slave, met>>

\* One turn of the loop of envoi_fichier_a_esclave with left bytes to send.
ClientSends(left) ==
    IF left > 0
    THEN LET m == Data(Here, typed[Here].size, typed[Here].size - left)
         IN  /\ ClientWrites(<<m>>, "sent")
             /\ cleft' = left - m.len
             /\ UNCHANGED put
    ELSE /\ cpc' = "prompt" /\ put' = TRUE
         /\ UNCHANGED <<c2s, link, cleft>>

ClientPutGo ==
    /\ cpc = "putgo" /\ s2c # <<>>
    /\ s2c' = Tail(s2c)
    /\ IF IntOf(s2c) = OK
       THEN ClientSends(typed[Here].size)
       ELSE ClientWrites(<<>>, "out") /\ UNCHANGED <<cleft, put>>
    /\ UNCHANGED <<typed, copy, slave, met>>

\* Any integer is taken for the acknowledgement of the chunk.
ClientPutAck ==
    /\ cpc = "sent" /\ s2c # <<>>
    /\ s2c' = Tail(s2c)
    /\ ClientSends(cleft)
    /\ UNCHANGED <<typed, copy, slave, met>>

\* select() of the client returns 0: nothing to read, and nothing under way.
attente_reponse_expires == link = "open" /\ s2c = <<>> /\ c2s = <<>>

\* SHORT_TIMEOUT: both sides wait.  "Slave has crashed", exit(0).
ClientTimeout ==
    /\ cpc \notin {"prompt", "text", "out"} /\ attente_reponse_expires
    /\ ClientWrites(<<>>, "out")
    /\ UNCHANGED <<typed, cleft, copy, put, slave, s2c, met>>

\* The slave closed the connection: read returns 0, the variable keeps what it
\* held, and the client comes back to its prompt or its next write kills it.
ClientEof ==
    /\ cpc \notin {"prompt", "out"} /\ s2c = <<>>
    /\ link \in {"closed", "broken"}
    /\ cpc' \in IF cpc = "text" THEN {"prompt"} ELSE {"prompt", "out"}
    /\ UNCHANGED <<typed, cleft, copy, put, slave, c2s, s2c, link, met>>

\* handler_kill.
ClientInterrupt ==
    /\ "interrupt" \in Faults /\ cpc \notin {"prompt", "out"}
    /\ ClientWrites(<<Cmd("EXIT")>>, "out")
    /\ met' = met \cup {"interrupt"}
    /\ UNCHANGED <<typed, cleft, copy, put, slave, s2c>>

-----------------------------------------------------------------------------
(* The slave.                                                              *)

\* read(clientfd, &int_cmd): the command is told from its code only.
SlaveCommand ==
    /\ spc = "cmd" /\ c2s # <<>>
    /\ c2s' = Tail(c2s)
    /\ \/ \E c \in ArgCommands :
             /\ IntOf(c2s) = Code(c)
             /\ scmd' = c
             /\ SlaveWrites(<<Info(OK)>>, "arg")
             /\ UNCHANGED <<done, told, met>>
       \/ \E c \in TextCommands :
             /\ IntOf(c2s) = Code(c)
             /\ scmd' = c
             /\ done' = Append(done, [cmd |-> c, arg |-> Garbled])
             /\ \/ SlaveWrites(<<Text>>, "cmd") /\ UNCHANGED met
                \/ /\ c = "LS" /\ "empty" \in Faults
                   /\ SlaveWrites(<<>>, "cmd")
                   /\ met' = met \cup {"empty"}
             /\ UNCHANGED told
       \/ /\ IntOf(c2s) = Code("EXIT")
          /\ scmd' = "EXIT"
          /\ SlaveEnds(1, "idle")
          /\ UNCHANGED <<done, met>>
       \/ /\ \A c \in AllCommands : IntOf(c2s) # Code(c)
          /\ UNCHANGED <<scmd, spc, s2c, link, done, told, met>>
    /\ UNCHANGED <<client, sfile, sleft, scopy>>

\* The size of the file of this name on the server.
SizeOnServer(k) == IF k # Garbled /\ typed[k].cmd = "GET" THEN typed[k].size ELSE NoFile

Mut_NameAnsweredToo(k) ==
    CASE scmd \in NameCommands -> SlaveWrites(<<Info(OK)>>, "cmd")
      [] scmd = "GET" -> SlaveWrites(<<Size(SizeOnServer(k))>>, "getok")
      [] scmd = "PUT" -> SlaveWrites(<<Info(OK)>>, "putsize")

\* What follows the argument.  rm, mkdir and cd are executed and not answered.
NameRead(k) ==
    CASE scmd \in NameCommands -> SlaveWrites(<<>>, "cmd")
      [] scmd = "GET" ->
           SlaveWrites(<<Size(SizeOnServer(k))>>,
                       IF SizeOnServer(k) = NoFile THEN "cmd" ELSE "getok")
      [] scmd = "PUT" -> \/ SlaveWrites(<<Info(OK)>>, "putsize")
                         \/ SlaveWrites(<<Info(ERROR_OPEN)>>, "cmd")

SlaveArg ==
    /\ spc = "arg" /\ c2s # <<>>
    /\ \E n \in ReadSome(c2s) :
          /\ c2s' = After(c2s, n)
          /\ LET k == NameOf(SubSeq(c2s, 1, n))
             IN  /\ NameRead(k)
                 /\ done' = Append(done, [cmd |-> scmd, arg |-> k])
                 /\ sfile' = k
    /\ UNCHANGED <<client, scmd, sleft, scopy, told, met>>

\* One turn of the loop of envoi_fichier_au_client with left bytes to send.
SlaveSends(left) ==
    IF left > 0
    THEN LET m == Data(sfile, SizeOnServer(sfile), SizeOnServer(sfile) - left)
         IN  SlaveWrites(<<m>>, "getack") /\ sleft' = left - m.len
    ELSE spc' = "cmd" /\ UNCHANGED <<s2c, link, sleft>>

\* GET: the client is ready, or could not create its copy; then the connection
\* is closed and the master is not told.
SlaveGetOk ==
    /\ spc = "getok" /\ c2s # <<>>
    /\ c2s' = Tail(c2s)
    /\ IF IntOf(c2s) = OK
       THEN SlaveSends(SizeOnServer(sfile)) /\ UNCHANGED told
       ELSE SlaveEnds(0, "idle") /\ UNCHANGED sleft
    /\ UNCHANGED <<client, scmd, sfile, scopy, done, met>>

SlaveGetAck ==
    /\ spc = "getack" /\ c2s # <<>>
    /\ c2s' = Tail(c2s)
    /\ SlaveSends(sleft)
    /\ UNCHANGED <<client, scmd, sfile, scopy, done, told, met>>

\* reception_fichier begins with an OK, whoever called it.
ReceptionBegins == <<Info(OK)>>

\* The OK of main, then that of reception_fichier.
UploadAnswer == <<Info(OK)>> \o ReceptionBegins

SlavePutSize ==
    /\ spc = "putsize" /\ c2s # <<>>
    /\ c2s' = Tail(c2s)
    /\ IF IntOf(c2s) > 0
       THEN /\ SlaveWrites(UploadAnswer, "putdata")
            /\ sleft' = IntOf(c2s) /\ scopy' = <<>>
       ELSE spc' = "cmd" /\ UNCHANGED <<s2c, link, sleft, scopy>>
    /\ UNCHANGED <<client, scmd, sfile, done, told, met>>

\* reception_fichier.
SlavePutData ==
    /\ spc = "putdata" /\ c2s # <<>>
    /\ \E n \in ReadSome(c2s) :
          /\ c2s' = After(c2s, n)
          /\ scopy' = scopy \o SubSeq(c2s, 1, n)
          /\ sleft' = sleft - Bytes(SubSeq(c2s, 1, n))
    /\ SlaveWrites(<<Info(OK)>>, IF Complete(sleft') THEN "cmd" ELSE "putdata")
    /\ UNCHANGED <<client, scmd, sfile, done, told, met>>

\* Nothing comes from the client, which waits too or is at its prompt.
Quiet == link = "open" /\ c2s = <<>> /\ (cpc = "prompt" \/ s2c = <<>>)

\* SHORT_TIMEOUT: the master is told, except by reception_fichier: exit(0).
SlaveTimeout ==
    /\ spc \in {"arg", "getok", "getack", "putsize", "putdata"} /\ Quiet
    /\ IF spc = "putdata" THEN SlaveEnds(0, "dead") ELSE SlaveEnds(1, "idle")
    /\ UNCHANGED <<client, scmd, sfile, sleft, scopy, done, c2s, met>>

Mut_NoLongTimeout == FALSE /\ UNCHANGED vars

\* LONG_TIMEOUT in the command loop; a client that waits for an integer has
\* given up before.
SlaveLongTimeout ==
    /\ spc = "cmd" /\ Quiet /\ cpc \in {"prompt", "text"}
    /\ SlaveEnds(1, "idle")
    /\ UNCHANGED <<client, scmd, sfile, sleft, scopy, done, c2s, met>>

\* The client is gone and did not send EXIT: every read returns 0, and no test
\* of it ends the command loop; in a command a write may raise SIGPIPE first,
\* and GET may take what its variable holds for an error of the client.
SlaveEof ==
    /\ spc \notin {"idle", "spin", "dead"}
    /\ c2s = <<>> /\ link \in {"fin", "rst"}
    /\ spc' \in {"spin"} \cup (IF spc = "cmd" THEN {} ELSE {"dead"})
                         \cup (IF spc = "getok" THEN {"idle"} ELSE {})
    /\ UNCHANGED <<client, scmd, sfile, sleft, scopy, done, told, c2s, s2c, link, met>>

-----------------------------------------------------------------------------
ClientStep ==
    \/ ClientText \/ ClientOk \/ ClientSize \/ ClientRecv
    \/ ClientPutOk \/ ClientPutGo \/ ClientPutAck
    \/ ClientTimeout \/ ClientEof

SlaveStep ==
    \/ SlaveCommand \/ SlaveArg \/ SlaveGetOk \/ SlaveGetAck
    \/ SlavePutSize \/ SlavePutData
    \/ SlaveTimeout \/ SlaveLongTimeout \/ SlaveEof

Next ==
    \/ \E c \in Commands, n \in Sizes \cup {0, NoFile} : Type(c, n)
    \/ ClientInterrupt
    \/ ClientStep
    \/ SlaveStep

Spec == Init /\ [][Next]_vars

\* A process runs until it blocks, and a select returns after its timeout; a
\* user need not type anything.
FairSpec == Spec /\ WF_vars(ClientStep) /\ WF_vars(SlaveStep)

-----------------------------------------------------------------------------
ClientExpects ==
    [text |-> "text", ok |-> "info", size |-> "size", recv |-> "data",
     putok |-> "info", putgo |-> "info", sent |-> "info"]

SlaveExpects ==
    [cmd |-> "cmd", arg |-> "arg", getok |-> "info", getack |-> "info",
     putsize |-> "size", putdata |-> "data"]

\* As long as nothing unusual happens, no read finds a message that was meant
\* for another one: the messages are told apart by their order only.
InStep ==
    met = {} =>
        /\ (cpc \in DOMAIN ClientExpects /\ s2c # <<>>)
              => Head(s2c).kind = ClientExpects[cpc]
        /\ (spc \in DOMAIN SlaveExpects /\ c2s # <<>>)
              => Head(c2s).kind = SlaveExpects[spc]

\* The slave executes what the user typed, in that order, each command with
\* its own argument, as long as no command is sent ahead and none interrupted.
ExecutesTyped ==
    met \subseteq {"empty", "unwritable"} =>
        /\ Len(done) <= Len(typed)
        /\ \A i \in 1 .. Len(done) :
              /\ done[i].cmd = typed[i].cmd
              /\ done[i].cmd \in ArgCommands => done[i].arg = i

\* A client that announces a download as done has the server's file.
GetDelivers ==
    [][(cpc = "recv" /\ cpc' = "prompt" /\ link \notin {"closed", "broken"})
          => copy' = Chunks(Here, typed[Here].size)]_vars

\* The same, for a user who makes uploads last and does not type ahead.
GetDeliversInStep ==
    [][(/\ cpc = "recv" /\ cpc' = "prompt" /\ link \notin {"closed", "broken"}
        /\ met \cap {"afterput", "typeahead"} = {})
          => copy' = Chunks(Here, typed[Here].size)]_vars

\* An upload announced as done by the client is complete on the server, now or
\* soon: the last acknowledgement the client read was not that of its last chunk.
UploadArrives ==
    (put /\ met = {}) ~> (\/ \E k \in 1 .. Here : scopy = Chunks(k, typed[k].size)
                         \/ met # {})

\* The master is told that the session is over when the client left.
SessionReported == (cpc = "out") ~> (told = 1 \/ met # {})

\* Whatever happens, the user has a prompt again or the client ends.
ClientAnswered == (cpc # "prompt") ~> (cpc \in {"prompt", "out"})
=============================================================================
