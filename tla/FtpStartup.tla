----------------------------- MODULE FtpStartup -----------------------------
(***************************************************************************)
(* How the FTP processes of SR/projet_ftp come together: the master waits  *)
(* for its slaves, opens the clients' port and forks its dispatcher; the   *)
(* slaves connect, and so do clients.  What follows is FtpMaster's.        *)
(*                                                                         *)
(* More slaves may be started than the master takes.  Every call may fail; *)
(* the wrappers of csapp.c end the process, but pipe and fork are called   *)
(* as they are.                                                            *)
(***************************************************************************)
EXTENDS Csapp, Sequences, FiniteSets, SequencesExt, FiniteSetsExt

CONSTANTS
    NbEsclave,  \* NB_ESCLAVE
    Started,    \* slave processes the user starts
    Callers     \* client processes

Unused == "unused"

\* A slave is none of the other things a descriptor is open on.
ASSUME StartupAssumption ==
    /\ NbEsclave \in Nat \ {0}
    /\ Started \cap {Unused, "listenfd", "tube"} = {}

VARIABLES
    mst,        \* where the master, later the acceptor, is
    dsp,        \* the dispatcher: "none", "runs", "failed" (its fork) or "dead"
    fds,        \* what each descriptor of the master is open on
    fdSlave,    \* fd_slave[0..nb_connected-1]
    tubeFds,    \* tube[], <<reading end, writing end>>
    queue,      \* connections to the listening socket not accepted yet
    slv,        \* the slaves: "start", "wait", "cut", "lost" or "dead"
    call,       \* the clients: "start", "dialled", "known" or "dead"
    addresses,  \* the clients whose address is in the tube
    client_ip,  \* client_ip_string of the dispatcher, Unused until it is read
    again,      \* history: what was handed over without having been read
    luck        \* history: no call of the master has failed, nor was it killed

masterFds == <<fds, fdSlave, tubeFds>>
tubeReads == <<client_ip, again>>
startupVars == <<mst, dsp, masterFds, queue, slv, call, addresses, tubeReads, luck>>

Descriptors == 3..(7 + NbEsclave)
\* The kernel gives the lowest.
Lowest(table) == CHOOSE d \in Descriptors :
    /\ table[d] = Unused
    /\ \A e \in Descriptors : e < d => table[e] # Unused

-----------------------------------------------------------------------------
(* The master.                                                             *)

\* Open_listenfd: the socket made by a helper that fails is not closed, but
\* its process ends.
OpenPort(from, to) ==
    /\ mst = from
    /\ \E o \in open_listenfd(TRUE) :
        /\ fds' = IF o.made THEN [fds EXCEPT ![Lowest(fds)] = "listenfd"] ELSE fds
        /\ mst' = IF Passes("Open_listenfd", o.rc) THEN to ELSE "error"
        /\ luck' = (luck /\ o.rc = "fine")
    /\ UNCHANGED <<dsp, fdSlave, tubeFds, queue, slv, call, addresses, tubeReads>>

OpenSlavePort == OpenPort("start", "slaves")

\* Accept: at first with a clientlen that was never set, which the kernel may
\* refuse.
AcceptSlave ==
    /\ mst = "slaves" /\ Len(fdSlave) < NbEsclave
    /\ \/ /\ queue # <<>>
          /\ LET d == Lowest(fds) IN
             /\ fds' = [fds EXCEPT ![d] = Head(queue)]
             /\ fdSlave' = Append(fdSlave, d)
          /\ queue' = Tail(queue)
          /\ UNCHANGED <<mst, luck>>
       \/ /\ mst' = "error" /\ luck' = FALSE
          /\ UNCHANGED <<fds, fdSlave, queue>>
    /\ UNCHANGED <<dsp, tubeFds, slv, call, addresses, tubeReads>>

\* close(listenfd): the slaves that were not accepted are cut.
CloseSlavePort ==
    /\ mst = "slaves" /\ Len(fdSlave) = NbEsclave
    /\ mst' = "closed"
    /\ fds' = [d \in Descriptors |-> IF fds[d] = "listenfd" THEN Unused ELSE fds[d]]
    /\ slv' = [s \in Started |-> IF s \in Range(queue) THEN "cut" ELSE slv[s]]
    /\ queue' = <<>>
    /\ UNCHANGED <<dsp, fdSlave, tubeFds, call, addresses, tubeReads, luck>>

OpenClientPort == OpenPort("closed", "clients")

TubeMade == tubeFds # <<0, 0>>

\* pipe() is not tested: when it fails tube[] stays {0, 0}.  Nor is fork().
PipeAndFork ==
    /\ mst = "clients"
    /\ \/ LET r == Lowest(fds)
              w == Lowest([fds EXCEPT ![r] = "tube"])
          IN /\ fds' = [fds EXCEPT ![r] = "tube", ![w] = "tube"]
             /\ tubeFds' = <<r, w>>
       \/ UNCHANGED <<fds, tubeFds>>
    /\ dsp' \in {"runs", "failed"}
    /\ luck' = (luck /\ TubeMade' /\ dsp' = "runs")
    /\ mst' = "accept"
    /\ UNCHANGED <<fdSlave, queue, slv, call, addresses, tubeReads>>

Mut_fd_max == Max(Range(fdSlave))
fd_max == Max(Range(fdSlave) \cup {tubeFds[1]})

\* The acceptor writes an address into the tube; nobody can read it when the
\* fork has failed or the dispatcher has gone, and the write kills.  Without a
\* tube the acceptor has closed descriptor 0, which accept gives again: the
\* address goes to the client itself.
AcceptClient ==
    /\ mst = "accept" /\ queue # <<>>
    /\ queue' = Tail(queue)
    /\ IF dsp = "runs" /\ TubeMade
       THEN addresses' = Append(addresses, Head(queue)) ELSE UNCHANGED addresses
    /\ mst' = IF TubeMade /\ dsp # "runs" THEN "error" ELSE mst
    /\ UNCHANGED <<dsp, masterFds, slv, call, tubeReads, luck>>

\* Accept fails, or, with a connection accepted, Getnameinfo or Inet_ntop does.
AcceptorFails ==
    /\ mst = "accept" /\ mst' = "error"
    /\ queue' \in {queue} \cup {Tail(q) : q \in {queue} \ {<<>>}}
    /\ luck' = FALSE
    /\ UNCHANGED <<dsp, masterFds, slv, call, addresses, tubeReads>>

\* select() sees the descriptors below fd_max() + 1.
Watched(d) == d < fd_max + 1

\* Without a tube the dispatcher has closed descriptor 0, and its select fails
\* for ever.
DispatcherSelects == dsp = "runs" /\ TubeMade /\ Watched(tubeFds[1])

DispatcherReads ==
    /\ DispatcherSelects /\ addresses # <<>>
    /\ addresses' = Tail(addresses) /\ client_ip' = Head(addresses)
    /\ call' = [call EXCEPT ![Head(addresses)] = IF @ = "dead" THEN @ ELSE "known"]
    /\ UNCHANGED <<mst, dsp, masterFds, queue, slv, again, luck>>

\* With the acceptor the writing end of the tube has gone.  The read at its end
\* gives nothing, and what client_ip_string holds is handed over once more: the
\* last client's address, or what the stack held.
DispatcherReadsEnd ==
    /\ DispatcherSelects /\ addresses = <<>> /\ mst \in {"error", "killed"}
    /\ again' = again \cup {client_ip}
    /\ UNCHANGED <<mst, dsp, masterFds, queue, slv, call, addresses, client_ip, luck>>

\* Ctrl-C, or kill -INT: handler_kill in either of the two processes.
MasterInterrupted ==
    /\ mst \notin {"start", "error", "killed"} /\ mst' = "killed"
    /\ dsp' \in IF dsp = "runs" THEN {"runs", "dead"} ELSE {dsp}
    /\ luck' = FALSE
    /\ UNCHANGED <<masterFds, queue, slv, call, addresses, tubeReads>>

DispatcherInterrupted ==
    /\ dsp = "runs" /\ dsp' = "dead"
    /\ luck' = FALSE
    /\ UNCHANGED <<mst, masterFds, queue, slv, call, addresses, tubeReads>>

-----------------------------------------------------------------------------
(* The others.                                                             *)

MasterUp == mst \notin {"error", "killed"}

\* Open_clientfd(host, SLAVE_PORT); SLAVE_PORT is open in "slaves" only.
SlaveStarts(s) ==
    /\ slv[s] = "start"
    /\ \E o \in open_clientfd(mst = "slaves") :
        /\ slv' = [slv EXCEPT ![s] =
                IF Passes("Open_clientfd", o.rc) THEN "wait" ELSE "dead"]
        /\ queue' = IF o.rc = "fine" THEN Append(queue, s) ELSE queue
    /\ UNCHANGED <<mst, dsp, masterFds, call, addresses, tubeReads, luck>>

\* Nobody holds the other end of its connection any more.
Deserted(s) ==
    \/ slv[s] = "cut"
    \/ slv[s] = "wait" /\ ~ MasterUp /\ dsp # "runs"

\* The read returns without an address; Open_clientfd("") finds no such host.
SlaveCut(s) ==
    /\ Deserted(s)
    /\ slv' = [slv EXCEPT ![s] = IF Passes("Open_clientfd", "minus_two") THEN "lost" ELSE "dead"]
    /\ UNCHANGED <<mst, dsp, masterFds, queue, call, addresses, tubeReads, luck>>

\* Open_clientfd(host, CLIENT_PORT); the dispatcher has the listening socket
\* too, and keeps it open when the acceptor has gone.
ClientDials(c) ==
    /\ call[c] = "start"
    /\ \E o \in open_clientfd(mst \in {"clients", "accept"} \/ dsp = "runs") :
        /\ call' = [call EXCEPT ![c] =
                IF Passes("Open_clientfd", o.rc) THEN "dialled" ELSE "dead"]
        /\ queue' = IF o.rc = "fine" THEN Append(queue, c) ELSE queue
    /\ UNCHANGED <<mst, dsp, masterFds, slv, addresses, tubeReads, luck>>

\* Open_listenfd(SLAVE_TO_CLIENT) fails when the port is taken, by another
\* client of the same host for instance; its address goes on.
ClientPortTaken(c) ==
    /\ call[c] = "dialled"
    /\ call' = [call EXCEPT ![c] = "dead"]
    /\ UNCHANGED <<mst, dsp, masterFds, queue, slv, addresses, tubeReads, luck>>

-----------------------------------------------------------------------------
StartupInit ==
    /\ mst = "start" /\ dsp = "none"
    /\ fds = [d \in Descriptors |-> Unused] /\ fdSlave = <<>> /\ tubeFds = <<0, 0>>
    /\ queue = <<>> /\ addresses = <<>> /\ client_ip = Unused /\ again = {}
    /\ slv = [s \in Started |-> "start"]
    /\ call = [c \in Callers |-> "start"]
    /\ luck = TRUE

\* When another program runs.
StartupIdle ==
    /\ mst = "killed" /\ dsp = "none"
    /\ fds = [d \in Descriptors |-> Unused] /\ fdSlave = <<>> /\ tubeFds = <<0, 0>>
    /\ queue = <<>> /\ addresses = <<>> /\ client_ip = Unused /\ again = {}
    /\ slv = [s \in Started |-> "dead"]
    /\ call = [c \in Callers |-> "dead"]
    /\ luck = TRUE

MasterStarts ==
    OpenSlavePort \/ AcceptSlave \/ CloseSlavePort \/ OpenClientPort \/ PipeAndFork
        \/ AcceptClient

StartupNext ==
    \/ MasterStarts \/ AcceptorFails \/ DispatcherReads \/ DispatcherReadsEnd
    \/ MasterInterrupted \/ DispatcherInterrupted
    \/ \E s \in Started : SlaveStarts(s) \/ SlaveCut(s)
    \/ \E c \in Callers : ClientDials(c) \/ ClientPortTaken(c)

\* The processes run; the user starts them when he likes.
StartupFair ==
    /\ WF_startupVars(MasterStarts) /\ WF_startupVars(DispatcherReads)
    /\ \A s \in Started : WF_startupVars(SlaveCut(s))

StartupSpec == StartupInit /\ [][StartupNext]_startupVars /\ StartupFair
-----------------------------------------------------------------------------
(* Properties.                                                             *)

\* master.c:63-101, master.c:295: once clients are taken, the dispatcher has
\* NB_ESCLAVE connections to as many slaves, and its select watches each of
\* them and the tube, if pipe() made one, whatever descriptors the kernel gave.
DispatcherSeesAll ==
    /\ mst \in {"closed", "clients", "accept"} =>
        /\ Len(fdSlave) = NbEsclave
        /\ Cardinality({fds[d] : d \in Range(fdSlave)} \cap Started) = NbEsclave
    /\ dsp = "runs" =>
        /\ \A d \in Range(fdSlave) \cup {t \in {tubeFds[1]} : TubeMade} :
                fds[d] # Unused /\ Watched(d)
        /\ tubeFds[1] \notin Range(fdSlave)

\* Starting comes to rest.  As long as nothing happens to the master: with
\* enough slaves the clients' port is open, and each client that has reached
\* it is known to the dispatcher or gave up.  In any case the slaves that the
\* master cannot use, or whose master has gone, both processes of it, ended.
StartupEnds ==
    <>[] /\ luck /\ Len(fdSlave) + Len(queue) >= NbEsclave =>
                mst \notin {"start", "slaves", "closed", "clients"}
         /\ luck => \A c \in Callers : call[c] # "dialled"
         /\ \A s \in Started : ~ Deserted(s)
=============================================================================
