# Verification of Semestre6

The repository collects the course work of one semester: systems programming in
C (`SR`), algorithms in Java (`Algo6`, `RO`, `Prog6`), OCaml and Coq (`MCal`).
Its largest program is the FTP server of `SR/projet_ftp`, a master, a pool of
slaves and their clients with timeouts and resumption of interrupted downloads.
This directory holds TLA+ models of it, what TLC checks about them and what is
proved with TLAPS.

## 1. Inventory

### 1.1 The FTP server (`SR/projet_ftp`)

| part | state | operations |
|---|---|---|
| acceptor (`master.c:182-196`) | listening socket, pipe to the dispatcher | accept a client, write its IP address into the pipe, close |
| dispatcher (`master.c:81-177`) | `busy[]`, list of unfinished transfers, `info`, `client_ip_string` | select over pipe and slaves; read reports; receive the report of a cut transfer; hand a client to a free slave; hand a record over with it |
| list (`stock_ip.c`) | linked list of (ip, offset, file name) | `add`, `contain`, `file_name`, `bytes`, `remove_first`, `remove_by_ip` |
| slave (`slave.c`) | `connected`, `clientfd`, `client_ip_string`, `filename`, `nb_crash`, cwd | connect to the client it is told; serve commands; send a file; report a crash; resume a transfer |
| client (`client.c`) | `slave` socket, its files | connect to the master, accept a slave, resume, commands, receive and send a file |

How they interact.  The acceptor gives addresses to the dispatcher through a
pipe.  The dispatcher writes an address to a slave, which connects back to the
client, answers `OK`, and is told `DEFAULT` or `CLIENT_CRASHED`; in the second
case it is sent the file name and offset, each step acknowledged.  The slave
reports the end of its session with `SLAVE_FINISHED`, `CLIENT_CRASHED` or
`CLIENT_CRASHED_DURING_TRANSFERT`, the last one followed by address, offset and
file name.  Between slave and client a download is a sequence of chunks of
`MAXLINE` bytes, each acknowledged by `OK`.  Every wait is a `select` with
`SHORT_TIMEOUT` (3 s), or `LONG_TIMEOUT` (90 s) between commands; no message
carries a type, a number or a session.

What is hard: messages are bare integers read by whoever reads next; reports,
dispatches and sessions interleave; processes are killed and hosts vanish; a
read may return less than a write sent; `SIGPIPE` is not handled.

What makes it correct: a client goes to a slave that waits for one; `busy[]`
follows the slaves; a cut transfer is recorded once, with an offset the client
really reached, and resumed once; the client's copy is the server's file;
nobody waits for ever.

### 1.2 The rest of the repository

| part | state and operations | what is hard / what makes it correct |
|---|---|---|
| Shell (`SR/Projet`) | `readcmd.c`: words, who owns them; job table `Tab_Jobs`, `indice_jobs`; fork per command, pipes, `SIGCHLD` handler | the handler interleaves with the loop and with other children's ends; the shell waits for exactly its foreground job; no word is freed twice |
| Signals, shared memory (`SR/TP5`, `SR/TD4`) | flags set by handlers, signal mask; tell/wait; Peterson's flags | lost and early signals, memory order; mutual exclusion, no deadlock |
| Pipes (`SR/TP6`, `TP3`, `TD3`) | bytes in a pipe | who holds which end; all that is typed comes out, end of file is seen |
| Echo server (`SR/TP7`) | forked processes, a socket | the pool size; a file arrives whole, line by line |
| Signal and process exercises (`SR/TP1`, `TP2`, `TD2`) | a counter in a handler, children and their statuses | coalesced signals, forks that fail, orphans |
| Measures, file information (`SR/TP2/cpufraction.c`, `SR/TP3/fileinfo.c`) | two readings of a clock; a mode | the clock wraps; every right shown where it belongs |
| Helpers (`csapp.c`, one copy per directory) | the buffer of the robust reads; `errno` | partial reads and writes; a wrapper stops at each failure of its call and at nothing else, and tells its cause, though a handler may write `errno` in between |
| Sokoban (`Algo6/Sokoban`) | board, position of the pusher in several objects, move counter | the copies of the position agree; one bag per goal |
| Hash tables (`Algo6/TD2_2`) | array of chains | supprimer removes what it was asked to |
| Kruskal, partitions (`RO/APNEE2`) | parents, edge lists | termination, spanning tree |
| Graphs (`RO/APNEE1`, `Algo6/APNEE4`) | adjacency, marks | traversals visit each vertex once |
| Priority queue (`Ressources`) | list | extraction order |
| Text and geometry (`Algo6/APNEE1,2,3,5`, `TD2_3`, `TD2_4`) | none that lasts | results on data |
| Sets, iterators, level loader (`Prog6`) | linked and array sets | removal through an iterator |
| Turing machine (`MCal`) | band, configuration | band moves |

## 2. Modules

| module | models | extends / uses |
|---|---|---|
| `FtpStartup` | how the FTP processes come together: ports, accepted slaves, tube, `fd_max`, dials, `handler_kill` | `Csapp` |
| `FtpPrompt` | the prompt of the client with `parse.c`: what goes to the slave for what is typed, HOST | `Readcmd` |
| `FtpTransfer` | one client's download over all its sessions: the slave's sending loop, the client's receiving loop, cuts, the recorded offset, the resume | |
| `FtpProofs` | theorems about `FtpTransfer`, `FtpStartup` and `Wrapped` | `FtpTransfer`, `FtpStartup`, `Wrapped`, `TLAPS` |
| `FtpSession` | the two command loops of one session over their two byte streams: LS, PWD, MKDIR, CD, RM, RMR, GET, PUT, EXIT, Ctrl-C, timeouts | |
| `FtpSessionProofs` | theorems about `FtpSession` | `FtpSession`, `TLAPS` |
| `FtpMaster` | acceptor, dispatcher, slaves between and around their commands, clients' connection phase | |
| `FtpMasterProofs` | a theorem about `FtpMaster`: the table of its sockets | `FtpMaster`, `TLAPS` |
| `FtpMasterCallProofs` | theorems about `FtpMaster` and its clients | `FtpMasterProofs` |
| `UnfinishedTransfers` | what `master.c` expects of its list | |
| `StockIp` | the list of `stock_ip.c` on a heap, with the dispatcher's two uses of it | `UnfinishedTransfers` (refinement) |
| `StockIpProofs` | the refinement of `UnfinishedTransfers`, and when the dispatcher fails | `StockIp`, `TLAPS` |
| `Readcmd` | `readcmd.c`: the line, its words, the structure built from them, `free` | |
| `Shell` | the loops of `shell.c` and `tst.c`, their children, `SIGCHLD`, keys | `Readcmd` |
| `Exercises` | the programs of `TP1`-`TP7`, `TD2`-`TD4` as lists of calls | |
| `Processes` | the machine that runs them: processes, signals, masks, pipes, shared memory with store buffers, the terminal | `Exercises` |
| `ProcessProofs` | the invariant of that machine, for every program | `Processes`, `TLAPS` |
| `ExerciseProofs` | theorems about the exercises | `ProcessProofs` |
| `Csapp` | the wrappers of `csapp.c`, `open_clientfd`, `open_listenfd` | |
| `Wrapped` | a program that makes its calls through them, with `errno` and a handler | `Csapp` |
| `Rio` | `rio_writen`, `rio_read`, `rio_readlineb`, `rio_readnb` under the programs of `TP6` and `TP7` that call them | |
| `Tools` | `cpufraction.c`, `fileinfo.c` | |
| `ProgramProofs` | theorems about `Shell`, `Readcmd`, `FtpPrompt`, `Rio` and `Tools` | these, `TLAPS` |
| `MCExercises` | one of the exercises, a user of `Rio` or a tool, chosen in the initial state | `Processes`, `Rio`, `Tools` |
| `MCProjects` | one of the parts of the two projects, chosen in the initial state, and what the user may type | `Shell`, `FtpStartup`, `FtpPrompt`, `Wrapped`, `FtpTransfer` |

`FtpSession` refines the one step `GetFile` of `FtpTransfer` into the exchange it
is, for peers that are not slow; `FtpMaster` sees of a session only how it ends.
`FtpTransfer` sees one record (`rec`) where `FtpMaster` has a list of addresses
(`recs`) and `StockIp` the list itself, with offsets and memory: each module
abstracts the part of the record that the others look at.

Conventions.  The code between two blocking calls (`select`, `read`, `Accept`)
is one action.  Actions have the names of what happens, state variables those
of the C code where it has one.  A definition named `Mut_...` is the operator
after it with a bug such code could have: no specification uses it; each
property of a passing run is violated when one such definition takes the place
of the operator, which shows that the property depends on the code.

### 2.1 `FtpTransfer`

State: `nb` and `spc` are the slave's offset and place in
`envoi_fichier_au_client`; `cnb` and `cpc` the client's in `reception_fichier`;
`wire`, `acks` and `exits` what is in the socket in each direction (bytes,
`OK`s, a final `EXIT`); `link` what the slave's kernel knows of the client
(open, closed by FIN or RST, silent); `disk` the client's copy; `rec` the
master's record.  A byte of the server's file is its offset, so that `disk[p] =
p` says that the copy is right at `p`.  `Connect`, `Resume`, `ResumeAborted`
and `GetFile` stand for the exchanges that open a transfer, `SlaveSend`,
`SlaveAck`, `SlaveTimeout`, `SlaveFinish` for the sending loop, `ClientRead`,
`ClientDone`, `ClientEof`, `ClientTimeout` for the receiving loop,
`SlaveEndSession`, `SlaveSpin`, `ClientQuit`, `ClientKilled`, `ClientVanish`
for what surrounds them.  `Faults` chooses what may go wrong, `Fragment`
whether a `read()` may return part of a chunk.

### 2.2 `FtpSession`

State: `cpc` and `spc` are the reads in which the client and the slave block;
`c2s` and `s2c` what is in the socket in each direction; `scmd`, `sleft`,
`cleft` the slave's `int_cmd` and the bytes each side still expects; `copy` and
`scopy` what was written to disk.  A message is one `write()`, with its length
and what its writer meant (`kind`), which no reader looks at: an integer read
takes the four bytes at the head, whatever they are (`IntOf`), and a
`read(MAXLINE)` takes as many messages as are there and fit (`ReadSome`), which
is how an argument and the next command run into each other (`NameOf`).
`typed`, `done`, `told` and `met` are history: what the user asked, what the
slave executed, its reports, and which of the unusual things in `Faults`
happened.  A read takes whole messages; this is exact as long as at most one
message longer than an integer is on its way, and an approximation after the
two sides have lost each other.

### 2.3 `FtpMaster`

State: `dpc` is the wait in which the dispatcher blocks (`select`, the scan,
`register_crash_transfert`'s three waits, the waits of the hand-over); `busy`,
`info`, `cur` (`client_ip_string`), `rip` (`ip_client_crashed`) and `recs` its
variables; `m2s` and `s2m` the sockets; `sp`, `sc` and `late` a slave's place,
client and the return into `main` that sets `connected = 1`; `cs` and `conn`
the clients.  Three variables are history: `owed`, the transfers cut and not yet
resumed; `dropped`, those of them whose record was removed by a resume that
failed; `untold`, the slaves whose last session ended without a report.

A session ends in one of these ways.  `SessionExit` and `SessionTimeout` tell the
dispatcher; `TransferCut` tells it at length (`ReportIp` to `ReportName`).
`SessionRefused` does not: the client could not create its copy, and the slave
closes the connection and waits for the next address (`slave.c:330-334`).
`UploadCut` ends the slave's process (`slave.c:652-655`); its socket is then
readable for ever, and the scan acts upon the `info` of some other message.  A
resume ends with `ResumeDone`, with `TransferCut` again, with `ResumeFails` when
the client does not answer the handshake, or with `ResumeBroken` when the slave
cannot open the file (`slave.c:570-572`) or the client its copy
(`client.c:417-421`); the record has been removed in every case
(`master.c:150`).

A socket of a dead slave is readable, a read of it leaves the variable as it
was, the first write to it is lost and the second kills the dispatcher.

A timeout expires only when the answer cannot come in time: its sender is dead,
or stuck in a call that lasts longer (the connection to a silent client), or
waits itself for somebody who is.  A slave that is merely slower than 3 s in
answering one integer is not modelled, and with it the second half of the
timeouts in `register_crash_transfert` and `reception_info_crash_from_master`.

### 2.4 `UnfinishedTransfers` and `StockIp`

`StockIp` keeps the nodes in `mem`, indexed by address, `live` the addresses
`malloc` has given out.  `free` leaves the contents, or overwrites the first
bytes, where `ip` is; `next` lies beyond.  `malloc` may give any free address.
`Register` is `add`, `Resume` is what the dispatcher does when `contain` is
true: `file_name`/`bytes`, then `remove_by_ip`.  `Path` follows `next` from the
head; the list is `Tight` when it ends and holds allocated nodes only, and then
`List` maps it to the abstract list.

### 2.5 `FtpStartup` and `FtpPrompt`

`mst` and `dsp` are where the master's two processes are, `fds` its descriptor
table, in which the kernel takes the lowest free number, `fdSlave` and
`tubeFds` the descriptors it keeps; `queue` holds the connections nobody has
accepted.  Each call may fail, and ends the process when its wrapper in
`Csapp` says so; the first `Accept` is given a length nobody set, and neither
`pipe` nor `fork` is tested.  Without a pipe `tube` is `{0, 0}`: the dispatcher
closes its standard input and its `select` fails for ever.  `AcceptorFails` is the
end of the acceptor, by `Accept`, `Getnameinfo` or `Inet_ntop`; from then on the
tube is at its end of file, and `DispatcherReadsEnd` hands over what
`client_ip_string` still holds (`again`).  `luck` is history: no call of the master
has failed and nobody has interrupted it.

In `FtpPrompt`, `cmd` is the array `fgets` fills, `fathers` the `cmd` of those
that wait for a child in HOST, `sent` what was written to the slave.  A command is
written in two steps: its code (`Execute`), and, after an `OK`, its argument
(`Accepted`, which `accepted` remembers); any other answer brings the prompt back,
none within `SHORT_TIMEOUT` ends the client (`NotAccepted`).  A line
without its line feed and an `execvp` that fails set `strayed`: the former loses
a character to `no_endofline` and is run again at every later `fgets`, the
latter leaves a second client on the same terminal.

### 2.6 `Readcmd` and `Shell`

Words are ranges of the line, so that their identity stands for the pointer:
`readcmd` says which the structure keeps and `freecmd`, `FreeRest` which `free`
is given, operators being literals.  In `Shell`, `at` is the place in the loop,
`job` the entry `Tab_Jobs[indice_jobs]`, `kids` the children with their line,
their rank in it and their state, `chld` the pending `SIGCHLD`, which the
handler may take between any two steps.  A child holds the pipe ends that
`close_pipe` did not close (`HoldsCopies`).  The `flavour` is `shell.c` or
`tst.c`, which waits with `waitpid`.

The arrays of `shell.c` have `MaxCmd` places (`tubes[10]`, `Tab_pid[10]`), those of
`tst.c` too, and `cmd` has `MaxChars` characters, counted in `job.text` from what
`malloc` left in it (`Junk`), since `strcat` starts there.  A line that does not fit
leads to the state `overrun`, where nothing more is said of the shell; a line of
exactly `MaxCmd` commands clears `background`, which lies behind `Tab_pid`
(`shell.c:215`).

### 2.7 `Exercises` and `Processes`

A program is a table from labels to calls (`Code`); `Processes` gives each call
its effect on the processes of the program.  A signal that is not masked is
delivered before the next call; two of the same kind merge.  A store to shared
memory waits in its processor's buffer, as on x86, and `early` remembers that a
load overtook one.  `seen` holds the labels executed and `shown` what was
displayed.  A `fork` may fail once, and the user strikes Ctrl-C once at most.  In
`echoserveri.c` an `Accept` may fail and end its server, and so may the exchange with
the client, or a SIGPIPE (`AcceptCall` and the labels `echo`, `broken`, `sigpipe`).

`MayStay` names the programs that may stay, and in which state: a server that
accepts or serves until Ctrl-C, `signal1` once its children are reaped, `shm_server`
whose client was there before it, ...  For the `pause()` of `exo1.c` this includes one
case more, `WakeUpLost`: Ctrl-C came between `Signal` and `pause()`
(`exo1.c:30-33`), its handler has run, and nothing will wake the program.

### 2.8 `Csapp`, `Wrapped`, `Rio` and `Tools`

`Csapp` gives for each wrapper the results it takes for failures and where it
looks for the cause, and for each call (`Call`, from its manual page) what the
results mean.  `Wrapped` runs any sequence of such calls: `errno` and `h_errno` hold
the name of the wrapper that wrote them last, or of the handler, which does not save
`errno` and may run between a failure and its message; `message` is what `unix_error`,
`posix_error`, `dns_error` or `app_error` tells when it ends the process.  `app_error`
looks nowhere, so that `Fgets` and `Inet_pton`, which call it, tell no cause.

In `Rio` the bytes go from `file` through `chunk` (the buffer of
`rio_writen`), `wire` and `rbuf` (`rio_buf`) to `got`, in pieces of any size.
`Tools` has the clock modulo `Wrap` and the mode of a file.

## 3. What is checked

| run | configuration | shows |
|---|---|---|
| `transfer_fragment` | Size 7, MaxLine 2, reads may return part of a chunk | `ResumeOffsetSafe` is violated |
| `session_all` | up to 3 commands, files of 5 and 13 bytes, MaxLine 8, every fault (0.23 M states) | `InStep`, `ExecutesTyped`, `GetDeliversInStep`; `UploadArrives`, `SessionReported`, `ClientAnswered` |
| `session_put` | get, put and exit, a command after an upload | `GetDelivers` is violated |
| `stock_list` | 2 addresses, 2 offsets, 3 nodes (0.55 M states) | `TightListImplements`, `FailsOnlyWhenDangling` |
| `stock_again` | 2 addresses, 3 nodes | `ResumeOnlyAfterCrash` is violated |
| `master_healthy` | 2 slaves, 2 clients, clients vanish in sessions, refused copies, broken resumes (2.2 M states) | `BusySlaveHasClient`, `RecordedIsOwed`, `OwedIsRecorded`, `HandsToIdleSlave` |
| `master_faults` | 2 slaves, 1 client, every fault (1.8 M states) | `FreeSlaveHasNoClient` |
| `master_live` | 1 slave, 2 clients, clients vanish in sessions (31 k states) | `DispatcherReturns`, `SlaveFreed` |
| `master_resume` | 1 slave, 2 clients, clients vanish in a resume too | `BusySlaveHasClient` is violated |

`BusySlaveHasClient` and `OwedIsRecorded` say what the comments promise, with the
exceptions that the code makes (`untold`, `dropped`), and show that there are no
others.

`exercises` (module `MCExercises`) runs one of the exercises in each initial state,
under every schedule, or a user of the robust reads, or a tool (73 k states):

| property | says |
|---|---|
| `CallsInOrder`, `ProgramsEnd` | the exercises about an order keep it, and each program ends or comes to stay in a state that `MayStay` names |
| `OneAtATime` | Peterson's two processes exclude each other unless a load overtook a store; one process of the echo pool accepts or serves, whichever of them fail |
| `ParentsReap` | no child of the programs that wait is left to init |
| `RelayComplete` | what is typed comes out of the pipe, in order and whole |
| `StreamIntegrity`, `ReaderGetsAll` | the robust reads and writes lose, double and displace nothing, and cut the lines where they should |
| `PrintsTheTruth` | the fraction is that of the time elapsed, the rights are the file's |

`projects` (module `MCProjects`) asks of each part of the two projects, which runs
alone (0.23 M states, of which 719 are the transfer's):

| property | says |
|---|---|
| `LineWords`, `WordsOwnedOnce` | `readcmd.c` splits a line as it should and frees each word once, for every line of four characters of the alphabet |
| `NoLostChild`, `PromptReturns` | the shell never waits for a job that nobody will end, and its wait ends |
| `ForegroundAlone` | without `&` and pipes the prompt comes back with no command alive |
| `DispatcherSeesAll`, `StartupEnds` | the dispatcher watches each slave and the tube; starting comes to rest with clients known and superfluous slaves gone |
| `FailureIsTold` | after any calls before it, a wrapper ends the program at a failure of its call and at nothing else, and the message gives the cause of that call and not one left over in `errno`, unless a handler ran in between |
| `SendsWhatIsTyped` | the slave is asked what the lines say, each once, and is given the arguments it accepted |
| `ResumeOffsetSafe`, `FileIntegrity`, `NoStrayAck`, `TypeOK` | over the sessions of a download, with every fault but partial reads, what is resumed leaves no hole and no acknowledgement is left over |
| `SuccessMeansDelivered` | a success is announced for a complete copy, or to a client that has closed |
| `TransferEnds`, `ReceptionEnds`, `SlaveReleased` | neither side stays in a transfer, and a slave whose client vanished is free again |

`shell_foreground` is the same instance with `shell.c` alone and no keys, and
finds `ForegroundWaited` violated.

Deadlock is not checked where the system may really stop: an exercise or a client
has ended, the dispatcher has been aborted by `free` or killed by SIGPIPE.  In
`master_healthy` it is the latter: a slave whose upload was cut has ended, the
dispatcher writes to it twice, and dies.

### 3.1 Disagreements between the code and what it says

* `transfer_fragment`: the client acknowledges each `read()`, the slave counts
  one acknowledgement per `write()`.  A chunk read in two parts yields an
  acknowledgement too many; the slave runs ahead, and the offset it reports
  (`slave.c:473`), "NOMBRE DE BYTES TRANSEFERES" for `master.c:117`, is larger
  than what the client has.  The resumed copy has a hole.
* `session_put`: an upload is answered by one OK too many (`slave.c:244` and
  `636`), so the client stays one answer ahead.  A `get` after a `put` takes the
  left-over OK for the answer, the answer for the size (1) and the size for the
  contents: even a file that does not exist is "downloaded" and announced
  (`client.c:25`: "receptionne les données envoyé par le serveur esclave").
* `stock_again`: `remove_by_ip` never unlinks the second node
  (`stock_ip.c:53`), so the same transfer is resumed again by a client that has
  completed it (`slave.c:90`: only "si le client avait crash durant le
  transfert").
* `master_resume`: a failed resume is reported twice (`slave.c:110`,
  `367`, `604`); the second report is read as the answer to the next address,
  and the slave stays `busy` although it is idle, against `master.c:20-22`.
* `shell_foreground`: `handler_child` marks the current job finished whichever
  child ended (`shell.c:237`), so the prompt comes back while a command of the
  foreground line is alive, against `shell.c:219`, "on attend tant que la
  commande ne s'est pas entièrement terminée".

More, visible in the models but not run on their own.  In `FtpMaster`, with no fault
at all, a client that cannot create its copy of a download answers `ERROR_OPEN`; the
slave closes the connection and tells nothing (`slave.c:330-334`), and `busy` stays 1
for a slave without a client, against `master.c:20-22`: without the exception
`untold`, `BusySlaveHasClient` is violated after ten steps.  The record of a cut
transfer is removed before its resume is known to have begun (`master.c:150`); a file
that cannot be opened then, by the slave or by the client, leaves a transfer that is
neither resumed nor recorded, against `client.c:71`, "si le client a crash il doit
reprendre le téléchargement du fichier": without the term `dropped`, `OwedIsRecorded`
is violated.  When every slave is busy the address of a client is dropped and the
client waits for ever (`Refuse`, `master.c:171`).

In `FtpSession`: an empty file is "not found" for the client
(`client.c:144`) while the slave waits for its answer and takes the next command
for it; an empty upload ends the client; a command sent while the argument of
the former is unread is read with it (`slave.c:166`), and the last chunk of an
upload with the command after it (`slave.c:645`).  The properties of
`session_all` say which of these (`met`) they exclude.

In the other modules: a client that is *killed* closes its connection, end of
file is read as an acknowledgement (`slave.c:455`), the slave announces a
success or is left spinning in its command loop (`SlaveSpin`): the reason why
`SuccessMeansDelivered` allows for a client that has closed, and `SlaveReleased`
speaks of those that vanish.  A wait for a slave that times out
(`master.c:165-167`) leaves `busy` at 1; the run of `BusySlaveHasClient` leaves
that fault out.  In the shell, an empty first line writes before the table, a
fork that fails is waited for, Ctrl-D reads a null line, and a literal is freed
when a redirection is followed by an operator or an `&` comes after the error.  In
the exercises, Ctrl-C before `pause()` is lost (`exo1.c:30-33`); Peterson's flags need a fence; `mycopy.c:21` tests a descriptor
with 0 and loops on an error; the receiver of `q1.c` starts with a pointer that
was never set; a client of the shared memory may come before the server has
written.  At the FTP prompt the end of the input repeats the last line
(`client.c:93`).  The properties name these cases where they exclude them.

### 3.2 Bounds

* `projects`: lines of four characters and pipes of three and four commands, then
  one of four second lines: each operator meets each other, two pipes, a background
  job under a foreground one.  `MaxCmd` = 3 stands for the 10 of `jobs.h`: a line that
  fills the arrays and one that is too long by one; `MaxChars` = 13 with what `malloc`
  left (0 or 4 characters): lines that fit, that fit or not, and that never do.  Two
  lines at the FTP prompt with each command complete or not, and three of those that
  ask for something.  Two slaves wanted and three started, two clients.  One wrapped
  call that ends the program, after any others.
* `exercises`: `MaxPids` = 8, and six processes are the most a program makes;
  `NPROC` is 3 in the pool: a first, a last and one in the middle.  Two lines typed.
  Files of five bytes with `BufSize`, `MaxLine` and `WireSize` of 3: a line that
  fits, one that is cut, a refill inside a line.  A clock of 8 ticks: each start, each
  length below one turn.
* `Size` and `MaxLine`: 7 bytes with chunks of 2 give full chunks, a
  short last one, a cut in the first chunk (where the offset would be negative)
  and in each later one.  The theorems lift the bound.
* `MaxCmds` = 3: a command, one that it disturbs, and one more or the exit; files
  of 5 and 13 bytes are one short chunk, and a full one and a short one.
  MKDIR stands for the commands that take a name and are not answered, LS for
  those answered by text.
* `MaxRecords` = 1 in `FtpMaster`: one cut transfer at a time.  The list has at
  most one node, for which `remove_by_ip` removes the head; longer lists are
  `StockIp`'s.
* `MaxOwed` = 2 in `FtpMaster`: transfers of one client cut and not resumed, which a
  resume that fails leaves behind; one such, and one more beside it.
* `TubeBound` (`FtpMaster`): as many addresses in the pipe as there are clients.
* `MaxNodes` = 3 in `StockIp`: head, second and third node are the three cases
  of `remove_by_ip`, and a freed node can be handed out again while two others
  are in the list.
* Two slaves and two clients make the reports of one slave meet the dispatch to
  the other; one slave makes every dispatch meet its own former session.

### 3.3 Fairness

Weak fairness of the dispatcher, of each slave, of the two transfer loops and of
both sides of a session: a
process runs until it blocks and a `select` returns after its timeout.  A
client's calls that follow at once (`Listen`) are fair; what a user or a fault
decides (`Dial`, commands, `ClientVanish`, keys, a fork that fails, ...) is not.
In `exercises` each process and the two ends of a stream, in `projects` the shell, its
children, its handler, the two transfer loops and the FTP's processes are fair in the
same way; the commands of a job end some day.  `SlaveEndSession` is
fair because `LONG_TIMEOUT` ends a session without commands.

## 4. What is proved

Every safety property of a passing run is also a theorem: of every value of the
constants that the named assumptions admit and, where a section says so, under a
hypothesis on the faults (`~Fragment`, `Punctual`, `Unharmed`).  `PROJECT.json` lists the results,
with the property each one states.  The liveness properties stay with TLC (4.9).

### 4.1 `FtpProofs`: the transfer

For every `Size`, `MaxLine` and set of `Faults`, under
`~Fragment` (a read returns what one write sent), from the three named
assumptions on the constants:

| theorem | statement |
|---|---|
| `TransferInvariant` | `Spec => []IInv` |
| `TransferTypeOK`, `TransferResumeOffsetSafe`, `TransferFileIntegrity`, `TransferNoStrayAck` | the invariants of the transfer (`projects`) |
| `TransferSuccessMeansDelivered` | its action property |

None of the four invariants is inductive.  `IInv` adds what the two loops know
of each other: at most one unread acknowledgement, and only while the slave
waits for it (`AckInv`); the client's copy holds what the slave has had
acknowledged (`SentInv`); in a transfer the client's offset plus the bytes on
their way is the slave's offset (`RecvInv`); a chunk or its acknowledgement is
on the way, never both (`LockStepInv`); who is at the other end of an open
connection (`SocketInv`, `OpenInv`, `ExitInv`, `PromptInv`).  The step is proved
for the slave's actions and the client's actions separately, one named step per
action.  `ReadExtends` is the fact about data: a read at the client's offset
extends the correct prefix of its copy.

### 4.2 `ProgramProofs`: the shells

`ShellNeverWaitsForNobody`: `ShellSpec => []NoLostChild`, for every set of
lines, number of lines and keys, and every size of the arrays (`ArraysAssumption`).
The shell leaves the properties when a line is longer than the arrays, to `overrun`;
for the sizes of the code this is a line of more than 10 commands or of about 500
characters.  `NoLostChild` speaks of the wait
alone; `JobInv` follows the job to it.  Before the first fork of a line it has no
child (`FirstOne`); from the first fork to the wait it has one, unless a fork
failed (`HasKid`); while the job is not marked finished, each of its children
is alive or `SIGCHLD` is pending (`KidsTold`); a line without commands meets the
flags of a job that is over (`JobOver`); and `LineHasCommand`, `Typed`.  The
steps are proved in four groups: reading a line, forking, waiting, and what
children and signals do, the last with lemmas on the change of one child
(`OneKidMoves`) and of several (`KidsMoved`).

`ForegroundIsWaitedFor`: `ShellSpec => []ForegroundAlone`, for the same
instances.  `ForegroundInv` counts the children that are left (`Left`): in
`shell.c` with lines of one command there is at most one, and it is the job's
(`JobAlone`); in `tst.c` there are at most as many as waits to come
(`WaitsAlone`).  It uses `JobInv`.

### 4.3 `FtpMasterProofs` and `FtpMasterCallProofs`

For any number of slaves and clients, and of records unless said otherwise.

| theorem | statement | for |
|---|---|---|
| `FreeSlaveIsFree` | `Spec => []FreeSlaveHasNoClient` | every set of faults |
| `BusySlaveIsBusy` | `Spec => []BusySlaveHasClient` | `Punctual`: no client vanishes in a resume or while it is dialled (`master_resume` shows the violation otherwise) |
| `AddressGoesToIdleSlave` | `Spec => HandsToIdleSlave` | `Punctual` |
| `RecordsAreOwed` | `Spec => []RecordedIsOwed` | `Unharmed` (clients vanish in sessions only, as in `master_healthy`) and `MaxRecords <= 1` |
| `CutIsRecorded` | `Spec => []OwedIsRecorded` | the same |

Slaves that end, with an upload that was cut for instance, are in all of these: the
properties speak of those that are alive, and the table has to hold whatever the
others' sockets give.  What `busy[i]` means is decided by what is between the dispatcher and slave `i`,
and neither property says anything while the dispatcher talks to it.
`SocketInv` is therefore a table (`Matched`): for each wait of the dispatcher
(`AsksClient`, `AsksResume`, `AsksName`, `Reports`, and the slaves it is not
talking to, `Free` and `Busy`), where the slave may block and what the two
directions of the socket then hold.  `ScanSound` adds what the scan of the
descriptors relies on: a slave that was seen readable still is.  The second
module adds the clients (`CallInv`): an address is in the tube once and its
client waits (`TubeSound`), the slave that was given an address has this client
at the other end (`Connected`), and the rows of the table that disappear when
clients are punctual (`Prompt`), with one row that a session without a report adds:
a slave that is idle, marked busy and `untold`, from which at most the `OK` of its
first answer is still to be read (`NeverTold`).  The third theorem is about the same
invariant; only the hand-over makes the step it is about (`OnlyDispatch`).

The last two are about the records, and need one fact more about slaves that end:
the dispatcher waits for a slave that is alive, or whose end its first write has just
found, so that its next write ends it (`Standing`).  `OwedIsRecorded` speaks of the moments when
nothing is on its way, so the invariant (`DebtInv`) says where a transfer is in
between: what a client is owed is the sum of what the list holds for it, what a
slave reports for it (`InReport`: until the dispatcher has read the name, even
if the slave is idle again) and what a slave resumes for it (`Resuming`: from the
moment the record is removed, which is before the slave has read the offset), and
what the resumes that failed have taken with them (`dropped`).
That sum (`Ledger`) is kept by each hand-over because the dispatcher notes the
address of the slave that reports and removes that of the slave that resumes
(`ForClient`), and because a client is at one end of one connection
(`OneResumes`).  `MaxRecords <= 1` is the domain of the model: the bound
`RecordRoom` keeps the list at one place, so that `RemoveByIp` needs the match at
the head only; the other shapes of the list are `StockIp`'s.  TLC checked `DebtInv`
as an invariant of `master_healthy` before it was proved.

### 4.4 `FtpSessionProofs`

For every set of commands, number of them, file sizes, `MaxLine` and set of
faults, from `SessionAssumption` alone:

| theorem | statement |
|---|---|
| `SessionInvariant` | `Spec => []SessionInv` |
| `NoMessageIsMistaken` | `Spec => []InStep` |
| `SlaveExecutesTyped` | `Spec => []ExecutesTyped` |
| `DownloadIsWhole` | `Spec => GetDeliversInStep` |

Nothing in a message says what it is for, so that an invariant about the kind of
the next message is not inductive: it needs what both sockets hold and where
both sides block.  `SessionInv` lists the joint states of the two loops in ten
phases: `AtPrompt`, `Asked`, `Leaving`, `Granted`, `Shown`, `Swallowed`,
`Download`, `Upload`, `Gone` and `Ended`.  In `Download` the bytes the client has,
the chunk or the acknowledgement under way and what each side still expects make
up the file (`CopyIs`); in `Upload` the client is one acknowledgement ahead.
The list holds while the session is `Calm`, without the two things that run the
sides apart for good (a command after an upload, a command sent ahead), and
until an interruption has ended the client; each property says which of the
unusual things (`met`) it excludes, and each of those implies `Calm`.

### 4.5 `StockIpProofs`

For every set of addresses and offsets and every size of the heap:

| theorem | statement |
|---|---|
| `PointersStayInHeap` | `Spec => []HeapTypes` |
| `TightListIsTheAbstractList` | `Spec => TightListImplements` |
| `DispatcherFailsOnlyWhenDangling` | `Spec => FailsOnlyWhenDangling` |

The second is the refinement of `UnfinishedTransfers`, step by step:
`RegisterImplements` and `ResumeImplements`.  The only invariant is that the
pointers stay in the heap, which holds however many nodes dangle; the work is
about the walks.  A list that ends passes no node twice (`NodesDistinct`); adding
puts one address in front of the path (`RegisterPath`); removing takes one out of
it (`PathWithoutHead`, `PathWithoutNode`), and that is the abstract step
(`RemovesOne`).  For the loop of `remove_by_ip`, `Stands` says that after `j` turns
it stands on node `j + 1` and has not touched what follows, so that it ends
(`WalkEnds`); `HasDone` says what the heap is before and after the one match
(`WalkDoes`).  A match on the second node is where the code frees a node that
stays in the list: `RemoveBelowHead` shows that the list is then not tight.
`Path` and `Walk` are recursive functions; they are unfolded by `PathFromFollows`
and `WalkUnfold`, and facts about their values are proved by an induction on the
set of the steps that satisfy them (`Induction`, from the least element of a set
of naturals, `LeastNat`), which needs no operator as a parameter.

### 4.6 `ProgramProofs` and `FtpProofs`: streams, start and tools

`NoByteIsLost`: `RioSpec => []StreamIntegrity`, for every file over the alphabet
of `RioAssumption` and every size of the buffers.  A step moves a piece from the
front of one of the five places of a byte to the back of the next (`Cut`,
`Moves`).  `StreamInv` adds that nothing is on its way before the file is open
(`NothingYet`) and that `rio_readnb` never holds more than it was asked for
(`AskedFor`).

`SlavesAndTubeAreWatched`: `StartupSpec => []DispatcherSeesAll`, for every
`NbEsclave`, set of slaves started and of clients.  `SlavesTaken` says that the
entries of `fd_slave` are different slaves, `QueueSound` that a slave not yet
accepted is not among them, `RoomLeft` how many descriptors are open in each
stage, so that the kernel has one to give (`LowestIsFree`), `Ready` what the
dispatcher starts with.

`FailureIsToldHolds`: `CallSpec => []FailureIsTold`, for every sequence of calls
through the wrappers of `csapp.c` and a handler at any moment.  While a wrapper runs,
`CallInv` says what its call gave: if that is a failure, its cause is in the place its
manual names, and only a handler can have taken it from there (`GaveResult`).  That
the wrapper passes the successes and nothing else, and that its error function looks
in that place, is read from the tables: a wrapper stands in one group (`OneGroup`), so
that its failures and its cause are looked up in one row (`Found`).

`TheTruthIsPrinted`: `ToolSpec => []PrintsTheTruth`, for every `Wrap`, start of the
clock and duration below a turn, and every mode of a file.  `ToolInv` relates the
two readings to the time that elapsed, modulo `Wrap`; for a mode, each of the nine
places of the text is one right (`NineBits`, `LettersMean`).

### 4.7 `ProgramProofs`: lines and what they ask

| theorem | statement | assumes |
|---|---|---|
| `LineWordsHold` | `ShellSpec => []LineWords` | lines are sequences of characters (`LinesAssumption`), `BufLen >= 2` |
| `WordsOwnedOnceHolds` | `ShellSpec => []WordsOwnedOnce` | the same |
| `SendsWhatIsTypedHolds` | `PromptSpec => []SendsWhatIsTyped` | `InputsAssumption`: what is typed and what `cmd[]` holds are characters |

TLC tries lines of four characters; these are about every line.  (A line of
more than `INT_MAX / 2` characters ends the shell at `readcmd.c:56`, which is not
modelled.)  The parsers are recursive functions, whose value is known only
through their equation.  Each proof has the same three steps: the function
exists (`ReadsExists`, `SplitsFromExists`, `FreesExists`, `LoopsExists`,
`AsksExists`), it satisfies its equation, and a statement about its values is
true of each length, by `Induction` over the set of the lengths for which it is.

* Reading.  `fgets` takes some of every input and stops at the first line feed,
  at the end or where its buffer is full (`FgetsReads`); so the place where the
  buffer is enlarged neither loses nor repeats a character (`TakenIs`), and the
  line is the first one (`LineIsRead`).
* Words.  From each character on, the words found lie behind one another, cover
  what is not blank and stop where they should (`WordsFrom`, `LineIsSplit`).
* Ownership.  `Turned` is the invariant of the loop of `readcmd`: up to the word
  it has reached, or at which it has met an error, the structure under
  construction has each allocated word once and at one place (`Holds`), also
  while a redirection waits for its file name.  `OwnedOnce` adds what the two
  ends do with it: `freecmd` for the structure returned, the error path for the
  words behind the error and for those already kept.  A literal reaches `free`
  only where `NamesItsFiles` is false.
* Prompt.  `PromptInv`: what was sent is what the text asks up to the last
  character taken (`Asked`), with the arguments of the requests that were accepted
  (`Written`), or, while a line is parsed, will be once this line is executed; no
  father waits.  `WantedIs` compares the switch of `client.c`
  with the table of what each command needs, `LineAsks` says that a line adds
  its own request at its end and nothing before.

### 4.8 `ProcessProofs` and `ExerciseProofs`

For any number of processes (`MaxPids`) and of keys (`MaxTyped`).

| theorem | statement |
|---|---|
| `ProcessesTyped` | `ProcSpec => []ProcTypeOK` |
| `OneAtATimeHolds` | `ProcSpec => []OneAtATime` |
| `RelayCompleteHolds` | `ProcSpec => []RelayComplete` |
| `ParentsReapHolds` | `ProcSpec => []ParentsReap` |
| `CallsInOrderHolds` | `ProcSpec => []CallsInOrder` |

`ProcessProofs` is about the machine, whichever program it runs.  A call is
stated by the fields of the processes that it leaves alone (`Keeps`, `Others`,
`Jumps`), and what it does to a program is then read from the program's table.
`ProcTypeOK` says that a running process is at a label of its program, that it is
in a handler only with a frame to return to, and whose handlers and signals it
has (`Placed`); it holds for every program because each table is closed under
its targets.  `SilentOK` is what programs without `kill` and `alarm` have for
granted, that no signal is ever pending; and `SIGCHLD` is caught by `signal1`
only.

`ExerciseProofs` has an invariant for each program, which holds trivially when
another runs:

* `PetersonSafe`, which makes mutual exclusion inductive with store buffers: what
  the memory and the buffer of a process hold at each of its labels
  (`Buffered`), and that one in its section has given the turn to the other as
  soon as the latter's two stores have reached the memory (`Excludes`).  The
  exclusion is claimed as long as no load overtook a store (`early`), for the
  algorithm without a fence is wrong on x86.
* `PoolSafe` of `echoserveri.c`: until the first `handler_kill` the processes are
  a chain, each but the last waiting for the next (`Chained`), so that the last one
  alone accepts or serves; if it ends, by a failure or by SIGPIPE, the one before
  it becomes the last.  From `handler_kill` on each process is to be killed
  (`Doomed`), so that none begins to serve.
* `RelaySafe` of `q3.c`: the numbers of the lines are cut in consecutive pieces,
  displayed, in the child's buffer, in the pipe, in the father's buffer
  (`Content`); who holds which end of the pipe follows from the label
  (`EndsAt`), so that the end of file is seen after the last line only.
  `CopySafe` of `mycopy.c`.
* `Family`: whoever has children runs, at a label from which it still waits for
  them (`Parenting`); `Childless` and `CounterSafe` for the two programs where
  this depends on what failed or on a signal.
* `CounterSafe`, `SlowOK`, `ShmOK`, `MaskOK`, `StatusOK`, `BeepOK` and
  `DialogueOK` for the orders: a signal has come, is pending or will be sent
  (`Told`); no star is in the memory or in a buffer before it was put there
  (`Starless`); which handler can interrupt which (`Nested`).

### 4.9 Only model-checked

Liveness is out of the prover's reach: `TransferEnds`, `ReceptionEnds`,
`SlaveReleased`, `UploadArrives`, `SessionReported`, `ClientAnswered`,
`DispatcherReturns`, `SlaveFreed`, `ProgramsEnd`, `PromptReturns`,
`ReaderGetsAll` and `StartupEnds` are checked by TLC on the instances of
section 3.  So are the five violations, of which each is one counterexample.

## 5. Plan

1. Consecutive sessions of one slave: the working directory that only EXIT
   resets (`slave.c:128`), the copy that is never truncated.
2. A slave slower than `SHORT_TIMEOUT` in the report and resume exchanges.

## 6. Not modelled

* The Java, OCaml and Coq parts (`Algo6`, `RO`, `Prog6`, `Ressources`, `MCal`):
  sequential algorithms and containers, which unit tests reach; Kruskal, the
  chained hash table and Sokoban's moves would be the first.
* `SR/TD4/prog.c`, which does not compile, and `SR/TP1/ex1.c`, which keeps no state; the
  functions of `tell_wait.c` that no program calls.
* The file system (what rm, mkdir and cd do, redirections' files), failures of
  `fstat`, formatting and printing; `rio_readn`, which nothing calls.
* `csapp.c` is mapped in one copy per group of wrappers; the copies differ in
  `open_clientfd` and its address helpers, which is modelled in both forms.
