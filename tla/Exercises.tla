----------------------------- MODULE Exercises -----------------------------
(***************************************************************************)
(* The system-programming exercises of SR/TP* and SR/TD* as programs: a    *)
(* program is a table from a label to the call it makes there and to the   *)
(* labels that may follow.  Processes runs them.                           *)
(*                                                                         *)
(* A label stands for one system call, or for the computation between two  *)
(* of them; what is printed is left out.  A variable is named as in the C  *)
(* code.  "main" is where a program starts, "unix_error" the end the       *)
(* wrappers of csapp.c give it when a call fails.                          *)
(***************************************************************************)
EXTENDS Integers

-----------------------------------------------------------------------------
(* The calls.                                                              *)

Step(next) == [op |-> "step", next |-> next]
\* What the code leaves to the file system, to its user or to chance.
Choose(a, b) == [op |-> "choose", next |-> a, other |-> b]
Set(reg, val, next) == [op |-> "set", reg |-> reg, val |-> val, next |-> next]
If(reg, val, then, else) ==
    [op |-> "if", reg |-> reg, val |-> val, next |-> then, other |-> else]
\* The end of a loop: reg++, once more while reg < bound.
Loop(reg, bound, again, out) ==
    [op |-> "loop", reg |-> reg, val |-> bound, next |-> again, other |-> out]

Fork(child, next, fail) ==
    [op |-> "fork", child |-> child, next |-> next, other |-> fail]
Exit == [op |-> "exit"]
Segv == [op |-> "segv"]
\* waitpid(-1): another label when there is no child.
Wait(next, none) == [op |-> "wait", next |-> next, other |-> none]
WaitNoHang(next) == [op |-> "poll", next |-> next]

Handle(sig, label, next) ==
    [op |-> "handle", sig |-> sig, label |-> label, next |-> next]
Return == [op |-> "return"]
Block(sigs, next) == [op |-> "block", sigs |-> sigs, next |-> next]
Unblock(sigs, next) == [op |-> "unblock", sigs |-> sigs, next |-> next]
IfPending(sig, then, else) ==
    [op |-> "pending", sig |-> sig, next |-> then, other |-> else]
Kill(whom, sig, next, fail) ==
    [op |-> "kill", whom |-> whom, sig |-> sig, next |-> next, other |-> fail]
Pause(next) == [op |-> "pause", next |-> next]
Sleep(next) == [op |-> "sleep", next |-> next]
Alarm(next) == [op |-> "alarm", next |-> next]

Pipe(chan, next) == [op |-> "pipe", chan |-> chan, next |-> next]
Close(chan, end, next) ==
    [op |-> "close", chan |-> chan, end |-> end, next |-> next]
Write(chan, next) == [op |-> "write", chan |-> chan, next |-> next]
Read(chan, next, eof) == [op |-> "read", chan |-> chan, next |-> next, other |-> eof]
Input(next, eof) == [op |-> "input", next |-> next, other |-> eof]
\* On the screen: all that was read, or what precedes the first '\0' of it.
Show(next) == [op |-> "show", next |-> next]
ShowString(next) == [op |-> "showstring", next |-> next]

Store(cell, val, next) ==
    [op |-> "store", cell |-> cell, val |-> val, next |-> next]
Load(cell, val, then, else) ==
    [op |-> "load", cell |-> cell, val |-> val, next |-> then, other |-> else]

\* Has another process made that call yet?
IfSeen(label, then, else) ==
    [op |-> "passed", label |-> label, next |-> then, other |-> else]

\* Accept(), which clients may make return and which may fail.
Accept(next) == [op |-> "accept", next |-> next, other |-> "unix_error"]

\* The wrappers of csapp.c: exit(0) when the call fails.
WFork(child, next) == Fork(child, next, "unix_error")
WKill(whom, sig, next) == Kill(whom, sig, next, "unix_error")
WWait(next) == Wait(next, "unix_error")

-----------------------------------------------------------------------------
(* tell_wait.c: each side tells the other with a signal, whose handler     *)
(* sets a flag, and waits for the flag in sigsuspend.                      *)

\* sigsuspend(), with the mask of before init_synchro.
Suspend(next) == [op |-> "suspend", next |-> next]

Mut_NoWait(flag, then) == Step(then)
\* while (flag == 0) sigsuspend(&oldmask);
WaitFlag(flag, then) == If(flag, 0, "suspend", then)

TellChild(next) == Kill("pid", "USR2", next, next)
WaitParent(then) == WaitFlag("sigflag_parent", then)

Mut_InitWithoutMask(next) == Step(next)
\* The last call of init_synchro, which the handlers precede.
InitMask(next) == Block({"USR1", "USR2"}, next)

\* TD4/slow_write.c: the father writes first.  Two characters stand for each
\* of the two lines.
SlowWrite ==
    [main   |-> Handle("USR1", "sigusr1", "init"),
     init   |-> Handle("USR2", "sigusr2", "mask"),
     mask   |-> InitMask("fork"),
     fork   |-> WFork("wait", "father"),
     wait   |-> WaitParent("reset"),
     suspend |-> Suspend("wait"),
     reset  |-> Set("sigflag_parent", 0, "son"),
     son    |-> Loop("i", 2, "son", "end"),
     father |-> Loop("i", 2, "father", "tell"),
     tell   |-> TellChild("end"),
     sigusr1 |-> Set("sigflag_child", 1, "back"),
     sigusr2 |-> Set("sigflag_parent", 1, "back"),
     back   |-> Return,
     end    |-> Exit]

-----------------------------------------------------------------------------
(* Shared memory: the cells of the segment 5678.                           *)

C1 == 0
C2 == 1
Tpet == 2

Mut_EntersWithoutTurn(cell, turn, wait, enter) == Load(cell, 0, enter, enter)
\* while (shm[other] == 1 && shm[T_pet] == turn): the second load is made at
\* the label wait.
TestFlag(cell, turn, wait, enter) == Load(cell, 1, wait, enter)

\* TP5/peterson.c.
Peterson ==
    [main   |-> Store(C1, 0, "init2"),
     init2  |-> Store(C2, 0, "init3"),
     init3  |-> Store(Tpet, 1, "fork"),
     fork   |-> WFork("flag1", "flag2"),
     flag1  |-> Store(C1, 1, "turn1"),
     turn1  |-> Store(Tpet, 2, "test1"),
     test1  |-> TestFlag(C2, 2, "his1", "section1"),
     his1   |-> Load(Tpet, 2, "test1", "section1"),
     section1 |-> Sleep("leave1"),
     leave1 |-> Store(C1, 0, "end"),
     flag2  |-> Store(C2, 1, "turn2"),
     turn2  |-> Store(Tpet, 1, "test2"),
     test2  |-> TestFlag(C1, 1, "his2", "section2"),
     his2   |-> Load(Tpet, 1, "test2", "section2"),
     section2 |-> Sleep("leave2"),
     leave2 |-> Store(C2, 0, "reap"),
     reap   |-> Wait("end", "end"),
     end    |-> Exit]

Star == 9

\* TP5/shm_server.c; 'a' and 'b' (1 and 2) stand for the alphabet.
ShmServer ==
    [server |-> Step("put_a"),
     put_a  |-> Store(0, 1, "put_b"),
     put_b  |-> Store(1, 2, "put_0"),
     put_0  |-> Store(2, 0, "poll"),
     poll   |-> Load(0, Star, "served", "nap"),
     nap    |-> Sleep("poll"),
     served |-> Exit]

\* TP5/shm_client.c, started by hand: shmget() fails before the server has
\* made the segment.
ShmClient ==
    [client |-> IfSeen("server", "get_a", "exit1"),
     exit1  |-> Exit,
     get_a  |-> Load(0, 0, "star", "get_b"),
     get_b  |-> Load(1, 0, "star", "get_0"),
     get_0  |-> Load(2, 0, "star", "get_0"),
     star   |-> Store(0, Star, "end"),
     end    |-> Exit]

-----------------------------------------------------------------------------
(* Signals.                                                                *)

\* TP5/mask.c: the loop over sigpending stops at 7, SIGUSR1 is 10.
Mask ==
    [main    |-> Handle("INT", "sigint", "handle2"),
     handle2 |-> Handle("USR1", "sigusr1", "block"),
     block   |-> Block({"INT", "USR1"}, "kill1"),
     kill1   |-> WKill("self", "INT", "kill2"),
     kill2   |-> WKill("self", "USR1", "pending"),
     pending |-> IfPending("INT", "printed", "unblock"),
     printed |-> Step("unblock"),
     unblock |-> Unblock({"INT", "USR1"}, "nap"),
     nap     |-> Sleep("end"),
     sigint  |-> Return,
     sigusr1 |-> Return,
     end     |-> Exit]

\* TP2/counterprob.c: five signals, a handler that takes its time.
Counterprob ==
    [main    |-> Handle("USR2", "handler", "fork"),
     fork    |-> WFork("kill", "wait"),
     kill    |-> WKill("parent", "USR2", "sent"),
     sent    |-> Loop("i", 5, "kill", "end"),
     wait    |-> WWait("print"),
     print   |-> Step("end"),
     handler |-> Loop("counter", 0, "nap", "nap"),
     nap     |-> Sleep("back"),
     back    |-> Return,
     end     |-> Exit]

Sons == 3

\* TP2/signal1.c: each SIGCHLD reaps one child.  Three children stand for the
\* five.
Signal1 ==
    [main    |-> Handle("CHLD", "handler", "fork"),
     fork    |-> WFork("son", "next"),
     son     |-> Sleep("end"),
     end     |-> Exit,
     next    |-> Loop("i", Sons, "fork", "pause"),
     pause   |-> Pause("pause"),
     handler |-> WaitNoHang("nap"),
     nap     |-> Sleep("back"),
     back    |-> Return]

\* TP2/exo1.c 1.1, and TD2/exo2.c: a sleep that Ctrl-C may cut short.
SleepExercise ==
    [main    |-> Handle("INT", "handler1_1", "sleep"),
     sleep   |-> Sleep("end"),
     handler1_1 |-> Return,
     end     |-> Exit]

\* TP2/exo1.c 1.2.
PauseExercise ==
    [main    |-> Handle("INT", "handler1_2", "pause"),
     pause   |-> Pause("end"),
     handler1_2 |-> Return,
     end     |-> Exit]

Beeps == 2

\* TD2/alarm.c: two beeps stand for six.
Beep ==
    [main    |-> Handle("ALRM", "Handler", "test"),
     test    |-> If("nbsig", Beeps, "bye", "set"),
     set     |-> Alarm("sleep"),
     sleep   |-> Sleep("test"),
     Handler |-> Loop("nbsig", 0, "back", "back"),
     back    |-> Return,
     bye     |-> Exit]

-----------------------------------------------------------------------------
(* Processes.                                                              *)

\* fork() and wait() called as they are: a fork that fails goes the father's
\* way, a wait without children returns at once.
RawFork(child, next) == Fork(child, next, next)
RawWait(next) == Wait(next, next)

\* TP1/waitpid1.c, with son |-> exit(100+i); TP2/waitpid1.c, where the
\* children write through a null pointer.
WaitpidOf(son) ==
    [main   |-> WFork("son", "next"),
     son    |-> son,
     next   |-> Loop("i", 2, "main", "wait"),
     wait   |-> Wait("status", "end"),
     status |-> If("status", 0, "normal", "abnormal"),
     normal |-> Step("wait"),
     abnormal |-> Step("wait"),
     end    |-> Exit]

Waitpid1 == WaitpidOf(Exit)
Waitpid1Segv == WaitpidOf(Segv)

Mut_WaitForgotten(next) == Step(next)
\* The wait after each fork of ex4.c.
WaitSon(next) == RawWait(next)

\* TP1/ex4.c: each process waits for its child before it makes another.
Ex4 ==
    [main    |-> RawFork("fils1", "wait1"),
     fils1   |-> RawFork("petit1", "fwait1"),
     petit1  |-> RawWait("end"),
     fwait1  |-> WaitSon("fork2"),
     fork2   |-> RawFork("petit2", "fwait2"),
     petit2  |-> RawWait("end"),
     fwait2  |-> WaitSon("end"),
     wait1   |-> WaitSon("again2"),
     again2  |-> RawFork("fils2", "wait2"),
     fils2   |-> RawWait("end"),
     wait2   |-> WaitSon("again3"),
     again3  |-> RawFork("fils3", "wait3"),
     fils3   |-> RawWait("end"),
     wait3   |-> WaitSon("end"),
     end     |-> Exit]

\* TP1/ex3.c 3.1: the same family, whose father waits for nobody.
Ex3 ==
    [main    |-> RawFork("fils1", "again2"),
     fils1   |-> RawFork("petit1", "fwait1"),
     petit1  |-> RawWait("end"),
     fwait1  |-> WaitSon("fork2"),
     fork2   |-> RawFork("petit2", "fwait2"),
     petit2  |-> RawWait("end"),
     fwait2  |-> WaitSon("end"),
     again2  |-> RawFork("fils2", "again3"),
     fils2   |-> RawWait("end"),
     again3  |-> RawFork("fils3", "end"),
     fils3   |-> RawWait("end"),
     end     |-> Exit]

Levels == 3

\* TP1/ex3.c 3.3 arbre: the child goes on; so does a process whose fork failed.
Arbre ==
    [main |-> Fork("next", "wait", "next"),
     next |-> Loop("i", Levels, "main", "wait"),
     wait |-> RawWait("end"),
     end  |-> Exit]

\* TP1/ex3.c 3.3 chaine: the father goes on.
Chaine ==
    [main |-> RawFork("end", "wait"),
     wait |-> RawWait("next"),
     next |-> Loop("i", Levels, "main", "last"),
     last |-> RawWait("end"),
     end  |-> Exit]

\* TP1/ex2.c: the loop over the environment starts at an uninitialised index.
Ex2 ==
    [main |-> Choose("end", "wild"),
     wild |-> Segv,
     end  |-> Exit]

NPROC == 3

Mut_PoolWithoutWait == Step("next")
\* The father's wait(NULL) between two forks.
PoolWait == RawWait("next")

\* TP7/echoserveri.c: the pool, and handler_kill.  tab is filled by each child
\* in its own copy.  The kills of handler_kill are one step.  What passes on a
\* connection is Rio's; a wrapped call of it may fail, Getnameinfo for one, and
\* a client that has gone makes a write raise SIGPIPE.
Echoserveri ==
    [main   |-> Handle("INT", "handler_kill", "fork"),
     fork   |-> RawFork("fils", "pere"),
     fils   |-> Set("tab", "self", "next"),
     pere   |-> PoolWait,
     next   |-> Loop("i", NPROC, "fork", "who"),
     who    |-> If("pid", 0, "accept", "reap"),
     accept |-> Accept("echo"),
     echo   |-> Choose("accept", "broken"),
     broken |-> Choose("unix_error", "sigpipe"),
     sigpipe |-> Segv,
     reap   |-> RawWait("reap2"),
     reap2  |-> RawWait("reap3"),
     reap3  |-> RawWait("end"),
     handler_kill |-> Kill("tab", "INT", "end", "end"),
     end    |-> Exit]

-----------------------------------------------------------------------------
(* Pipes.                                                                  *)

\* TP3/tube_simple.c: one integer.
TubeSimple ==
    [main   |-> Pipe("tube", "fork"),
     fork   |-> Fork("fils", "pere", "end"),
     fils   |-> Close("tube", "w", "read"),
     read   |-> Read("tube", "printf", "printf"),
     printf |-> Show("close"),
     close  |-> Close("tube", "r", "end"),
     pere   |-> Close("tube", "r", "random"),
     random |-> Input("write", "write"),
     write  |-> Write("tube", "close2"),
     close2 |-> Close("tube", "w", "end"),
     end    |-> Exit]

\* TP3/pipe.c: each read of the terminal is sent as one string; the father
\* waits for nobody.
PipeStrings ==
    [main   |-> Pipe("fd", "fork"),
     fork   |-> RawFork("fils", "pere"),
     pere   |-> Close("fd", "r", "input"),
     input  |-> Input("write", "end"),
     write  |-> Write("fd", "input"),
     fils   |-> Close("fd", "w", "read"),
     read   |-> Read("fd", "lu", "end"),
     lu     |-> ShowString("read"),
     end    |-> Exit]

\* TD3/ex4.c: a message each way; the writing end of fd2 is closed by nobody.
Dialogue ==
    [main   |-> Pipe("fd", "pipe2"),
     pipe2  |-> Pipe("fd2", "fork"),
     fork   |-> RawFork("fils", "pere"),
     pere   |-> Close("fd", "r", "bufout"),
     bufout |-> Input("write", "write"),
     write  |-> Write("fd", "read2"),
     read2  |-> Read("fd2", "end", "end"),
     fils   |-> Close("fd", "w", "read"),
     read   |-> Read("fd", "answer", "answer"),
     answer |-> Write("fd2", "end"),
     end    |-> Exit]

Mut_PipeLeftOpen(next) == Step(next)
\* "fermeture de l'entree du tube" (q3.c:38).
CloseTube(next) == Close("pipe1", "w", next)

Mut_ReadOnce == Show("close")
\* The body of the child's loop (q3.c:22).
ShowAll == Show("read")

\* TP6/q3.c: what is typed goes through the pipe to the child, which prints it.
Relay ==
    [main   |-> Handle("USR1", "Traitant", "pipe"),
     pipe   |-> Pipe("pipe1", "fork"),
     fork   |-> WFork("fils", "pere"),
     fils   |-> Close("pipe1", "w", "read"),
     read   |-> Read("pipe1", "screen", "close"),
     screen |-> ShowAll,
     close  |-> Close("pipe1", "r", "end"),
     pere   |-> Close("pipe1", "r", "input"),
     input  |-> Input("write", "eof"),
     write  |-> Write("pipe1", "input"),
     eof    |-> CloseTube("wait"),
     wait   |-> WWait("end"),
     Traitant |-> Return,
     end    |-> Exit]

\* TD3/mycopy.c: open() returns -1, not 0, when it fails, and read() of it -1.
Mycopy ==
    [main  |-> Choose("read", "lost"),
     read  |-> Input("write", "end"),
     write |-> Show("read"),
     lost  |-> Step("lost"),
     end   |-> Exit]

-----------------------------------------------------------------------------
\* Two programs at once, whose labels are not the same (@@ of TLC, which a
\* proof cannot expand).
Together(P, Q) ==
    [l \in DOMAIN P \cup DOMAIN Q |-> IF l \in DOMAIN P THEN P[l] ELSE Q[l]]

Programs ==
    {"slow_write", "peterson", "shm", "mask", "counterprob", "signal1", "exo2",
     "pause", "alarm", "waitpid1", "waitpid1_segv", "ex4", "ex3", "arbre",
     "chaine", "ex2", "echoserveri", "tube_simple", "pipe", "dialogue", "q3",
     "mycopy"}

Code ==
    [name \in Programs |->
        CASE name = "slow_write" -> SlowWrite
          [] name = "peterson" -> Peterson
          [] name = "shm" -> Together(ShmServer, ShmClient)
          [] name = "mask" -> Mask
          [] name = "counterprob" -> Counterprob
          [] name = "signal1" -> Signal1
          [] name = "exo2" -> SleepExercise
          [] name = "pause" -> PauseExercise
          [] name = "alarm" -> Beep
          [] name = "waitpid1" -> Waitpid1
          [] name = "waitpid1_segv" -> Waitpid1Segv
          [] name = "ex4" -> Ex4
          [] name = "ex3" -> Ex3
          [] name = "arbre" -> Arbre
          [] name = "chaine" -> Chaine
          [] name = "ex2" -> Ex2
          [] name = "echoserveri" -> Echoserveri
          [] name = "tube_simple" -> TubeSimple
          [] name = "pipe" -> PipeStrings
          [] name = "dialogue" -> Dialogue
          [] name = "q3" -> Relay
          [] name = "mycopy" -> Mycopy]

\* The label each of a program's first processes starts at.
Entries(name) == IF name = "shm" THEN <<"server", "client">> ELSE <<"main">>
=============================================================================
