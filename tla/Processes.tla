----------------------------- MODULE Processes -----------------------------
(***************************************************************************)
(* The machine that runs the programs of Exercises: the processes with     *)
(* their signals, the pipes, the shared memory and the terminal, as the    *)
(* code in SR/TP* and SR/TD* uses them, directly or through the wrappers   *)
(* of csapp.c.                                                             *)
(*                                                                         *)
(* Any process may take the next step.  A fork may fail, once.  The user   *)
(* types MaxTyped lines at most and strikes Ctrl-C once at most.  A store  *)
(* to the shared memory waits in the buffer of its processor (x86).        *)
(***************************************************************************)
EXTENDS Exercises, Sequences, FiniteSets, SequencesExt

CONSTANTS
    MaxPids,    \* processes a program may make
    MaxTyped    \* lines the user types

ASSUME ProcAssumption == MaxPids \in Nat /\ MaxTyped \in Nat

VARIABLES
    prog,       \* the program that runs
    procs,      \* the processes
    chan,       \* what each pipe holds
    shm,        \* the shared memory
    sbuf,       \* the stores of each process that are not in it yet
    early,      \* history: a load overtook an earlier store of its process
    seen,       \* history: the labels executed
    shown,      \* history: what was displayed
    typed,      \* lines typed
    asked,      \* the user has struck Ctrl-C
    failed      \* a fork has failed

memory == <<shm, sbuf, early>>
pipes == <<chan, shown, typed>>
faults == <<asked, failed>>
procVars == <<prog, procs, memory, seen, pipes, faults>>

Pids == 1..MaxPids
Signals == {"INT", "USR1", "USR2", "CHLD", "ALRM"}
Pipes == {"tube", "fd", "fd2", "pipe1"}
Cells == 0..2

Unborn ==
    [st |-> "none", pc |-> "main", ppid |-> 0, code |-> 0,
     regs |-> [i |-> 0, pid |-> 0, sigflag_parent |-> 0, sigflag_child |-> 0,
               counter |-> 0, nbsig |-> 0, status |-> 0,
               tab |-> [n \in 0..2 |-> 0]],
     mask |-> {}, pend |-> {}, hand |-> [s \in Signals |-> "default"],
     frames |-> <<>>, fds |-> {}, asleep |-> FALSE, alarm |-> FALSE,
     buf |-> <<>>]

-----------------------------------------------------------------------------
Instr(p) ==
    IF procs[p].pc = "unix_error" THEN Exit ELSE Code[prog][procs[p].pc]

Running(p) == procs[p].st = "run"
Blocked(p) ==
    IF procs[p].asleep /\ Instr(p).op = "suspend" THEN {} ELSE procs[p].mask
Deliverable(p) == procs[p].pend \ Blocked(p)

\* p makes that call: a signal that can be delivered is delivered first.
At(p, op) == Running(p) /\ Instr(p).op = op /\ Deliverable(p) = {}
\* A system call is made once the stores of the process are in memory.
Calls(p, op) == At(p, op) /\ ~ procs[p].asleep /\ sbuf[p] = <<>>

Mark(p) == seen' = seen \cup {procs[p].pc}
Go(p, label) == procs' = [procs EXCEPT ![p].pc = label] /\ Mark(p)

Children(p) == {q \in Pids : procs[q].ppid = p /\ procs[q].st \in {"run", "zombie"}}
Zombies(p) == {q \in Children(p) : procs[q].st = "zombie"}

\* A signal reaches the processes of Q, unless its default action is to do
\* nothing.
Sent(ps, Q, sig) ==
    [q \in Pids |->
        IF q \in Q /\ ps[q].st = "run" /\ (sig = "CHLD" => ps[q].hand[sig] # "default")
        THEN [ps[q] EXCEPT !.pend = @ \cup {sig}]
        ELSE ps[q]]

\* p ends: its children are orphans, its parent, if it has one, is told.
Dies(ps, p, code) ==
    LET parent == ps[p].ppid
        alone == [q \in Pids |->
            IF q = p
            THEN [Unborn EXCEPT !.st = IF parent = 0 THEN "gone" ELSE "zombie",
                                !.pc = "end", !.ppid = parent, !.code = code]
            ELSE IF ps[q].ppid # p THEN ps[q]
            ELSE IF ps[q].st = "run" THEN [ps[q] EXCEPT !.ppid = 0]
            ELSE [Unborn EXCEPT !.st = "gone"]]
    IN IF parent = 0 THEN alone ELSE Sent(alone, {parent}, "CHLD")

-----------------------------------------------------------------------------
(* Computation.                                                            *)

Compute(p) ==
    /\ \/ /\ At(p, "step")
          /\ Go(p, Instr(p).next)
       \/ /\ At(p, "choose")
          /\ \E label \in {Instr(p).next, Instr(p).other} : Go(p, label)
       \/ /\ At(p, "if")
          /\ Go(p, IF procs[p].regs[Instr(p).reg] = Instr(p).val
                   THEN Instr(p).next ELSE Instr(p).other)
       \/ /\ At(p, "passed")
          /\ Go(p, IF Instr(p).label \in seen
                   THEN Instr(p).next ELSE Instr(p).other)
    /\ UNCHANGED <<prog, memory, pipes, faults>>

Assign(p) ==
    /\ \/ /\ At(p, "set")
          /\ procs' = [procs EXCEPT
                ![p].regs = IF Instr(p).reg = "tab"
                            THEN [@ EXCEPT !.tab[@.i] = p]
                            ELSE [@ EXCEPT ![Instr(p).reg] = Instr(p).val],
                ![p].pc = Instr(p).next]
       \/ /\ At(p, "loop")
          /\ LET n == procs[p].regs[Instr(p).reg] + 1 IN
             procs' = [procs EXCEPT
                ![p].regs[Instr(p).reg] = n,
                ![p].pc = IF n < Instr(p).val THEN Instr(p).next ELSE Instr(p).other]
    /\ Mark(p)
    /\ UNCHANGED <<prog, memory, pipes, faults>>

-----------------------------------------------------------------------------
(* Processes.                                                              *)

\* The child has a copy of everything but the pending signals and the alarm.
ForkSon(p) ==
    /\ Calls(p, "fork")
    /\ \E q \in Pids :
        /\ procs[q].st = "none" /\ \A r \in 1..(q - 1) : procs[r].st # "none"
        /\ procs' = [procs EXCEPT
              ![p].pc = Instr(p).next, ![p].regs.pid = q,
              ![q] = [procs[p] EXCEPT !.ppid = p, !.pc = Instr(p).child,
                                      !.regs.pid = 0, !.pend = {}, !.alarm = FALSE]]
    /\ Mark(p)
    /\ UNCHANGED <<prog, memory, pipes, faults>>

ForkFails(p) ==
    /\ Calls(p, "fork")
    /\ ~ failed
    /\ failed' = TRUE
    /\ procs' = [procs EXCEPT ![p].pc = Instr(p).other, ![p].regs.pid = -1]
    /\ Mark(p)
    /\ UNCHANGED <<prog, memory, pipes, asked>>

Ends(p) ==
    /\ \/ Calls(p, "exit") /\ procs' = Dies(procs, p, 0)
       \/ Calls(p, "segv") /\ procs' = Dies(procs, p, 1)
    /\ Mark(p)
    /\ UNCHANGED <<prog, memory, pipes, faults>>

\* waitpid(-1), with WNOHANG or without; it stays while no child has ended.
Reap(p) ==
    /\ \/ Calls(p, "wait") \/ Calls(p, "poll")
    /\ \/ \E q \in Zombies(p) :
            procs' = [procs EXCEPT ![p].pc = Instr(p).next,
                                   ![p].regs.status = procs[q].code,
                                   ![q] = [Unborn EXCEPT !.st = "gone"]]
       \/ /\ Zombies(p) = {} /\ (Children(p) = {} \/ Instr(p).op = "poll")
          /\ procs' = [procs EXCEPT ![p].pc =
                IF Instr(p).op = "wait" THEN Instr(p).other
                ELSE IF Children(p) = {} THEN "unix_error" ELSE Instr(p).next]
    /\ Mark(p)
    /\ UNCHANGED <<prog, memory, pipes, faults>>

-----------------------------------------------------------------------------
(* Signals.                                                                *)

SignalCall(p) ==
    /\ \/ /\ Calls(p, "handle")
          /\ procs' = [procs EXCEPT ![p].hand[Instr(p).sig] = Instr(p).label,
                                    ![p].pc = Instr(p).next]
       \/ /\ Calls(p, "block")
          /\ procs' = [procs EXCEPT ![p].mask = @ \cup Instr(p).sigs,
                                    ![p].pc = Instr(p).next]
       \/ /\ Calls(p, "unblock")
          /\ procs' = [procs EXCEPT ![p].mask = @ \ Instr(p).sigs,
                                    ![p].pc = Instr(p).next]
       \/ /\ Calls(p, "pending")
          /\ procs' = [procs EXCEPT ![p].pc =
                IF Instr(p).sig \in procs[p].pend THEN Instr(p).next ELSE Instr(p).other]
       \/ /\ Calls(p, "alarm")
          /\ procs' = [procs EXCEPT ![p].alarm = TRUE, ![p].pc = Instr(p).next]
    /\ Mark(p)
    /\ UNCHANGED <<prog, memory, pipes, faults>>

\* The processes a kill names; an entry of tab that is 0 is the whole group.
Target(p) ==
    LET r == procs[p].regs IN
    CASE Instr(p).whom = "self" -> {p}
      [] Instr(p).whom = "parent" -> {procs[p].ppid}
      [] Instr(p).whom = "pid" -> {r.pid}
      [] OTHER -> IF 0 \in Range(r.tab) THEN Pids ELSE Range(r.tab)

\* The parent of an orphan is init, which it may not signal.
KillCall(p) ==
    /\ Calls(p, "kill")
    /\ LET Q == Target(p) IN
       IF \E q \in Q : q # 0 /\ procs[q].st # "gone"
       THEN procs' = Sent([procs EXCEPT ![p].pc = Instr(p).next], Q, Instr(p).sig)
       ELSE procs' = [procs EXCEPT ![p].pc = Instr(p).other]
    /\ Mark(p)
    /\ UNCHANGED <<prog, memory, pipes, faults>>

\* A handler runs, its signal masked; a pause or a sleep does not start again.
Deliver(p) ==
    /\ Running(p)
    /\ \E sig \in Deliverable(p) :
        LET over == procs[p].asleep /\ Instr(p).op \in {"pause", "sleep", "suspend"}
            frame == [pc |-> IF over THEN Instr(p).next ELSE procs[p].pc,
                      mask |-> procs[p].mask]
        IN procs' =
            IF procs[p].hand[sig] = "default"
            THEN Dies(procs, p, 1)
            ELSE [procs EXCEPT ![p].pc = procs[p].hand[sig],
                               ![p].frames = Append(@, frame),
                               ![p].mask = @ \cup {sig},
                               ![p].pend = @ \ {sig},
                               ![p].asleep = FALSE]
    /\ UNCHANGED <<prog, memory, seen, pipes, faults>>

ReturnCall(p) ==
    /\ Calls(p, "return")
    /\ LET frame == Last(procs[p].frames) IN
       procs' = [procs EXCEPT ![p].pc = frame.pc, ![p].mask = frame.mask,
                              ![p].frames = Front(@)]
    /\ Mark(p)
    /\ UNCHANGED <<prog, memory, pipes, faults>>

FallAsleep(p) ==
    /\ \E op \in {"pause", "sleep", "suspend"} : Calls(p, op)
    /\ procs' = [procs EXCEPT ![p].asleep = TRUE]
    /\ UNCHANGED <<prog, memory, seen, pipes, faults>>

\* alarm(1) rings before the sleep(1) that follows it ends.
WakeUp(p) ==
    /\ At(p, "sleep") /\ procs[p].asleep /\ ~ procs[p].alarm
    /\ procs' = [procs EXCEPT ![p].asleep = FALSE, ![p].pc = Instr(p).next]
    /\ Mark(p)
    /\ UNCHANGED <<prog, memory, pipes, faults>>

AlarmRings(p) ==
    /\ Running(p) /\ procs[p].alarm
    /\ procs' = [Sent(procs, {p}, "ALRM") EXCEPT ![p].alarm = FALSE]
    /\ UNCHANGED <<prog, memory, seen, pipes, faults>>

\* Ctrl-C goes to every process of the terminal, kill -INT to the first.
CtrlC ==
    /\ ~ asked
    /\ asked' = TRUE
    /\ prog \in {"exo2", "pause", "echoserveri"}
    /\ procs[1].hand["INT"] # "default"
    /\ \E Q \in {Pids, {1}} : procs' = Sent(procs, Q, "INT")
    /\ UNCHANGED <<prog, memory, seen, pipes, failed>>

-----------------------------------------------------------------------------
(* Pipes and terminal.                                                     *)

OpenEnd(c, end) == \E q \in Pids : <<c, end>> \in procs[q].fds

PipeCall(p) ==
    /\ \/ /\ Calls(p, "pipe")
          /\ procs' = [procs EXCEPT
                ![p].fds = @ \cup ({Instr(p).chan} \X {"r", "w"}),
                ![p].pc = Instr(p).next]
       \/ /\ Calls(p, "close")
          /\ procs' = [procs EXCEPT
                ![p].fds = @ \ {<<Instr(p).chan, Instr(p).end>>},
                ![p].pc = Instr(p).next]
    /\ Mark(p)
    /\ UNCHANGED <<prog, memory, pipes, faults>>

\* A write that nobody can read kills its process.
WriteCall(p) ==
    /\ Calls(p, "write")
    /\ LET c == Instr(p).chan IN
       IF OpenEnd(c, "r")
       THEN /\ chan' = [chan EXCEPT ![c] = @ \o procs[p].buf]
            /\ procs' = [procs EXCEPT ![p].pc = Instr(p).next]
       ELSE /\ procs' = Dies(procs, p, 1)
            /\ UNCHANGED chan
    /\ Mark(p)
    /\ UNCHANGED <<prog, memory, shown, typed, faults>>

ReadCall(p) ==
    /\ Calls(p, "read")
    /\ LET c == Instr(p).chan IN
        /\ chan[c] # <<>> \/ ~ OpenEnd(c, "w")
        /\ procs' = [procs EXCEPT
              ![p].buf = chan[c],
              ![p].pc = IF chan[c] = <<>> THEN Instr(p).other ELSE Instr(p).next]
        /\ chan' = [chan EXCEPT ![c] = <<>>]
    /\ Mark(p)
    /\ UNCHANGED <<prog, memory, shown, typed, faults>>

\* The terminal, where the input may end at any line.
InputCall(p) ==
    /\ Calls(p, "input")
    /\ \/ /\ typed < MaxTyped
          /\ typed' = typed + 1
          /\ procs' = [procs EXCEPT ![p].buf = <<typed'>>, ![p].pc = Instr(p).next]
       \/ /\ Instr(p).other # Instr(p).next
          /\ procs' = [procs EXCEPT ![p].pc = Instr(p).other]
          /\ UNCHANGED typed
    /\ Mark(p)
    /\ UNCHANGED <<prog, memory, chan, shown, faults>>

ShowCall(p) ==
    /\ \/ Calls(p, "show") /\ shown' = shown \o procs[p].buf
       \/ Calls(p, "showstring") /\ shown' = Append(shown, Head(procs[p].buf))
    /\ Go(p, Instr(p).next)
    /\ UNCHANGED <<prog, memory, chan, typed, faults>>

-----------------------------------------------------------------------------
(* Shared memory.                                                          *)

StoreCall(p) ==
    /\ At(p, "store")
    /\ sbuf' = [sbuf EXCEPT ![p] = Append(@, <<Instr(p).cell, Instr(p).val>>)]
    /\ Go(p, Instr(p).next)
    /\ UNCHANGED <<prog, shm, early, pipes, faults>>

\* The latest store of the process itself, or the memory.
LoadCall(p) ==
    /\ At(p, "load")
    /\ LET cell == Instr(p).cell
           own == {k \in DOMAIN sbuf[p] : sbuf[p][k][1] = cell}
           val == IF own = {} THEN shm[cell] ELSE sbuf[p][Max(own)][2]
       IN Go(p, IF val = Instr(p).val THEN Instr(p).next ELSE Instr(p).other)
    /\ early' = (early \/ sbuf[p] # <<>>)
    /\ UNCHANGED <<prog, shm, sbuf, pipes, faults>>

Drain(p) ==
    /\ sbuf[p] # <<>>
    /\ shm' = [shm EXCEPT ![Head(sbuf[p])[1]] = Head(sbuf[p])[2]]
    /\ sbuf' = [sbuf EXCEPT ![p] = Tail(@)]
    /\ UNCHANGED <<prog, procs, early, seen, pipes, faults>>

-----------------------------------------------------------------------------
\* A client connects, or Accept fails: when, is not up to the server.
AcceptCall(p) ==
    /\ Calls(p, "accept")
    /\ \E label \in {Instr(p).next, Instr(p).other} : Go(p, label)
    /\ UNCHANGED <<prog, memory, pipes, faults>>

-----------------------------------------------------------------------------
ProcInit ==
    /\ prog \in Programs
    /\ procs = [p \in Pids |->
            IF p \in DOMAIN Entries(prog)
            THEN [Unborn EXCEPT !.st = "run", !.pc = Entries(prog)[p]]
            ELSE Unborn]
    /\ chan = [c \in Pipes |-> <<>>]
    /\ shm = [c \in Cells |-> 0] /\ sbuf = [p \in Pids |-> <<>>]
    /\ early = FALSE
    /\ seen = {} /\ shown = <<>> /\ typed = 0
    /\ asked = FALSE /\ failed = FALSE

\* When another program runs: no process, nothing to come.
ProcIdle ==
    /\ prog = "ex2" /\ procs = [p \in Pids |-> Unborn]
    /\ chan = [c \in Pipes |-> <<>>]
    /\ shm = [c \in Cells |-> 0] /\ sbuf = [p \in Pids |-> <<>>]
    /\ early = FALSE
    /\ seen = {} /\ shown = <<>> /\ typed = 0
    /\ asked = TRUE /\ failed = FALSE

\* Whatever p can do without the user.
Proceed(p) ==
    /\ Running(p)
    /\ \/ Compute(p) \/ Assign(p)
       \/ ForkSon(p) \/ ForkFails(p) \/ Ends(p) \/ Reap(p)
       \/ SignalCall(p) \/ KillCall(p) \/ Deliver(p) \/ ReturnCall(p)
       \/ FallAsleep(p) \/ WakeUp(p) \/ AlarmRings(p)
       \/ PipeCall(p) \/ WriteCall(p) \/ ReadCall(p) \/ InputCall(p) \/ ShowCall(p)
       \/ StoreCall(p) \/ LoadCall(p)

ProcNext == CtrlC \/ \E p \in Pids : Proceed(p) \/ Drain(p) \/ AcceptCall(p)

\* The scheduler forgets no process, the processors no store (there are
\* finitely many), and the user ends what he types.
ProcFair ==
    /\ \A p \in Pids : WF_procVars(Proceed(p))
    /\ WF_procVars(\E p \in Pids : Drain(p))

ProcSpec == ProcInit /\ [][ProcNext]_procVars /\ ProcFair
-----------------------------------------------------------------------------
(* Properties.                                                             *)

Over(p) == procs[p].st # "run"
AllOver == \A p \in Pids : Over(p)

\* <<a, b>>: b is executed only once a has been; <<"never", b>>: never.
Before(name) ==
    CASE name = "slow_write" -> {<<"tell", "son">>}
      [] name = "shm" -> {<<"star", "served">>, <<"server", "get_a">>}
      [] name = "mask" -> {<<"unblock", "sigint">>, <<"unblock", "sigusr1">>,
                           <<"sigint", "nap">>, <<"sigusr1", "nap">>,
                           <<"printed", "unblock">>}
      [] name = "counterprob" -> {<<"handler", "print">>}
      [] name = "waitpid1" -> {<<"never", "abnormal">>}
      [] name = "waitpid1_segv" -> {<<"never", "normal">>}
      [] name = "alarm" -> {<<"Handler", "bye">>}
      [] name = "dialogue" -> {<<"answer", "read2">>}
      [] OTHER -> {}

\* The exercises that are about an order keep it under every schedule: the
\* child of slow_write prints after its father (tell_wait.c), a blocked signal
\* is handled once unblocked and not lost (mask.c), the father of
\* counterprob prints a counter that was incremented, a child that exits and
\* one that is killed are told apart (waitpid1.c), shm_server ends only after
\* its client has read.  A fork that fails leaves nothing to order.
CallsInOrder ==
    failed \/ \A pair \in Before(prog) : pair[2] \in seen => pair[1] \in seen

\* Where a server of the pool waits for clients and serves them.
Serving == {"accept", "echo"}

\* The father and the child of peterson.c are not both in their critical
\* section, unless a load overtook a store: peterson.c:56 and :68 read plain
\* chars, and nothing but a fence would keep the order.  And the wait(NULL)
\* between two forks of echoserveri.c makes its pool of NPROC servers one: a
\* single process accepts, however they are scheduled and whichever of them end.
OneAtATime ==
    /\ early \/ ~ \E p, q \in Pids :
        /\ Running(p) /\ procs[p].pc \in {"section1", "leave1"}
        /\ Running(q) /\ procs[q].pc \in {"section2", "leave2"}
    /\ prog = "echoserveri" =>
        Cardinality({p \in Pids : Running(p) /\ procs[p].pc \in Serving}) <= 1

\* In the programs that wait for their children no process ends before its
\* own, so none is left to init; the Fork of waitpid1.c that fails ends the
\* father before its first child is reaped.
ParentsReap ==
    \/ prog \in {"ex4", "chaine", "arbre", "peterson", "counterprob", "q3"}
    \/ prog \in {"waitpid1", "waitpid1_segv"} /\ ~ failed
    => \A p \in Pids \ {1} : Running(p) => procs[p].ppid # 0

\* q3.c sends what is typed to its child through a pipe, mycopy.c copies: what
\* is displayed is what was typed, in order, and all of it at the end.
RelayComplete ==
    prog \in {"q3", "mycopy"} /\ ~ failed =>
        LET input == [n \in 1..typed |-> n] IN
        /\ IsPrefix(shown, input)
        /\ AllOver => shown = input

WakeUpLost == "handler1_2" \in seen

\* The programs that may stay, and where.  signal1's father pauses for ever, with
\* no child left; shm_server polls when its client has read, and written its
\* star, before it or never; mycopy loops when open() failed, which it tests with
\* 0; the father of TD3/ex4.c without a child reads the end of fd2 it holds itself;
\* a server of the pool accepts until Ctrl-C, and so does the pause of exo1.c:33
\* last, or for ever if Ctrl-C came between Signal and pause() (exo1.c:30-33):
\* the handler has run, and pause() waits for another one.
MayStay ==
    CASE prog = "signal1" -> \A p \in Pids \ {1} : Over(p)
      [] prog = "shm" -> Over(2) /\ shm[0] # Star
      [] prog = "mycopy" -> "lost" \in seen
      [] prog = "dialogue" -> failed
      [] prog = "echoserveri" ->
            ~ asked /\ \E p \in Pids : Running(p) /\ procs[p].pc \in Serving
      [] prog = "pause" -> procs[1].asleep /\ (asked => WakeUpLost)
      [] OTHER -> FALSE

\* Every other program ends, with all its processes: no signal is lost between
\* a test and a sigsuspend, no reader waits for a writing end left open.
ProgramsEnd == <>[](AllOver \/ MayStay)
=============================================================================
