---------------------------- MODULE ProcessProofs ----------------------------
(***************************************************************************)
(* The machine of Processes, whichever program it runs: what each call does*)
(* to the fields of each process, that a process is always at a label of its*)
(* program with the frames its handlers need (ProcessesTyped), and what the*)
(* programs that send no signal have for granted (SilentOK).               *)
(*                                                                         *)
(* procs is a function to records of records: a step is stated by the fields*)
(* it leaves alone (Keeps, Others), and no proof of a program expands it.  *)
(***************************************************************************)
EXTENDS Processes, SequenceTheorems, TLAPS

Fields == {"st", "pc", "ppid", "code", "regs", "mask", "pend", "hand", "frames",
           "fds", "asleep", "alarm", "buf"}
RegNames == {"i", "pid", "sigflag_parent", "sigflag_child", "counter", "nbsig",
             "status", "tab"}

Shaped(r) ==
    /\ r = [f \in Fields |-> r[f]]
    /\ r.regs = [n \in RegNames |-> r.regs[n]]
    /\ r.hand = [s \in Signals |-> r.hand[s]]

Shape ==
    /\ procs = [p \in Pids |-> procs[p]]
    /\ \A p \in Pids : Shaped(procs[p])

\* What a step leaves alone.
Others(S) == \A q \in Pids \ S : procs'[q] = procs[q]
Keeps(p, F) == \A f \in Fields \ F : procs'[p][f] = procs[p][f]
Jumps(p, label) == Others({p}) /\ Keeps(p, {"pc"}) /\ procs'[p].pc = label
Marked(p) == seen' = seen \cup {procs[p].pc}

Acts(p) == Proceed(p) /\ ~ Deliver(p) /\ ~ AlarmRings(p)

\* The actions that make a call of each kind.
LEMMA ActsByOp ==
    ASSUME NEW p, Acts(p)
    PROVE  /\ Deliverable(p) = {} /\ Running(p)
           /\ Instr(p).op \in {"step", "choose", "if", "passed"} => Compute(p)
           /\ Instr(p).op \in {"set", "loop"} => Assign(p)
           /\ Instr(p).op = "fork" => ForkSon(p) \/ ForkFails(p)
           /\ Instr(p).op \in {"exit", "segv"} => Ends(p)
           /\ Instr(p).op \in {"wait", "poll"} => Reap(p)
           /\ Instr(p).op \in {"handle", "block", "unblock", "pending", "alarm"} => SignalCall(p)
           /\ Instr(p).op = "kill" => KillCall(p)
           /\ Instr(p).op = "return" => ReturnCall(p)
           /\ Instr(p).op \in {"pause", "suspend"} => FallAsleep(p)
           /\ Instr(p).op = "sleep" => FallAsleep(p) \/ WakeUp(p)
           /\ Instr(p).op \in {"pipe", "close"} => PipeCall(p)
           /\ Instr(p).op = "write" => WriteCall(p)
           /\ Instr(p).op = "read" => ReadCall(p)
           /\ Instr(p).op = "input" => InputCall(p)
           /\ Instr(p).op \in {"show", "showstring"} => ShowCall(p)
           /\ Instr(p).op = "store" => StoreCall(p)
           /\ Instr(p).op = "load" => LoadCall(p)
           /\ Instr(p).op # "accept"
<1> DEFINE op == Instr(p).op
<1>1. Compute(p) => Deliverable(p) = {} /\ op \in {"step", "choose", "if", "passed"}
  BY DEF Compute, At
<1>2. Assign(p) => Deliverable(p) = {} /\ op \in {"set", "loop"}
  BY DEF Assign, At
<1>3. ForkSon(p) \/ ForkFails(p) => Deliverable(p) = {} /\ op = "fork"
  BY DEF ForkSon, ForkFails, Calls, At
<1>4. Ends(p) => Deliverable(p) = {} /\ op \in {"exit", "segv"}
  BY DEF Ends, Calls, At
<1>5. Reap(p) => Deliverable(p) = {} /\ op \in {"wait", "poll"}
  BY DEF Reap, Calls, At
<1>6. SignalCall(p) => Deliverable(p) = {} /\ op \in {"handle", "block", "unblock", "pending", "alarm"}
  BY DEF SignalCall, Calls, At
<1>7. KillCall(p) => Deliverable(p) = {} /\ op = "kill"
  BY DEF KillCall, Calls, At
<1>8. ReturnCall(p) => Deliverable(p) = {} /\ op = "return"
  BY DEF ReturnCall, Calls, At
<1>9. FallAsleep(p) => Deliverable(p) = {} /\ op \in {"pause", "sleep", "suspend"}
  BY DEF FallAsleep, Calls, At
<1>10. WakeUp(p) => Deliverable(p) = {} /\ op = "sleep"
  BY DEF WakeUp, At
<1>11. PipeCall(p) => Deliverable(p) = {} /\ op \in {"pipe", "close"}
  BY DEF PipeCall, Calls, At
<1>12. WriteCall(p) => Deliverable(p) = {} /\ op = "write"
  BY DEF WriteCall, Calls, At
<1>13. ReadCall(p) => Deliverable(p) = {} /\ op = "read"
  BY DEF ReadCall, Calls, At
<1>14. InputCall(p) => Deliverable(p) = {} /\ op = "input"
  BY DEF InputCall, Calls, At
<1>15. ShowCall(p) => Deliverable(p) = {} /\ op \in {"show", "showstring"}
  BY DEF ShowCall, Calls, At
<1>16. StoreCall(p) => Deliverable(p) = {} /\ op = "store"
  BY DEF StoreCall, At
<1>17. LoadCall(p) => Deliverable(p) = {} /\ op = "load"
  BY DEF LoadCall, At
<1> HIDE DEF op
<1>18. /\ Running(p)
       /\ \/ Compute(p) \/ Assign(p)
          \/ ForkSon(p) \/ ForkFails(p) \/ Ends(p) \/ Reap(p)
          \/ SignalCall(p) \/ KillCall(p) \/ ReturnCall(p)
          \/ FallAsleep(p) \/ WakeUp(p)
          \/ PipeCall(p) \/ WriteCall(p) \/ ReadCall(p) \/ InputCall(p) \/ ShowCall(p)
          \/ StoreCall(p) \/ LoadCall(p)
  BY DEF Acts, Proceed
<1>19. Deliverable(p) = {} /\ Running(p)
  BY <1>1, <1>2, <1>3, <1>4, <1>5, <1>6, <1>7, <1>8, <1>9, <1>10, <1>11, <1>12, <1>13,
     <1>14, <1>15, <1>16, <1>17, <1>18
<1>20. /\ op \in {"step", "choose", "if", "passed"} => Compute(p)
       /\ op \in {"set", "loop"} => Assign(p)
       /\ op = "fork" => ForkSon(p) \/ ForkFails(p)
       /\ op \in {"exit", "segv"} => Ends(p)
       /\ op \in {"wait", "poll"} => Reap(p)
       /\ op \in {"handle", "block", "unblock", "pending", "alarm"} => SignalCall(p)
       /\ op = "kill" => KillCall(p)
       /\ op = "return" => ReturnCall(p)
       /\ op \in {"pause", "suspend"} => FallAsleep(p)
       /\ op = "sleep" => FallAsleep(p) \/ WakeUp(p)
       /\ op \in {"pipe", "close"} => PipeCall(p)
       /\ op = "write" => WriteCall(p)
       /\ op = "read" => ReadCall(p)
       /\ op = "input" => InputCall(p)
       /\ op \in {"show", "showstring"} => ShowCall(p)
       /\ op = "store" => StoreCall(p)
       /\ op = "load" => LoadCall(p)
       /\ op # "accept"
  BY <1>1, <1>2, <1>3, <1>4, <1>5, <1>6, <1>7, <1>8, <1>9, <1>10, <1>11, <1>12, <1>13,
     <1>14, <1>15, <1>16, <1>17, <1>18
<1> QED BY <1>19, <1>20 DEF op

Ops == {"step", "choose", "if", "passed", "set", "loop", "fork", "exit", "segv", "wait", "poll",
        "handle", "block", "unblock", "pending", "alarm", "kill", "return", "pause", "sleep",
        "suspend", "pipe", "close", "write", "read", "input", "show", "showstring", "store", "load"}

LEMMA OpsActed == ASSUME NEW p, Acts(p) PROVE Instr(p).op \in Ops
  BY DEF Ops, Acts, Proceed, Deliver, AlarmRings, Compute, Assign, ForkSon, ForkFails, Ends, Reap,
         SignalCall, KillCall, ReturnCall, FallAsleep, WakeUp, PipeCall, WriteCall, ReadCall,
         InputCall, ShowCall, StoreCall, LoadCall, Calls, At

-----------------------------------------------------------------------------
(* What the calls do.                                                      *)

Calm == UNCHANGED <<prog, memory, pipes, faults>>

\* p is given the fields of F, and nothing else.
Changes(p, F) == Others({p}) /\ Keeps(p, F)

LEMMA Computing ==
    ASSUME Shape, NEW p \in Pids, Acts(p),
           Instr(p).op \in {"step", "choose", "if", "passed"}
    PROVE  /\ Calm /\ Marked(p) /\ Changes(p, {"pc"})
           /\ Instr(p).op = "step" => procs'[p].pc = Instr(p).next
           /\ procs'[p].pc \in {Instr(p).next, Instr(p).other}
           /\ Instr(p).op = "if" =>
                procs'[p].pc = IF procs[p].regs[Instr(p).reg] = Instr(p).val
                               THEN Instr(p).next ELSE Instr(p).other
           /\ Instr(p).op = "passed" =>
                procs'[p].pc = IF Instr(p).label \in seen
                               THEN Instr(p).next ELSE Instr(p).other
<1>1. Compute(p)
  BY ActsByOp
<1>2. Calm /\ Marked(p)
  BY <1>1 DEF Compute, Calm, Go, Mark, Marked
<1>3. \E label \in {Instr(p).next, Instr(p).other} :
        /\ procs' = [procs EXCEPT ![p].pc = label]
        /\ Instr(p).op = "step" => label = Instr(p).next
        /\ Instr(p).op = "if" =>
                label = IF procs[p].regs[Instr(p).reg] = Instr(p).val
                        THEN Instr(p).next ELSE Instr(p).other
        /\ Instr(p).op = "passed" =>
                label = IF Instr(p).label \in seen
                        THEN Instr(p).next ELSE Instr(p).other
  BY <1>1 DEF Compute, At, Go
<1> QED BY <1>2, <1>3 DEF Changes, Others, Keeps, Shape, Shaped, Fields

LEMMA Assigning ==
    ASSUME Shape, NEW p \in Pids, Acts(p), Instr(p).op \in {"set", "loop"},
           Instr(p).reg \in RegNames
    PROVE  /\ Calm /\ Marked(p) /\ Changes(p, {"pc", "regs"})
           /\ Shaped(procs'[p])
           /\ \A n \in RegNames \ {Instr(p).reg} : procs'[p].regs[n] = procs[p].regs[n]
           /\ Instr(p).op = "set" =>
                /\ procs'[p].pc = Instr(p).next
                /\ Instr(p).reg # "tab" => procs'[p].regs[Instr(p).reg] = Instr(p).val
           /\ Instr(p).op = "loop" =>
                LET n == procs[p].regs[Instr(p).reg] + 1 IN
                /\ procs'[p].regs[Instr(p).reg] = n
                /\ procs'[p].pc = IF n < Instr(p).val THEN Instr(p).next ELSE Instr(p).other
<1>1. Assign(p)
  BY ActsByOp
<1>2. Calm /\ Marked(p)
  BY <1>1 DEF Assign, Calm, Mark, Marked
<1>3. PICK regs, label :
        /\ procs' = [procs EXCEPT ![p].regs = regs, ![p].pc = label]
        /\ regs = [n \in RegNames |-> regs[n]]
        /\ \A n \in RegNames \ {Instr(p).reg} : regs[n] = procs[p].regs[n]
        /\ Instr(p).op = "set" =>
                /\ label = Instr(p).next
                /\ Instr(p).reg # "tab" => regs[Instr(p).reg] = Instr(p).val
        /\ Instr(p).op = "loop" =>
             LET n == procs[p].regs[Instr(p).reg] + 1 IN
             /\ regs[Instr(p).reg] = n
             /\ label = IF n < Instr(p).val THEN Instr(p).next ELSE Instr(p).other
  <2>1. CASE Instr(p).op = "set" /\ Instr(p).reg = "tab"
    <3> DEFINE old == procs[p].regs
               regs == [old EXCEPT !.tab[old.i] = p]
    <3>1. /\ procs' = [procs EXCEPT ![p].regs = regs, ![p].pc = Instr(p).next]
      BY <1>1, <2>1 DEF Assign, At, Shape, Shaped
    <3>2. regs = [n \in RegNames |-> regs[n]] /\ \A n \in RegNames \ {"tab"} : regs[n] = old[n]
      BY DEF Shape, Shaped, RegNames
    <3> QED BY <2>1, <3>1, <3>2
  <2>2. CASE Instr(p).op = "set" /\ Instr(p).reg # "tab"
    <3> DEFINE regs == [procs[p].regs EXCEPT ![Instr(p).reg] = Instr(p).val]
    <3>1. procs' = [procs EXCEPT ![p].regs = regs, ![p].pc = Instr(p).next]
      BY <1>1, <2>2 DEF Assign, At, Shape, Shaped
    <3>2. /\ regs = [n \in RegNames |-> regs[n]] /\ regs[Instr(p).reg] = Instr(p).val
          /\ \A n \in RegNames \ {Instr(p).reg} : regs[n] = procs[p].regs[n]
      BY DEF Shape, Shaped
    <3> QED BY <2>2, <3>1, <3>2
  <2>3. CASE Instr(p).op = "loop"
    <3> DEFINE n == procs[p].regs[Instr(p).reg] + 1
               regs == [procs[p].regs EXCEPT ![Instr(p).reg] = n]
               label == IF n < Instr(p).val THEN Instr(p).next ELSE Instr(p).other
    <3>1. procs' = [procs EXCEPT ![p].regs[Instr(p).reg] = n, ![p].pc = label]
      BY <1>1, <2>3 DEF Assign, At
    <3>2. procs' = [procs EXCEPT ![p].regs = regs, ![p].pc = label]
      BY <3>1 DEF Shape, Shaped
    <3>3. /\ regs = [m \in RegNames |-> regs[m]] /\ regs[Instr(p).reg] = n
          /\ \A m \in RegNames \ {Instr(p).reg} : regs[m] = procs[p].regs[m]
      BY DEF Shape, Shaped
    <3> QED BY <2>3, <3>2, <3>3
  <2> QED BY <2>1, <2>2, <2>3
<1>4. Changes(p, {"pc", "regs"}) /\ procs'[p].regs = regs /\ procs'[p].pc = label
      /\ procs'[p] = [f \in Fields |-> procs'[p][f]]
  BY <1>3 DEF Changes, Others, Keeps, Shape, Shaped, Fields
<1>5. Shaped(procs'[p])
  <2>1. procs'[p].hand = procs[p].hand
    BY <1>4 DEF Changes, Keeps, Fields
  <2> QED BY <1>3, <1>4, <2>1 DEF Shaped, Shape
<1> QED BY <1>2, <1>3, <1>4, <1>5

\* q is the child that p has made.
Born(p, q) ==
    /\ q \in Pids /\ q # p
    /\ procs[q].st = "none" /\ \A r \in 1..(q - 1) : procs[r].st # "none"
    /\ Others({p, q}) /\ Keeps(p, {"pc", "regs"})
    /\ procs'[p].pc = Instr(p).next /\ procs'[p].regs.pid = q
    /\ \A n \in RegNames \ {"pid"} : procs'[p].regs[n] = procs[p].regs[n]
    /\ \A f \in Fields \ {"ppid", "pc", "regs", "pend", "alarm"} :
            procs'[q][f] = procs[p][f]
    /\ procs'[q].ppid = p /\ procs'[q].pc = Instr(p).child
    /\ procs'[q].pend = {} /\ procs'[q].alarm = FALSE /\ procs'[q].regs.pid = 0
    /\ \A n \in RegNames \ {"pid"} : procs'[q].regs[n] = procs[p].regs[n]

LEMMA Forking ==
    ASSUME Shape, NEW p \in Pids, Acts(p), Instr(p).op = "fork"
    PROVE  /\ UNCHANGED <<prog, memory, pipes, asked>> /\ Marked(p)
           /\ sbuf[p] = <<>> /\ ~ procs[p].asleep
           /\ \/ failed' = failed /\ \E q \in Pids : Born(p, q)
              \/ /\ ~ failed /\ failed'
                 /\ Changes(p, {"pc", "regs"}) /\ procs'[p].pc = Instr(p).other
                 /\ procs'[p].regs.pid = -1
                 /\ \A n \in RegNames \ {"pid"} : procs'[p].regs[n] = procs[p].regs[n]
<1>1. ForkSon(p) \/ ForkFails(p)
  BY ActsByOp
<1>2. /\ UNCHANGED <<prog, memory, pipes, asked>> /\ Marked(p)
      /\ sbuf[p] = <<>> /\ ~ procs[p].asleep
  BY <1>1 DEF ForkSon, ForkFails, Mark, Marked, Calls, faults
<1>3. Running(p)
  BY ActsByOp
<1> DEFINE regs(v) == [procs[p].regs EXCEPT !.pid = v]
<1>4. \A v : /\ regs(v).pid = v
             /\ \A n \in RegNames \ {"pid"} : regs(v)[n] = procs[p].regs[n]
  BY DEF Shape, Shaped, RegNames
<1>5. CASE ForkSon(p)
  <2>1. failed' = failed
    BY <1>5 DEF ForkSon, faults
  <2>2. PICK q \in Pids :
          /\ procs[q].st = "none" /\ \A r \in 1..(q - 1) : procs[r].st # "none"
          /\ procs' = [procs EXCEPT
              ![p].pc = Instr(p).next, ![p].regs.pid = q,
              ![q] = [procs[p] EXCEPT !.ppid = p, !.pc = Instr(p).child,
                                      !.regs.pid = 0, !.pend = {}, !.alarm = FALSE]]
    BY <1>5 DEF ForkSon
  <2>3. q # p
    BY <1>3, <2>2 DEF Running
  <2> DEFINE father == [procs[p] EXCEPT !.pc = Instr(p).next, !.regs.pid = q]
             kid == [procs[p] EXCEPT !.ppid = p, !.pc = Instr(p).child,
                                     !.regs.pid = 0, !.pend = {}, !.alarm = FALSE]
  <2>4. /\ procs'[p] = father /\ procs'[q] = kid
        /\ Others({p, q})
    BY <2>2, <2>3 DEF Shape, Others
  <2>5. /\ \A f \in Fields \ {"pc", "regs"} : father[f] = procs[p][f]
        /\ father.pc = Instr(p).next /\ father.regs = regs(q)
    BY DEF Shape, Shaped, Fields
  <2>6. /\ \A f \in Fields \ {"ppid", "pc", "regs", "pend", "alarm"} :
              kid[f] = procs[p][f]
        /\ kid.ppid = p /\ kid.pc = Instr(p).child
        /\ kid.pend = {} /\ kid.alarm = FALSE /\ kid.regs = regs(0)
    BY DEF Shape, Shaped, Fields
  <2> HIDE DEF father, kid
  <2>7. Born(p, q)
    <3>1. /\ procs'[p].regs.pid = q /\ procs'[q].regs.pid = 0
          /\ \A n \in RegNames \ {"pid"} :
                /\ procs'[p].regs[n] = procs[p].regs[n]
                /\ procs'[q].regs[n] = procs[p].regs[n]
      BY <1>4, <2>4, <2>5, <2>6
    <3>2. /\ Keeps(p, {"pc", "regs"}) /\ procs'[p].pc = Instr(p).next
          /\ \A f \in Fields \ {"ppid", "pc", "regs", "pend", "alarm"} :
                procs'[q][f] = procs[p][f]
          /\ procs'[q].ppid = p /\ procs'[q].pc = Instr(p).child
          /\ procs'[q].pend = {} /\ procs'[q].alarm = FALSE
      BY <2>4, <2>5, <2>6 DEF Keeps
    <3> QED BY <2>2, <2>3, <2>4, <3>1, <3>2 DEF Born
  <2>8. \E r \in Pids : Born(p, r)
    BY <2>7
  <2> QED BY <1>2, <2>1, <2>8
<1>6. CASE ForkFails(p)
  <2>1. ~ failed /\ failed' /\ procs' = [procs EXCEPT ![p].pc = Instr(p).other, ![p].regs = regs(-1)]
    BY <1>6 DEF ForkFails, Shape, Shaped, Fields, RegNames
  <2> HIDE DEF regs
  <2>2. Changes(p, {"pc", "regs"}) /\ procs'[p].pc = Instr(p).other /\ procs'[p].regs = regs(-1)
    BY <2>1 DEF Shape, Shaped, Fields, Others, Keeps, Changes
  <2>3. /\ procs'[p].regs.pid = -1
        /\ \A n \in RegNames \ {"pid"} : procs'[p].regs[n] = procs[p].regs[n]
    BY <1>4, <2>2
  <2> QED BY <1>2, <2>1, <2>2, <2>3
<1> QED BY <1>1, <1>5, <1>6

\* p ends.  Its parent is told of it only when it handles SIGCHLD.
Death(p, code) ==
    /\ procs'[p] = [Unborn EXCEPT !.st = IF procs[p].ppid = 0 THEN "gone" ELSE "zombie",
                                  !.pc = "end", !.ppid = procs[p].ppid, !.code = code]
    /\ procs'[p].st = IF procs[p].ppid = 0 THEN "gone" ELSE "zombie"
    /\ procs'[p].pc = "end" /\ procs'[p].ppid = procs[p].ppid /\ procs'[p].code = code
    /\ \A f \in Fields \ {"st", "pc", "ppid", "code"} : procs'[p][f] = Unborn[f]
    /\ \A q \in Pids \ {p} :
        IF procs[q].ppid # p THEN procs'[q] = procs[q]
        ELSE IF procs[q].st = "run"
        THEN procs'[q].ppid = 0 /\ Keeps(q, {"ppid"})
        ELSE /\ procs'[q] = [Unborn EXCEPT !.st = "gone"]
             /\ procs'[q].st = "gone" /\ \A f \in Fields \ {"st"} : procs'[q][f] = Unborn[f]

\* Nobody handles SIGCHLD: in all programs but signal1.
NoChld == \A q \in Pids : procs[q].hand["CHLD"] = "default"

LEMMA Dying ==
    ASSUME Shape, NoChld, NEW p \in Pids, NEW code, procs' = Dies(procs, p, code),
           procs[p].ppid # p
    PROVE  Death(p, code)
<1> DEFINE parent == procs[p].ppid
           Of(q) ==
            IF q = p
            THEN [Unborn EXCEPT !.st = IF parent = 0 THEN "gone" ELSE "zombie",
                                !.pc = "end", !.ppid = parent, !.code = code]
            ELSE IF procs[q].ppid # p THEN procs[q]
            ELSE IF procs[q].st = "run" THEN [procs[q] EXCEPT !.ppid = 0]
            ELSE [Unborn EXCEPT !.st = "gone"]
           alone == [q \in Pids |-> Of(q)]
<1>1. procs' = IF parent = 0 THEN alone ELSE Sent(alone, {parent}, "CHLD")
  BY DEF Dies
<1>2. \A q \in Pids : Of(q).hand["CHLD"] = "default"
  BY DEF NoChld, Unborn, Shape, Shaped, Fields, Signals
<1>3. procs' = alone
  <2>1. \A q \in Pids : alone[q].hand["CHLD"] = "default"
    BY <1>2
  <2> HIDE DEF alone
  <2>2. \A q \in Pids : Sent(alone, {parent}, "CHLD")[q] = alone[q]
    BY <2>1 DEF Sent
  <2>3. alone = [q \in Pids |-> alone[q]]
    BY DEF alone
  <2>4. Sent(alone, {parent}, "CHLD") = [q \in Pids |-> Sent(alone, {parent}, "CHLD")[q]]
    BY DEF Sent
  <2> QED BY <1>1, <2>2, <2>3, <2>4
<1>4. \A q \in Pids : procs'[q] = Of(q)
  BY <1>3
<1>5. /\ procs'[p] = [Unborn EXCEPT !.st = IF parent = 0 THEN "gone" ELSE "zombie",
                                  !.pc = "end", !.ppid = parent, !.code = code]
      /\ procs'[p].st = IF procs[p].ppid = 0 THEN "gone" ELSE "zombie"
      /\ procs'[p].pc = "end" /\ procs'[p].ppid = procs[p].ppid /\ procs'[p].code = code
      /\ \A f \in Fields \ {"st", "pc", "ppid", "code"} : procs'[p][f] = Unborn[f]
  <2> DEFINE st == IF parent = 0 THEN "gone" ELSE "zombie"
             dead == [Unborn EXCEPT !.st = st, !.pc = "end", !.ppid = parent, !.code = code]
  <2>1. procs'[p] = dead
    BY <1>4
  <2> HIDE DEF st, parent
  <2>2. /\ dead.st = st /\ dead.pc = "end" /\ dead.ppid = parent /\ dead.code = code
        /\ \A f \in Fields \ {"st", "pc", "ppid", "code"} : dead[f] = Unborn[f]
    BY DEF Unborn, Fields
  <2> HIDE DEF dead
  <2>3. /\ procs'[p].st = st /\ procs'[p].pc = "end" /\ procs'[p].ppid = parent
        /\ procs'[p].code = code
        /\ \A f \in Fields \ {"st", "pc", "ppid", "code"} : procs'[p][f] = Unborn[f]
    BY <2>1, <2>2
  <2> QED BY <2>1, <2>3 DEF st, dead, parent
<1>6. \A q \in Pids \ {p} :
        IF procs[q].ppid # p THEN procs'[q] = procs[q]
        ELSE IF procs[q].st = "run"
        THEN procs'[q].ppid = 0 /\ Keeps(q, {"ppid"})
        ELSE /\ procs'[q] = [Unborn EXCEPT !.st = "gone"]
             /\ procs'[q].st = "gone" /\ \A f \in Fields \ {"st"} : procs'[q][f] = Unborn[f]
  <2> TAKE q \in Pids \ {p}
  <2>1. CASE procs[q].ppid # p
    BY <1>4, <2>1
  <2>2. CASE procs[q].ppid = p /\ procs[q].st = "run"
    <3>1. procs'[q] = [procs[q] EXCEPT !.ppid = 0]
      BY <1>4, <2>2
    <3> QED BY <2>2, <3>1 DEF Shape, Shaped, Fields, Keeps
  <2>3. CASE procs[q].ppid = p /\ procs[q].st # "run"
    <3>1. procs'[q] = [Unborn EXCEPT !.st = "gone"]
      BY <1>4, <2>3
    <3> QED BY <2>3, <3>1 DEF Unborn, Fields
  <2> QED BY <2>1, <2>2, <2>3
<1> HIDE DEF Of, alone
<1> QED BY <1>5, <1>6 DEF Death

LEMMA Ending ==
    ASSUME Shape, NoChld, NEW p \in Pids, procs[p].ppid # p, Acts(p),
           Instr(p).op \in {"exit", "segv"}
    PROVE  /\ Calm /\ Marked(p) /\ sbuf[p] = <<>>
           /\ Death(p, IF Instr(p).op = "exit" THEN 0 ELSE 1)
<1>1. Ends(p)
  BY ActsByOp
<1>2. Calm /\ Marked(p) /\ sbuf[p] = <<>>
  BY <1>1 DEF Ends, Calm, Mark, Marked, Calls
<1>3. procs' = Dies(procs, p, IF Instr(p).op = "exit" THEN 0 ELSE 1)
  BY <1>1 DEF Ends, Calls, At
<1> QED BY <1>2, <1>3, Dying

\* What a death does to each process, whatever its parent handles.
Fades(q) ==
    \/ /\ procs'[q].st \in {"gone", "zombie"} /\ procs'[q].ppid \in {0, procs[q].ppid}
       /\ \A f \in Fields \ {"st", "pc", "ppid", "code"} : procs'[q][f] = Unborn[f]
    \/ /\ Keeps(q, {"ppid", "pend"}) /\ procs'[q].ppid \in {0, procs[q].ppid}
       /\ procs'[q].pend \in {procs[q].pend, procs[q].pend \cup {"CHLD"}}

LEMMA Fading ==
    ASSUME Shape, NEW p \in Pids, NEW code, procs' = Dies(procs, p, code)
    PROVE  \A q \in Pids : Fades(q)
<1> DEFINE parent == procs[p].ppid
           st == IF parent = 0 THEN "gone" ELSE "zombie"
           dead == [Unborn EXCEPT !.st = st, !.pc = "end", !.ppid = parent, !.code = code]
           Of(q) ==
            IF q = p THEN dead
            ELSE IF procs[q].ppid # p THEN procs[q]
            ELSE IF procs[q].st = "run" THEN [procs[q] EXCEPT !.ppid = 0]
            ELSE [Unborn EXCEPT !.st = "gone"]
           alone == [q \in Pids |-> Of(q)]
<1>1. procs' = IF parent = 0 THEN alone ELSE Sent(alone, {parent}, "CHLD")
  BY DEF Dies
<1>2. dead.ppid = parent /\ dead.st \in {"gone", "zombie"}
      /\ \A f \in Fields \ {"st", "pc", "ppid", "code"} : dead[f] = Unborn[f]
  <2> HIDE DEF st, parent
  <2> QED BY DEF Unborn, Fields, st
<1>3. ASSUME NEW q \in Pids PROVE Fades(q)
  <2> DEFINE r == Of(q)
             told == [r EXCEPT !.pend = @ \cup {"CHLD"}]
  <2>1. procs'[q] \in {r, told}
    BY <1>1 DEF Sent
  <2>2. CASE q # p /\ procs[q].ppid # p
    <3>1. r = procs[q]
      BY <2>2
    <3>2. procs'[q] \in {procs[q], [procs[q] EXCEPT !.pend = @ \cup {"CHLD"}]}
      BY <2>1, <3>1
    <3> QED BY <3>2 DEF Fades, Keeps, Shape, Shaped, Fields
  <2>3. CASE q # p /\ procs[q].ppid = p /\ procs[q].st = "run"
    <3>1. r = [procs[q] EXCEPT !.ppid = 0]
      BY <2>3
    <3> HIDE DEF r
    <3>2. /\ r.ppid = 0 /\ r.pend = procs[q].pend /\ r = [f \in Fields |-> r[f]]
          /\ \A f \in Fields \ {"ppid"} : r[f] = procs[q][f]
      BY <3>1 DEF Shape, Shaped, Fields
    <3>3. /\ told.ppid = 0 /\ told.pend = procs[q].pend \cup {"CHLD"}
          /\ \A f \in Fields \ {"ppid", "pend"} : told[f] = procs[q][f]
      BY <3>2 DEF Fields
    <3> HIDE DEF told
    <3> QED BY <2>1, <3>2, <3>3 DEF Fades, Keeps
  <2>4. CASE q = p \/ procs[q].st # "run"
    <3>1. r \in {dead, [Unborn EXCEPT !.st = "gone"], procs[q]} /\ (q = p => r = dead)
          /\ (q # p /\ procs[q].ppid = p => r = [Unborn EXCEPT !.st = "gone"])
      BY <2>4
    <3>2. r.st # "run" => procs'[q] = r
      <4>1. procs'[q] # r => r.st = "run"
        BY <1>1 DEF Sent
      <4> QED BY <4>1
    <3>3. CASE q = p
      BY <1>2, <3>1, <3>2, <3>3 DEF Fades
    <3>4. CASE q # p /\ procs[q].ppid = p
      <4> HIDE DEF r
      <4>1. /\ r.st = "gone" /\ r.ppid = 0
            /\ \A f \in Fields \ {"st", "pc", "ppid", "code"} : r[f] = Unborn[f]
        BY <3>1, <3>4 DEF Unborn, Fields
      <4> QED BY <3>2, <4>1 DEF Fades
    <3> QED BY <2>2, <3>3, <3>4
  <2> QED BY <2>2, <2>3, <2>4
<1> QED BY <1>3

\* p waits for its children.
LEMMA Reaping ==
    ASSUME Shape, NEW p \in Pids, Acts(p), Instr(p).op \in {"wait", "poll"},
           procs[p].ppid # p
    PROVE  /\ Calm /\ Marked(p)
           /\ \/ \E q \in Zombies(p) :
                    /\ q # p /\ Others({p, q}) /\ Keeps(p, {"pc", "regs"})
                    /\ procs'[p].pc = Instr(p).next
                    /\ procs'[p].regs.status = procs[q].code
                    /\ \A n \in RegNames \ {"status"} : procs'[p].regs[n] = procs[p].regs[n]
                    /\ procs'[q].st = "gone"
                    /\ \A f \in Fields \ {"st"} : procs'[q][f] = Unborn[f]
              \/ /\ Zombies(p) = {} /\ Changes(p, {"pc"})
                 /\ Instr(p).op = "wait" =>
                        Children(p) = {} /\ procs'[p].pc = Instr(p).other
                 /\ Instr(p).op = "poll" =>
                        procs'[p].pc = IF Children(p) = {} THEN "unix_error" ELSE Instr(p).next
<1>1. Reap(p)
  BY ActsByOp
<1>2. Calm /\ Marked(p)
  BY <1>1 DEF Reap, Calm, Mark, Marked
<1>3. CASE \E q \in Zombies(p) :
            procs' = [procs EXCEPT ![p].pc = Instr(p).next,
                                   ![p].regs.status = procs[q].code,
                                   ![q] = [Unborn EXCEPT !.st = "gone"]]
  <2> PICK q \in Zombies(p) :
            procs' = [procs EXCEPT ![p].pc = Instr(p).next,
                                   ![p].regs.status = procs[q].code,
                                   ![q] = [Unborn EXCEPT !.st = "gone"]]
    BY <1>3
  <2>1. q \in Pids /\ q # p
    BY DEF Zombies, Children
  <2> DEFINE father == [procs[p] EXCEPT !.pc = Instr(p).next, !.regs.status = procs[q].code]
             dead == [Unborn EXCEPT !.st = "gone"]
  <2>2. procs'[p] = father /\ procs'[q] = dead /\ Others({p, q})
    BY <2>1 DEF Shape, Others
  <2>3. dead.st = "gone" /\ \A f \in Fields \ {"st"} : dead[f] = Unborn[f]
    BY DEF Unborn, Fields
  <2>4. /\ \A f \in Fields \ {"pc", "regs"} : father[f] = procs[p][f]
        /\ father.pc = Instr(p).next
        /\ father.regs = [procs[p].regs EXCEPT !.status = procs[q].code]
    BY DEF Shape, Shaped, Fields
  <2> HIDE DEF father, dead
  <2>5. /\ procs'[p].regs.status = procs[q].code
        /\ \A n \in RegNames \ {"status"} : procs'[p].regs[n] = procs[p].regs[n]
    <3> DEFINE old == procs[p].regs
    <3>1. procs'[p].regs = [old EXCEPT !.status = procs[q].code]
      BY <2>2, <2>4
    <3>2. old = [n \in RegNames |-> old[n]]
      BY DEF Shape, Shaped
    <3> HIDE DEF old
    <3>3. procs'[p].regs.status = procs[q].code
      BY <3>1, <3>2 DEF RegNames
    <3>4. \A n \in RegNames \ {"status"} : procs'[p].regs[n] = old[n]
      BY <3>1, <3>2
    <3> QED BY <3>3, <3>4 DEF old
  <2>6. Keeps(p, {"pc", "regs"}) /\ procs'[p].pc = Instr(p).next
    BY <2>2, <2>4 DEF Keeps
  <2>7. procs'[q].st = "gone" /\ \A f \in Fields \ {"st"} : procs'[q][f] = Unborn[f]
    BY <2>2, <2>3
  <2> QED BY <1>2, <2>1, <2>2, <2>5, <2>6, <2>7
<1>4. CASE ~ \E q \in Zombies(p) :
            procs' = [procs EXCEPT ![p].pc = Instr(p).next,
                                   ![p].regs.status = procs[q].code,
                                   ![q] = [Unborn EXCEPT !.st = "gone"]]
  <2>1. /\ Zombies(p) = {} /\ (Children(p) = {} \/ Instr(p).op = "poll")
        /\ procs' = [procs EXCEPT ![p].pc =
                IF Instr(p).op = "wait" THEN Instr(p).other
                ELSE IF Children(p) = {} THEN "unix_error" ELSE Instr(p).next]
    BY <1>1, <1>4 DEF Reap
  <2>2. /\ Changes(p, {"pc"})
        /\ procs'[p].pc = IF Instr(p).op = "wait" THEN Instr(p).other
                ELSE IF Children(p) = {} THEN "unix_error" ELSE Instr(p).next
    BY <2>1 DEF Changes, Others, Keeps, Shape, Shaped, Fields
  <2> QED BY <1>2, <2>1, <2>2
<1> QED BY <1>3, <1>4

\* The calls about signals that reach p alone.
LEMMA Signalling ==
    ASSUME Shape, NEW p \in Pids, Acts(p),
           Instr(p).op \in {"handle", "block", "unblock", "pending", "alarm"}
    PROVE  /\ Calm /\ Marked(p) /\ Others({p})
           /\ Instr(p).op = "handle" =>
                /\ Keeps(p, {"pc", "hand"}) /\ procs'[p].pc = Instr(p).next
                /\ procs'[p].hand = [procs[p].hand EXCEPT ![Instr(p).sig] = Instr(p).label]
           /\ Instr(p).op = "block" =>
                /\ Keeps(p, {"pc", "mask"}) /\ procs'[p].pc = Instr(p).next
                /\ procs'[p].mask = procs[p].mask \cup Instr(p).sigs
           /\ Instr(p).op = "unblock" =>
                /\ Keeps(p, {"pc", "mask"}) /\ procs'[p].pc = Instr(p).next
                /\ procs'[p].mask = procs[p].mask \ Instr(p).sigs
           /\ Instr(p).op = "pending" =>
                /\ Keeps(p, {"pc"})
                /\ procs'[p].pc = IF Instr(p).sig \in procs[p].pend
                                  THEN Instr(p).next ELSE Instr(p).other
           /\ Instr(p).op = "alarm" =>
                Keeps(p, {"pc", "alarm"}) /\ procs'[p].pc = Instr(p).next /\ procs'[p].alarm
<1>1. SignalCall(p)
  BY ActsByOp
<1>2. Calm /\ Marked(p)
  BY <1>1 DEF SignalCall, Calm, Mark, Marked
<1>3. CASE Instr(p).op = "handle"
  <2>1. procs' = [procs EXCEPT ![p].hand[Instr(p).sig] = Instr(p).label, ![p].pc = Instr(p).next]
    BY <1>1, <1>3 DEF SignalCall, Calls, At
  <2> DEFINE new == [procs[p] EXCEPT !.hand[Instr(p).sig] = Instr(p).label, !.pc = Instr(p).next]
  <2>2. procs'[p] = new /\ Others({p})
    BY <2>1 DEF Shape, Others
  <2>3. /\ \A f \in Fields \ {"pc", "hand"} : new[f] = procs[p][f]
        /\ new.pc = Instr(p).next
        /\ new.hand = [procs[p].hand EXCEPT ![Instr(p).sig] = Instr(p).label]
    BY DEF Shape, Shaped, Fields
  <2> HIDE DEF new
  <2> QED BY <1>2, <1>3, <2>2, <2>3 DEF Keeps
<1>4. CASE Instr(p).op = "block"
  <2>1. procs' = [procs EXCEPT ![p].mask = @ \cup Instr(p).sigs, ![p].pc = Instr(p).next]
    BY <1>1, <1>4 DEF SignalCall, Calls, At
  <2> QED BY <1>2, <1>4, <2>1 DEF Shape, Shaped, Fields, Keeps, Others
<1>5. CASE Instr(p).op = "unblock"
  <2>1. procs' = [procs EXCEPT ![p].mask = @ \ Instr(p).sigs, ![p].pc = Instr(p).next]
    BY <1>1, <1>5 DEF SignalCall, Calls, At
  <2> QED BY <1>2, <1>5, <2>1 DEF Shape, Shaped, Fields, Keeps, Others
<1>6. CASE Instr(p).op = "pending"
  <2>1. procs' = [procs EXCEPT ![p].pc =
                IF Instr(p).sig \in procs[p].pend THEN Instr(p).next ELSE Instr(p).other]
    BY <1>1, <1>6 DEF SignalCall, Calls, At
  <2> QED BY <1>2, <1>6, <2>1 DEF Shape, Shaped, Fields, Keeps, Others
<1>7. CASE Instr(p).op = "alarm"
  <2>1. procs' = [procs EXCEPT ![p].alarm = TRUE, ![p].pc = Instr(p).next]
    BY <1>1, <1>7 DEF SignalCall, Calls, At
  <2> QED BY <1>2, <1>7, <2>1 DEF Shape, Shaped, Fields, Keeps, Others
<1> QED BY <1>3, <1>4, <1>5, <1>6, <1>7

LEMMA Killing ==
    ASSUME Shape, NEW p \in Pids, Acts(p), Instr(p).op = "kill"
    PROVE  /\ Calm /\ Marked(p) /\ sbuf[p] = <<>>
           /\ procs'[p].pc \in {Instr(p).next, Instr(p).other}
           /\ Keeps(p, {"pc", "pend"})
           /\ \A q \in Pids \ {p} : Keeps(q, {"pend"})
           /\ \/ /\ \E q \in Target(p) : q # 0 /\ procs[q].st # "gone"
                 /\ procs'[p].pc = Instr(p).next
                 /\ \A q \in Pids :
                        IF /\ q \in Target(p) /\ procs[q].st = "run"
                           /\ Instr(p).sig = "CHLD" => procs[q].hand["CHLD"] # "default"
                        THEN procs'[q].pend = procs[q].pend \cup {Instr(p).sig}
                        ELSE procs'[q].pend = procs[q].pend
              \/ /\ ~ \E q \in Target(p) : q # 0 /\ procs[q].st # "gone"
                 /\ procs'[p].pc = Instr(p).other
                 /\ \A q \in Pids : procs'[q].pend = procs[q].pend
<1>1. KillCall(p)
  BY ActsByOp
<1>2. Calm /\ Marked(p) /\ sbuf[p] = <<>>
  BY <1>1 DEF KillCall, Calm, Mark, Marked, Calls
<1>3. CASE \E q \in Target(p) : q # 0 /\ procs[q].st # "gone"
  <2> DEFINE gone == [procs EXCEPT ![p].pc = Instr(p).next]
             sig == Instr(p).sig
             Q == Target(p)
  <2>1. procs' = Sent(gone, Q, sig)
    BY <1>1, <1>3 DEF KillCall
  <2>2. \A q \in Pids : /\ gone[q] = [f \in Fields |-> gone[q][f]]
                        /\ gone[q].st = procs[q].st /\ gone[q].hand = procs[q].hand
                        /\ gone[q].pend = procs[q].pend
                        /\ \A f \in Fields \ {"pc"} : gone[q][f] = procs[q][f]
                        /\ q # p => gone[q] = procs[q]
    <3> TAKE q \in Pids
    <3>1. CASE q # p
      <4>1. gone[q] = procs[q]
        BY <3>1 DEF Shape
      <4> QED BY <3>1, <4>1 DEF Shape, Shaped
    <3>2. CASE q = p
      <4> DEFINE old == procs[p]
                 new == [old EXCEPT !.pc = Instr(p).next]
      <4>1. old = [f \in Fields |-> old[f]]
        BY DEF Shape, Shaped
      <4>2. gone[p] = new
        BY DEF Shape
      <4> HIDE DEF gone, old
      <4>3. /\ new = [f \in Fields |-> new[f]] /\ new.st = old.st /\ new.hand = old.hand
            /\ new.pend = old.pend /\ \A f \in Fields \ {"pc"} : new[f] = old[f]
        BY <4>1 DEF Fields
      <4> HIDE DEF new
      <4> QED BY <3>2, <4>2, <4>3 DEF old
    <3> QED BY <3>1, <3>2
  <2>3. gone[p].pc = Instr(p).next
    BY DEF Shape, Shaped, Fields
  <2> HIDE DEF gone
  <2>4. \A q \in Pids : procs'[q] =
            IF q \in Q /\ gone[q].st = "run" /\ (sig = "CHLD" => gone[q].hand[sig] # "default")
            THEN [gone[q] EXCEPT !.pend = @ \cup {sig}] ELSE gone[q]
    BY <2>1 DEF Sent
  <2> HIDE DEF sig, Q
  <2>5. \A q \in Pids :
            /\ \A f \in Fields \ {"pend"} : procs'[q][f] = gone[q][f]
            /\ IF q \in Q /\ procs[q].st = "run" /\ (sig = "CHLD" => procs[q].hand["CHLD"] # "default")
               THEN procs'[q].pend = procs[q].pend \cup {sig}
               ELSE procs'[q].pend = procs[q].pend
    <3> TAKE q \in Pids
    <3> DEFINE old == gone[q]
               told == [old EXCEPT !.pend = @ \cup {sig}]
    <3>1. /\ old = [f \in Fields |-> old[f]] /\ old.st = procs[q].st /\ old.hand = procs[q].hand
          /\ old.pend = procs[q].pend
      BY <2>2
    <3>2. procs'[q] = IF q \in Q /\ old.st = "run" /\ (sig = "CHLD" => old.hand[sig] # "default")
                      THEN told ELSE old
      BY <2>4
    <3> HIDE DEF old
    <3>3. told.pend = old.pend \cup {sig} /\ \A f \in Fields \ {"pend"} : told[f] = old[f]
      BY <3>1 DEF Fields
    <3> HIDE DEF told
    <3>4. IF q \in Q /\ procs[q].st = "run" /\ (sig = "CHLD" => procs[q].hand["CHLD"] # "default")
          THEN procs'[q] = told ELSE procs'[q] = old
      BY <3>1, <3>2
    <3>5. \A f \in Fields \ {"pend"} : procs'[q][f] = old[f]
      BY <3>3, <3>4
    <3>6. IF q \in Q /\ procs[q].st = "run" /\ (sig = "CHLD" => procs[q].hand["CHLD"] # "default")
          THEN procs'[q].pend = procs[q].pend \cup {sig}
          ELSE procs'[q].pend = procs[q].pend
      BY <3>1, <3>3, <3>4
    <3> QED BY <3>5, <3>6 DEF old
  <2>6. /\ procs'[p].pc = Instr(p).next
        /\ Keeps(p, {"pc", "pend"})
        /\ \A q \in Pids \ {p} : Keeps(q, {"pend"})
    <3>1. procs'[p].pc = Instr(p).next
      BY <2>3, <2>5 DEF Fields
    <3>2. \A q \in Pids : \A f \in Fields \ {"pend"} : procs'[q][f] = gone[q][f]
      BY <2>5
    <3>3. \A q \in Pids : \A f \in Fields \ {"pc"} : gone[q][f] = procs[q][f]
      BY <2>2
    <3>4. \A q \in Pids \ {p} : gone[q] = procs[q]
      BY <2>2
    <3>5. Keeps(p, {"pc", "pend"})
      BY <3>2, <3>3 DEF Keeps
    <3>6. \A q \in Pids \ {p} : Keeps(q, {"pend"})
      BY <3>2, <3>4 DEF Keeps
    <3> QED BY <3>1, <3>5, <3>6
  <2> QED BY <1>2, <1>3, <2>5, <2>6 DEF sig, Q
<1>4. CASE ~ \E q \in Target(p) : q # 0 /\ procs[q].st # "gone"
  <2>1. procs' = [procs EXCEPT ![p].pc = Instr(p).other]
    BY <1>1, <1>4 DEF KillCall
  <2>2. /\ procs'[p].pc = Instr(p).other /\ Keeps(p, {"pc"})
        /\ \A q \in Pids \ {p} : procs'[q] = procs[q]
    BY <2>1 DEF Shape, Shaped, Fields, Keeps
  <2>3. /\ Keeps(p, {"pc", "pend"}) /\ \A q \in Pids \ {p} : Keeps(q, {"pend"})
        /\ \A q \in Pids : procs'[q].pend = procs[q].pend
    BY <2>2 DEF Fields, Keeps
  <2> QED BY <1>2, <1>4, <2>2, <2>3
<1> QED BY <1>3, <1>4

LEMMA Returning ==
    ASSUME Shape, NEW p \in Pids, Acts(p), Instr(p).op = "return"
    PROVE  /\ Calm /\ Marked(p) /\ Changes(p, {"pc", "mask", "frames"})
           /\ procs'[p].pc = Last(procs[p].frames).pc
           /\ procs'[p].mask = Last(procs[p].frames).mask
           /\ procs'[p].frames = Front(procs[p].frames)
<1>1. ReturnCall(p)
  BY ActsByOp
<1>2. Calm /\ Marked(p)
  BY <1>1 DEF ReturnCall, Calm, Mark, Marked
<1>3. procs' = [procs EXCEPT ![p].pc = Last(procs[p].frames).pc,
                             ![p].mask = Last(procs[p].frames).mask,
                             ![p].frames = Front(procs[p].frames)]
  BY <1>1 DEF ReturnCall, Shape, Shaped, Fields
<1> DEFINE frame == Last(procs[p].frames)
           rest == Front(procs[p].frames)
           new == [procs[p] EXCEPT !.pc = frame.pc, !.mask = frame.mask, !.frames = rest]
<1>4. procs'[p] = new /\ Others({p})
  <2> HIDE DEF frame, rest
  <2>1. procs' = [procs EXCEPT ![p].pc = frame.pc, ![p].mask = frame.mask, ![p].frames = rest]
    BY <1>3 DEF frame, rest
  <2> QED BY <2>1 DEF Shape, Others
<1>5. /\ new.pc = frame.pc /\ new.mask = frame.mask /\ new.frames = rest
      /\ \A f \in Fields \ {"pc", "mask", "frames"} : new[f] = procs[p][f]
  <2> HIDE DEF frame, rest
  <2>1. procs[p] = [f \in Fields |-> procs[p][f]]
    BY DEF Shape, Shaped
  <2> QED BY <2>1 DEF Fields
<1> HIDE DEF new
<1> QED BY <1>2, <1>4, <1>5 DEF Changes, Keeps

\* pause, sleep, sigsuspend.
LEMMA Sleeping ==
    ASSUME Shape, NEW p \in Pids, Acts(p), Instr(p).op \in {"pause", "sleep", "suspend"}
    PROVE  /\ UNCHANGED <<prog, memory, pipes, faults>>
           /\ \/ /\ ~ procs[p].asleep /\ sbuf[p] = <<>> /\ seen' = seen
                 /\ Changes(p, {"asleep"}) /\ procs'[p].asleep
              \/ /\ Instr(p).op = "sleep" /\ procs[p].asleep /\ ~ procs[p].alarm
                 /\ Marked(p) /\ Changes(p, {"asleep", "pc"}) /\ procs'[p].asleep = FALSE
                 /\ procs'[p].pc = Instr(p).next
<1>1. FallAsleep(p) \/ (Instr(p).op = "sleep" /\ WakeUp(p))
  BY ActsByOp
<1>2. CASE FallAsleep(p)
  <2>1. /\ UNCHANGED <<prog, memory, pipes, faults, seen>> /\ ~ procs[p].asleep /\ sbuf[p] = <<>>
        /\ procs' = [procs EXCEPT ![p].asleep = TRUE]
    BY <1>2 DEF FallAsleep, Calls
  <2> QED BY <2>1 DEF Changes, Others, Keeps, Shape, Shaped, Fields
<1>3. CASE Instr(p).op = "sleep" /\ WakeUp(p)
  <2>1. /\ UNCHANGED <<prog, memory, pipes, faults>> /\ procs[p].asleep /\ ~ procs[p].alarm
        /\ Marked(p)
        /\ procs' = [procs EXCEPT ![p].asleep = FALSE, ![p].pc = Instr(p).next]
    BY <1>3 DEF WakeUp, Mark, Marked
  <2>2. Changes(p, {"asleep", "pc"}) /\ procs'[p].asleep = FALSE /\ procs'[p].pc = Instr(p).next
    BY <2>1 DEF Changes, Others, Keeps, Shape, Shaped, Fields
  <2> QED BY <1>3, <2>1, <2>2
<1> QED BY <1>1, <1>2, <1>3

LEMMA Piping ==
    ASSUME Shape, NEW p \in Pids, Acts(p), Instr(p).op \in {"pipe", "close"}
    PROVE  /\ Calm /\ Marked(p) /\ Changes(p, {"pc", "fds"})
           /\ procs'[p].pc = Instr(p).next
           /\ Instr(p).op = "pipe" =>
                procs'[p].fds = procs[p].fds \cup ({Instr(p).chan} \X {"r", "w"})
           /\ Instr(p).op = "close" =>
                procs'[p].fds = procs[p].fds \ {<<Instr(p).chan, Instr(p).end>>}
<1>1. PipeCall(p)
  BY ActsByOp
<1>2. Calm /\ Marked(p)
  BY <1>1 DEF PipeCall, Calm, Mark, Marked
<1>3. PICK fds : /\ procs' = [procs EXCEPT ![p].fds = fds, ![p].pc = Instr(p).next]
                 /\ Instr(p).op = "pipe" => fds = procs[p].fds \cup ({Instr(p).chan} \X {"r", "w"})
                 /\ Instr(p).op = "close" => fds = procs[p].fds \ {<<Instr(p).chan, Instr(p).end>>}
  <2>1. CASE Instr(p).op = "pipe"
    BY <1>1, <2>1 DEF PipeCall, Calls, At
  <2>2. CASE Instr(p).op = "close"
    BY <1>1, <2>2 DEF PipeCall, Calls, At
  <2> QED BY <2>1, <2>2
<1>4. Changes(p, {"pc", "fds"}) /\ procs'[p].pc = Instr(p).next /\ procs'[p].fds = fds
  <2>1. procs' = [procs EXCEPT ![p].fds = fds, ![p].pc = Instr(p).next]
    BY <1>3
  <2> QED BY <2>1 DEF Changes, Others, Keeps, Shape, Shaped, Fields
<1> QED BY <1>2, <1>3, <1>4

LEMMA Writing ==
    ASSUME Shape, NEW p \in Pids, Acts(p), Instr(p).op = "write",
           NoChld, procs[p].ppid # p
    PROVE  /\ UNCHANGED <<prog, memory, shown, typed, faults>> /\ Marked(p) /\ sbuf[p] = <<>>
           /\ \/ /\ OpenEnd(Instr(p).chan, "r")
                 /\ chan' = [chan EXCEPT ![Instr(p).chan] = @ \o procs[p].buf]
                 /\ Changes(p, {"pc"}) /\ procs'[p].pc = Instr(p).next
              \/ /\ ~ OpenEnd(Instr(p).chan, "r")
                 /\ chan' = chan /\ Death(p, 1)
<1>1. WriteCall(p)
  BY ActsByOp
<1>2. UNCHANGED <<prog, memory, shown, typed, faults>> /\ Marked(p) /\ sbuf[p] = <<>>
  BY <1>1 DEF WriteCall, Mark, Marked, Calls
<1>3. CASE OpenEnd(Instr(p).chan, "r")
  <2>1. /\ chan' = [chan EXCEPT ![Instr(p).chan] = @ \o procs[p].buf]
        /\ procs' = [procs EXCEPT ![p].pc = Instr(p).next]
    BY <1>1, <1>3 DEF WriteCall
  <2>2. Changes(p, {"pc"}) /\ procs'[p].pc = Instr(p).next
    BY <2>1 DEF Changes, Others, Keeps, Shape, Shaped, Fields
  <2> QED BY <1>2, <1>3, <2>1, <2>2
<1>4. CASE ~ OpenEnd(Instr(p).chan, "r")
  <2>1. chan' = chan /\ procs' = Dies(procs, p, 1)
    BY <1>1, <1>4 DEF WriteCall
  <2>2. Death(p, 1)
    BY <2>1, Dying
  <2> QED BY <1>2, <1>4, <2>1, <2>2
<1> QED BY <1>3, <1>4

LEMMA Reading ==
    ASSUME Shape, NEW p \in Pids, Acts(p), Instr(p).op = "read"
    PROVE  /\ UNCHANGED <<prog, memory, shown, typed, faults>> /\ Marked(p)
           /\ chan[Instr(p).chan] # <<>> \/ ~ OpenEnd(Instr(p).chan, "w")
           /\ chan' = [chan EXCEPT ![Instr(p).chan] = <<>>]
           /\ Changes(p, {"pc", "buf"}) /\ procs'[p].buf = chan[Instr(p).chan]
           /\ procs'[p].pc = IF chan[Instr(p).chan] = <<>> THEN Instr(p).other ELSE Instr(p).next
<1>1. ReadCall(p)
  BY ActsByOp
<1>2. /\ UNCHANGED <<prog, memory, shown, typed, faults>> /\ Marked(p)
      /\ chan[Instr(p).chan] # <<>> \/ ~ OpenEnd(Instr(p).chan, "w")
      /\ chan' = [chan EXCEPT ![Instr(p).chan] = <<>>]
  BY <1>1 DEF ReadCall, Mark, Marked
<1>3. procs' = [procs EXCEPT
              ![p].buf = chan[Instr(p).chan],
              ![p].pc = IF chan[Instr(p).chan] = <<>> THEN Instr(p).other ELSE Instr(p).next]
  BY <1>1 DEF ReadCall
<1>4. /\ Changes(p, {"pc", "buf"}) /\ procs'[p].buf = chan[Instr(p).chan]
      /\ procs'[p].pc = IF chan[Instr(p).chan] = <<>> THEN Instr(p).other ELSE Instr(p).next
  BY <1>3 DEF Changes, Others, Keeps, Shape, Shaped, Fields
<1> QED BY <1>2, <1>4

LEMMA Typing ==
    ASSUME Shape, NEW p \in Pids, Acts(p), Instr(p).op = "input"
    PROVE  /\ UNCHANGED <<prog, memory, chan, shown, faults>> /\ Marked(p)
           /\ \/ /\ typed < MaxTyped /\ typed' = typed + 1
                 /\ Changes(p, {"pc", "buf"}) /\ procs'[p].buf = <<typed + 1>>
                 /\ procs'[p].pc = Instr(p).next
              \/ /\ typed' = typed
                 /\ Changes(p, {"pc"}) /\ procs'[p].pc = Instr(p).other
<1>1. InputCall(p)
  BY ActsByOp
<1>2. UNCHANGED <<prog, memory, chan, shown, faults>> /\ Marked(p)
  BY <1>1 DEF InputCall, Mark, Marked
<1>3. CASE /\ typed < MaxTyped /\ typed' = typed + 1
           /\ procs' = [procs EXCEPT ![p].buf = <<typed'>>, ![p].pc = Instr(p).next]
  <2>1. procs' = [procs EXCEPT ![p].buf = <<typed + 1>>, ![p].pc = Instr(p).next]
    BY <1>3
  <2>2. Changes(p, {"pc", "buf"}) /\ procs'[p].buf = <<typed + 1>> /\ procs'[p].pc = Instr(p).next
    BY <2>1 DEF Changes, Others, Keeps, Shape, Shaped, Fields
  <2> QED BY <1>2, <1>3, <2>2
<1>4. CASE typed' = typed /\ procs' = [procs EXCEPT ![p].pc = Instr(p).other]
  <2>1. Changes(p, {"pc"}) /\ procs'[p].pc = Instr(p).other
    BY <1>4 DEF Changes, Others, Keeps, Shape, Shaped, Fields
  <2> QED BY <1>2, <1>4, <2>1
<1> QED BY <1>1, <1>3, <1>4 DEF InputCall

LEMMA Showing ==
    ASSUME Shape, NEW p \in Pids, Acts(p), Instr(p).op \in {"show", "showstring"}
    PROVE  /\ UNCHANGED <<prog, memory, chan, typed, faults>> /\ Marked(p)
           /\ shown' = IF Instr(p).op = "show" THEN shown \o procs[p].buf
                       ELSE Append(shown, Head(procs[p].buf))
           /\ Changes(p, {"pc"}) /\ procs'[p].pc = Instr(p).next
<1>1. ShowCall(p)
  BY ActsByOp
<1>2. UNCHANGED <<prog, memory, chan, typed, faults>> /\ Marked(p)
  BY <1>1 DEF ShowCall, Go, Mark, Marked
<1>3. shown' = IF Instr(p).op = "show" THEN shown \o procs[p].buf
               ELSE Append(shown, Head(procs[p].buf))
  BY <1>1 DEF ShowCall, Calls, At
<1>4. procs' = [procs EXCEPT ![p].pc = Instr(p).next]
  BY <1>1 DEF ShowCall, Go
<1>5. Changes(p, {"pc"}) /\ procs'[p].pc = Instr(p).next
  BY <1>4 DEF Changes, Others, Keeps, Shape, Shaped, Fields
<1> QED BY <1>2, <1>3, <1>5

LEMMA Storing ==
    ASSUME Shape, NEW p \in Pids, Acts(p), Instr(p).op = "store"
    PROVE  /\ UNCHANGED <<prog, shm, early, pipes, faults>> /\ Marked(p)
           /\ sbuf' = [sbuf EXCEPT ![p] = Append(@, <<Instr(p).cell, Instr(p).val>>)]
           /\ Changes(p, {"pc"}) /\ procs'[p].pc = Instr(p).next
<1>1. StoreCall(p)
  BY ActsByOp
<1>2. /\ UNCHANGED <<prog, shm, early, pipes, faults>> /\ Marked(p)
      /\ sbuf' = [sbuf EXCEPT ![p] = Append(@, <<Instr(p).cell, Instr(p).val>>)]
      /\ procs' = [procs EXCEPT ![p].pc = Instr(p).next]
  BY <1>1 DEF StoreCall, Go, Mark, Marked
<1>3. Changes(p, {"pc"}) /\ procs'[p].pc = Instr(p).next
  BY <1>2 DEF Changes, Others, Keeps, Shape, Shaped, Fields
<1> QED BY <1>2, <1>3

\* What a load finds when the process has no store on its way.
LEMMA Loading ==
    ASSUME Shape, NEW p \in Pids, Acts(p), Instr(p).op = "load"
    PROVE  /\ UNCHANGED <<prog, shm, sbuf, pipes, faults>> /\ Marked(p)
           /\ early' = (early \/ sbuf[p] # <<>>)
           /\ Changes(p, {"pc"}) /\ procs'[p].pc \in {Instr(p).next, Instr(p).other}
           /\ sbuf[p] = <<>> =>
                procs'[p].pc = IF shm[Instr(p).cell] = Instr(p).val
                               THEN Instr(p).next ELSE Instr(p).other
<1>1. LoadCall(p)
  BY ActsByOp
<1>2. /\ UNCHANGED <<prog, shm, sbuf, pipes, faults>> /\ Marked(p)
      /\ early' = (early \/ sbuf[p] # <<>>)
  BY <1>1 DEF LoadCall, Go, Mark, Marked
<1> DEFINE own == {k \in DOMAIN sbuf[p] : sbuf[p][k][1] = Instr(p).cell}
           val == IF own = {} THEN shm[Instr(p).cell] ELSE sbuf[p][Max(own)][2]
           label == IF val = Instr(p).val THEN Instr(p).next ELSE Instr(p).other
<1>3. procs' = [procs EXCEPT ![p].pc = label]
  BY <1>1 DEF LoadCall, Go
<1>4. sbuf[p] = <<>> => own = {}
  OBVIOUS
<1> HIDE DEF own
<1>5. label \in {Instr(p).next, Instr(p).other}
      /\ (sbuf[p] = <<>> => label = IF shm[Instr(p).cell] = Instr(p).val
                                    THEN Instr(p).next ELSE Instr(p).other)
  BY <1>4
<1> HIDE DEF label
<1>6. Changes(p, {"pc"}) /\ procs'[p].pc = label
  BY <1>3 DEF Changes, Others, Keeps, Shape, Shaped, Fields
<1> QED BY <1>2, <1>5, <1>6

-----------------------------------------------------------------------------
(* What happens to p without a call of its own.                            *)

\* A handler of p starts.
Handled(p, sig) ==
    /\ sig \in procs[p].pend /\ procs[p].hand[sig] # "default"
    /\ Changes(p, {"pc", "frames", "mask", "pend", "asleep"})
    /\ procs'[p].pc = procs[p].hand[sig]
    /\ procs'[p].mask = procs[p].mask \cup {sig} /\ procs'[p].pend = procs[p].pend \ {sig}
    /\ procs'[p].asleep = FALSE
    /\ \E label \in IF procs[p].asleep /\ Instr(p).op \in {"pause", "sleep", "suspend"}
                    THEN {Instr(p).next} ELSE {procs[p].pc} :
          procs'[p].frames = Append(procs[p].frames, [pc |-> label, mask |-> procs[p].mask])

LEMMA Delivered ==
    ASSUME Shape, NEW p \in Pids, Deliver(p)
    PROVE  /\ UNCHANGED <<prog, memory, seen, pipes, faults>> /\ Running(p)
           /\ \E sig \in Deliverable(p) :
                \/ procs[p].hand[sig] = "default" /\ procs' = Dies(procs, p, 1)
                \/ Handled(p, sig)
<1>1. UNCHANGED <<prog, memory, seen, pipes, faults>> /\ Running(p)
  BY DEF Deliver
<1> DEFINE over == procs[p].asleep /\ Instr(p).op \in {"pause", "sleep", "suspend"}
           label == IF over THEN Instr(p).next ELSE procs[p].pc
           frame == [pc |-> label, mask |-> procs[p].mask]
<1>2. PICK sig \in Deliverable(p) :
        procs' =
            IF procs[p].hand[sig] = "default"
            THEN Dies(procs, p, 1)
            ELSE [procs EXCEPT ![p].pc = procs[p].hand[sig],
                               ![p].frames = Append(@, frame),
                               ![p].mask = @ \cup {sig},
                               ![p].pend = @ \ {sig},
                               ![p].asleep = FALSE]
  BY DEF Deliver
<1>3. sig \in procs[p].pend
  BY DEF Deliverable
<1>4. CASE procs[p].hand[sig] = "default"
  BY <1>1, <1>2, <1>4
<1>5. CASE procs[p].hand[sig] # "default"
  <2>1. label \in IF procs[p].asleep /\ Instr(p).op \in {"pause", "sleep", "suspend"}
                  THEN {Instr(p).next} ELSE {procs[p].pc}
    OBVIOUS
  <2> HIDE DEF over, label
  <2> DEFINE new == [procs[p] EXCEPT !.pc = procs[p].hand[sig],
                               !.frames = Append(@, frame),
                               !.mask = @ \cup {sig},
                               !.pend = @ \ {sig},
                               !.asleep = FALSE]
  <2>2. procs'[p] = new /\ Others({p})
    BY <1>2, <1>5 DEF Shape, Others
  <2>3. /\ new.pc = procs[p].hand[sig] /\ new.frames = Append(procs[p].frames, frame)
        /\ new.mask = procs[p].mask \cup {sig} /\ new.pend = procs[p].pend \ {sig}
        /\ new.asleep = FALSE
        /\ \A f \in Fields \ {"pc", "frames", "mask", "pend", "asleep"} : new[f] = procs[p][f]
    BY DEF Shape, Shaped, Fields
  <2> HIDE DEF new
  <2>4. Handled(p, sig)
    BY <1>3, <1>5, <2>1, <2>2, <2>3 DEF Handled, Changes, Keeps
  <2> QED BY <1>1, <2>4
<1> QED BY <1>4, <1>5

LEMMA Delivering ==
    ASSUME Shape, NoChld, NEW p \in Pids, procs[p].ppid # p, Deliver(p)
    PROVE  /\ UNCHANGED <<prog, memory, seen, pipes, faults>> /\ Running(p)
           /\ \E sig \in Deliverable(p) :
                \/ procs[p].hand[sig] = "default" /\ Death(p, 1)
                \/ Handled(p, sig)
  BY Delivered, Dying

LEMMA Ringing ==
    ASSUME Shape, NEW p \in Pids, AlarmRings(p)
    PROVE  /\ UNCHANGED <<prog, memory, seen, pipes, faults>> /\ Running(p)
           /\ procs[p].alarm /\ Changes(p, {"alarm", "pend"})
           /\ procs'[p].alarm = FALSE /\ procs'[p].pend = procs[p].pend \cup {"ALRM"}
<1>1. /\ UNCHANGED <<prog, memory, seen, pipes, faults>> /\ Running(p) /\ procs[p].alarm
      /\ procs' = [Sent(procs, {p}, "ALRM") EXCEPT ![p].alarm = FALSE]
  BY DEF AlarmRings
<1> DEFINE told == [procs[p] EXCEPT !.pend = @ \cup {"ALRM"}]
<1>2. /\ Sent(procs, {p}, "ALRM") = [q \in Pids |-> Sent(procs, {p}, "ALRM")[q]]
      /\ Sent(procs, {p}, "ALRM")[p] = told
      /\ \A q \in Pids \ {p} : Sent(procs, {p}, "ALRM")[q] = procs[q]
  BY <1>1 DEF Sent, Running
<1>3. /\ told.pend = procs[p].pend \cup {"ALRM"} /\ told = [f \in Fields |-> told[f]]
      /\ \A f \in Fields \ {"pend"} : told[f] = procs[p][f]
  BY DEF Shape, Shaped, Fields
<1> HIDE DEF told
<1>4. procs'[p] = [told EXCEPT !.alarm = FALSE] /\ Others({p})
  BY <1>1, <1>2 DEF Others
<1>5. /\ procs'[p].alarm = FALSE /\ procs'[p].pend = told.pend
      /\ \A f \in Fields \ {"alarm"} : procs'[p][f] = told[f]
  BY <1>3, <1>4 DEF Fields
<1>6. Keeps(p, {"alarm", "pend"})
  BY <1>3, <1>5 DEF Keeps
<1> QED BY <1>1, <1>3, <1>4, <1>5, <1>6 DEF Changes

\* A client, or a failure.
LEMMA Accepting ==
    ASSUME Shape, NEW p \in Pids, AcceptCall(p)
    PROVE  /\ Calm /\ Marked(p) /\ Running(p) /\ Changes(p, {"pc"})
           /\ Instr(p).op = "accept" /\ procs'[p].pc \in {Instr(p).next, Instr(p).other}
<1>1. /\ Calm /\ Marked(p) /\ Running(p) /\ Instr(p).op = "accept"
      /\ \E label \in {Instr(p).next, Instr(p).other} : procs' = [procs EXCEPT ![p].pc = label]
  BY DEF AcceptCall, Calls, At, Go, Mark, Marked, Calm
<1> QED BY <1>1 DEF Changes, Others, Keeps, Shape, Shaped, Fields

\* Ctrl-C
LEMMA Striking ==
    ASSUME Shape, CtrlC
    PROVE  /\ UNCHANGED <<prog, memory, seen, pipes, failed>> /\ ~ asked /\ asked'
           /\ prog \in {"exo2", "pause", "echoserveri"} /\ procs[1].hand["INT"] # "default"
           /\ \A q \in Pids : Keeps(q, {"pend"})
           /\ \E Q \in {Pids, {1}} : \A q \in Pids :
                procs'[q].pend = IF q \in Q /\ procs[q].st = "run"
                                 THEN procs[q].pend \cup {"INT"} ELSE procs[q].pend
<1>1. /\ UNCHANGED <<prog, memory, seen, pipes, failed>> /\ ~ asked /\ asked'
      /\ prog \in {"exo2", "pause", "echoserveri"} /\ procs[1].hand["INT"] # "default"
  BY DEF CtrlC
<1>2. PICK Q \in {Pids, {1}} : procs' = Sent(procs, Q, "INT")
  BY DEF CtrlC
<1>3. \A q \in Pids :
        /\ Keeps(q, {"pend"})
        /\ procs'[q].pend = IF q \in Q /\ procs[q].st = "run"
                            THEN procs[q].pend \cup {"INT"} ELSE procs[q].pend
  <2> TAKE q \in Pids
  <2> DEFINE old == procs[q]
             told == [old EXCEPT !.pend = @ \cup {"INT"}]
  <2>1. procs'[q] = IF q \in Q /\ old.st = "run" THEN told ELSE old
    BY <1>2 DEF Sent
  <2>2. old = [f \in Fields |-> old[f]]
    BY DEF Shape, Shaped
  <2> HIDE DEF old
  <2>3. told.pend = old.pend \cup {"INT"} /\ \A f \in Fields \ {"pend"} : told[f] = old[f]
    BY <2>2 DEF Fields
  <2> HIDE DEF told
  <2>4. \A f \in Fields \ {"pend"} : procs'[q][f] = old[f]
    BY <2>1, <2>3
  <2>5. procs'[q].pend = IF q \in Q /\ old.st = "run" THEN old.pend \cup {"INT"} ELSE old.pend
    BY <2>1, <2>3
  <2> QED BY <2>4, <2>5 DEF old, Keeps
<1> QED BY <1>1, <1>2, <1>3

-----------------------------------------------------------------------------
(* The processes stay records of the same shape, whatever runs.            *)

LEMMA UnbornShaped == Shaped(Unborn)
  BY DEF Unborn, Shaped, Fields, RegNames

LEMMA ShapedExcept ==
    ASSUME NEW r, Shaped(r), NEW f \in Fields \ {"regs", "hand"}, NEW v
    PROVE  Shaped([r EXCEPT ![f] = v])
<1> DEFINE new == [r EXCEPT ![f] = v]
<1>1. new = [g \in Fields |-> new[g]] /\ new.regs = r.regs /\ new.hand = r.hand
  BY DEF Shaped, Fields
<1> HIDE DEF new
<1>2. Shaped(new)
  BY <1>1 DEF Shaped
<1> QED BY <1>2 DEF new

LEMMA ShapedRegs ==
    ASSUME NEW r, Shaped(r), NEW n, NEW v
    PROVE  Shaped([r EXCEPT !.regs[n] = v])
<1> DEFINE old == r.regs
           regs == [old EXCEPT ![n] = v]
           new == [r EXCEPT !.regs[n] = v]
<1>1. old = [m \in RegNames |-> old[m]]
  BY DEF Shaped
<1>2. new = [g \in Fields |-> new[g]] /\ new.regs = regs /\ new.hand = r.hand
  BY DEF Shaped, Fields
<1> HIDE DEF old
<1>3. regs = [m \in RegNames |-> regs[m]]
  BY <1>1
<1> HIDE DEF new, regs
<1>4. Shaped(new)
  BY <1>2, <1>3 DEF Shaped
<1> QED BY <1>4 DEF new

LEMMA ShapedHand ==
    ASSUME NEW r, Shaped(r), NEW n, NEW v
    PROVE  Shaped([r EXCEPT !.hand[n] = v])
<1> DEFINE old == r.hand
           hand == [old EXCEPT ![n] = v]
           new == [r EXCEPT !.hand[n] = v]
<1>1. old = [m \in Signals |-> old[m]]
  BY DEF Shaped
<1>2. new = [g \in Fields |-> new[g]] /\ new.hand = hand /\ new.regs = r.regs
  BY DEF Shaped, Fields
<1> HIDE DEF old
<1>3. hand = [m \in Signals |-> hand[m]]
  BY <1>1
<1> HIDE DEF new, hand
<1>4. Shaped(new)
  BY <1>2, <1>3 DEF Shaped
<1> QED BY <1>4 DEF new

\* All the processes of a function that replaces procs.
AllShaped(ps) == ps = [p \in Pids |-> ps[p]] /\ \A p \in Pids : Shaped(ps[p])

LEMMA PutShaped ==
    ASSUME NEW ps, AllShaped(ps), NEW p, NEW r, Shaped(r)
    PROVE  AllShaped([ps EXCEPT ![p] = r])
  BY DEF AllShaped

LEMMA SentShaped ==
    ASSUME NEW ps, AllShaped(ps), NEW Q, NEW sig
    PROVE  AllShaped(Sent(ps, Q, sig))
<1>1. ASSUME NEW q \in Pids PROVE Shaped(Sent(ps, Q, sig)[q])
  <2>1. Shaped(ps[q]) /\ "pend" \in Fields \ {"regs", "hand"}
    BY DEF AllShaped, Fields
  <2>2. Shaped([ps[q] EXCEPT !["pend"] = ps[q].pend \cup {sig}])
    BY <2>1, ShapedExcept
  <2>3. Sent(ps, Q, sig)[q] \in {ps[q], [ps[q] EXCEPT !["pend"] = ps[q].pend \cup {sig}]}
    BY DEF Sent
  <2> QED BY <2>1, <2>2, <2>3
<1>2. Sent(ps, Q, sig) = [q \in Pids |-> Sent(ps, Q, sig)[q]]
  BY DEF Sent
<1> QED BY <1>1, <1>2 DEF AllShaped

LEMMA DiesShaped ==
    ASSUME NEW ps, AllShaped(ps), NEW p, NEW code
    PROVE  AllShaped(Dies(ps, p, code))
<1> DEFINE parent == ps[p].ppid
           st == IF parent = 0 THEN "gone" ELSE "zombie"
           dead == [Unborn EXCEPT !.st = st, !.pc = "end", !.ppid = parent, !.code = code]
           Of(q) == IF q = p THEN dead
            ELSE IF ps[q].ppid # p THEN ps[q]
            ELSE IF ps[q].st = "run" THEN [ps[q] EXCEPT !.ppid = 0]
            ELSE [Unborn EXCEPT !.st = "gone"]
           alone == [q \in Pids |-> Of(q)]
<1>1. Shaped(dead) /\ Shaped([Unborn EXCEPT !.st = "gone"])
  <2> DEFINE d1 == [Unborn EXCEPT !["st"] = st]
             d2 == [d1 EXCEPT !["pc"] = "end"]
             d3 == [d2 EXCEPT !["ppid"] = parent]
             d4 == [d3 EXCEPT !["code"] = code]
  <2>1. {"st", "pc", "ppid", "code"} \subseteq Fields \ {"regs", "hand"}
    BY DEF Fields
  <2>2. Shaped(d1)
    BY <2>1, UnbornShaped, ShapedExcept
  <2>3. Shaped(d2)
    BY <2>1, <2>2, ShapedExcept
  <2>4. Shaped(d3)
    BY <2>1, <2>3, ShapedExcept
  <2>5. Shaped(d4)
    BY <2>1, <2>4, ShapedExcept
  <2>6. Shaped([Unborn EXCEPT !["st"] = "gone"])
    BY <2>1, UnbornShaped, ShapedExcept
  <2> QED BY <2>5, <2>6
<1>2. ASSUME NEW q \in Pids PROVE Shaped(Of(q))
  <2>1. Shaped(ps[q]) /\ "ppid" \in Fields \ {"regs", "hand"}
    BY DEF AllShaped, Fields
  <2>2. Shaped([ps[q] EXCEPT !["ppid"] = 0])
    BY <2>1, ShapedExcept
  <2> QED BY <1>1, <2>1, <2>2
<1> HIDE DEF Of
<1>3. AllShaped(alone)
  BY <1>2 DEF AllShaped
<1>4. AllShaped(Sent(alone, {parent}, "CHLD"))
  BY <1>3, SentShaped
<1>5. Dies(ps, p, code) = IF parent = 0 THEN alone ELSE Sent(alone, {parent}, "CHLD")
  BY DEF Dies, Of
<1> QED BY <1>3, <1>4, <1>5

LEMMA ShapeInit == ProcInit => Shape
<1> SUFFICES ASSUME ProcInit PROVE Shape
  OBVIOUS
<1>1. ASSUME NEW p \in Pids PROVE Shaped(procs[p])
  <2>1. {"st", "pc"} \subseteq Fields \ {"regs", "hand"}
    BY DEF Fields
  <2>2. Shaped([Unborn EXCEPT !["st"] = "run"])
    BY <2>1, UnbornShaped, ShapedExcept
  <2>3. Shaped([[Unborn EXCEPT !["st"] = "run"] EXCEPT !["pc"] = Entries(prog)[p]])
    BY <2>1, <2>2, ShapedExcept
  <2> QED BY <2>3, UnbornShaped DEF ProcInit
<1> QED BY <1>1 DEF ProcInit, Shape

\* Where the new processes come from, in each action.
LEMMA OneIsChanged ==
    ASSUME Shape, NEW p \in Pids, NEW new,
           procs' = [procs EXCEPT ![p] = new],
           new = [f \in Fields |-> new[f]], new.regs = procs[p].regs, new.hand = procs[p].hand
    PROVE  Shape'
<1>1. Shaped(new)
  BY DEF Shape, Shaped
<1>2. AllShaped(procs)
  BY DEF AllShaped, Shape
<1>3. AllShaped(procs')
  BY <1>1, <1>2, PutShaped
<1> QED BY <1>3 DEF AllShaped, Shape

LEMMA NoneIsChanged == ASSUME Shape, procs' = procs PROVE Shape'
  BY DEF Shape, Shaped

LEMMA ShapeCompute == ASSUME Shape, NEW p \in Pids, Compute(p) PROVE Shape'
<1>1. PICK label : procs' = [procs EXCEPT ![p].pc = label]
  BY DEF Compute, Go
<1> DEFINE new == [procs[p] EXCEPT !.pc = label]
<1>2. procs' = [procs EXCEPT ![p] = new]
  BY <1>1
<1>3. new = [f \in Fields |-> new[f]] /\ new.regs = procs[p].regs /\ new.hand = procs[p].hand
  BY DEF Shape, Shaped, Fields
<1> QED BY <1>2, <1>3, OneIsChanged

LEMMA RegisterChanged ==
    ASSUME Shape, NEW p \in Pids, NEW n, NEW v, NEW label,
           procs' = [procs EXCEPT ![p].regs[n] = v, ![p].pc = label]
    PROVE  Shape'
<1>1. Shaped([procs[p] EXCEPT !.regs[n] = v])
  BY ShapedRegs DEF Shape
<1>2. Shaped([[procs[p] EXCEPT !.regs[n] = v] EXCEPT !["pc"] = label])
  BY <1>1, ShapedExcept DEF Fields
<1>3. AllShaped([procs EXCEPT ![p] = [[procs[p] EXCEPT !.regs[n] = v] EXCEPT !["pc"] = label]])
  BY <1>2, PutShaped DEF Shape, AllShaped
<1>4. procs' = [procs EXCEPT ![p] = [[procs[p] EXCEPT !.regs[n] = v] EXCEPT !["pc"] = label]]
  BY DEF Shape
<1> QED BY <1>3, <1>4 DEF AllShaped, Shape

LEMMA ShapeAssign == ASSUME Shape, NEW p \in Pids, Assign(p) PROVE Shape'
<1>1. CASE Instr(p).op = "set" /\ Instr(p).reg = "tab"
  <2>1. procs' = [procs EXCEPT
                ![p].regs["tab"] = [procs[p].regs.tab EXCEPT ![procs[p].regs.i] = p],
                ![p].pc = Instr(p).next]
    BY <1>1 DEF Assign, At, Shape, Shaped
  <2> QED BY <2>1, RegisterChanged
<1>2. CASE Instr(p).op = "set" /\ Instr(p).reg # "tab"
  <2>1. procs' = [procs EXCEPT ![p].regs[Instr(p).reg] = Instr(p).val,
                               ![p].pc = Instr(p).next]
    BY <1>2 DEF Assign, At, Shape, Shaped
  <2> QED BY <2>1, RegisterChanged
<1>3. CASE Instr(p).op # "set"
  <2>1. PICK v, label : procs' = [procs EXCEPT ![p].regs[Instr(p).reg] = v, ![p].pc = label]
    BY <1>3 DEF Assign, At
  <2> QED BY <2>1, RegisterChanged
<1> QED BY <1>1, <1>2, <1>3

LEMMA ShapeFork ==
    ASSUME Shape, NEW p \in Pids, ForkSon(p) \/ ForkFails(p) PROVE Shape'
<1>1. Shaped(procs[p]) /\ AllShaped(procs)
  BY DEF Shape, AllShaped
<1>2. CASE ForkSon(p)
  <2>1. PICK q \in Pids :
          /\ procs[q].st = "none"
          /\ procs' = [procs EXCEPT
              ![p].pc = Instr(p).next, ![p].regs.pid = q,
              ![q] = [procs[p] EXCEPT !.ppid = p, !.pc = Instr(p).child,
                                      !.regs.pid = 0, !.pend = {}, !.alarm = FALSE]]
    BY <1>2 DEF ForkSon
  <2> DEFINE f1 == [procs[p] EXCEPT !["pc"] = Instr(p).next]
             f2 == [f1 EXCEPT !.regs["pid"] = q]
             k1 == [procs[p] EXCEPT !["ppid"] = p]
             k2 == [k1 EXCEPT !["pc"] = Instr(p).child]
             k3 == [k2 EXCEPT !.regs["pid"] = 0]
             k4 == [k3 EXCEPT !["pend"] = {}]
             k5 == [k4 EXCEPT !["alarm"] = FALSE]
  <2>2. {"pc", "ppid", "pend", "alarm"} \subseteq Fields \ {"regs", "hand"}
    BY DEF Fields
  <2>3. Shaped(f1)
    BY <1>1, <2>2, ShapedExcept
  <2>4. Shaped(f2)
    BY <2>3, ShapedRegs
  <2>5. Shaped(k1)
    BY <1>1, <2>2, ShapedExcept
  <2>6. Shaped(k2)
    BY <2>2, <2>5, ShapedExcept
  <2>7. Shaped(k3)
    BY <2>6, ShapedRegs
  <2>8. Shaped(k4)
    BY <2>2, <2>7, ShapedExcept
  <2>9. Shaped(k5)
    BY <2>2, <2>8, ShapedExcept
  <2>10. procs' = [[procs EXCEPT ![p] = f2] EXCEPT ![q] = k5]
    BY <2>1 DEF Shape
  <2> HIDE DEF f2, k5
  <2>11. AllShaped([procs EXCEPT ![p] = f2])
    BY <1>1, <2>4, PutShaped
  <2>12. AllShaped([[procs EXCEPT ![p] = f2] EXCEPT ![q] = k5])
    BY <2>9, <2>11, PutShaped
  <2> QED BY <2>10, <2>12 DEF AllShaped, Shape
<1>3. CASE ForkFails(p)
  <2> DEFINE f1 == [procs[p] EXCEPT !["pc"] = Instr(p).other]
             f2 == [f1 EXCEPT !.regs["pid"] = -1]
  <2>1. Shaped(f1)
    BY <1>1, ShapedExcept DEF Fields
  <2>2. Shaped(f2)
    BY <2>1, ShapedRegs
  <2>3. procs' = [procs EXCEPT ![p] = f2]
    BY <1>3 DEF ForkFails, Shape
  <2> HIDE DEF f2
  <2>4. AllShaped([procs EXCEPT ![p] = f2])
    BY <1>1, <2>2, PutShaped
  <2> QED BY <2>3, <2>4 DEF AllShaped, Shape
<1> QED BY <1>2, <1>3

LEMMA ShapeEnds == ASSUME Shape, NEW p, NEW code, procs' = Dies(procs, p, code) PROVE Shape'
<1>1. AllShaped(procs')
  BY DiesShaped DEF Shape, AllShaped
<1> QED BY <1>1 DEF AllShaped, Shape

LEMMA ShapeReap == ASSUME Shape, NEW p \in Pids, Reap(p) PROVE Shape'
<1>1. Shaped(procs[p]) /\ AllShaped(procs)
  BY DEF Shape, AllShaped
<1>2. CASE \E q \in Zombies(p) :
            procs' = [procs EXCEPT ![p].pc = Instr(p).next,
                                   ![p].regs.status = procs[q].code,
                                   ![q] = [Unborn EXCEPT !.st = "gone"]]
  <2> PICK q \in Zombies(p) :
            procs' = [procs EXCEPT ![p].pc = Instr(p).next,
                                   ![p].regs.status = procs[q].code,
                                   ![q] = [Unborn EXCEPT !.st = "gone"]]
    BY <1>2
  <2> DEFINE f1 == [procs[p] EXCEPT !["pc"] = Instr(p).next]
             f2 == [f1 EXCEPT !.regs["status"] = procs[q].code]
             dead == [Unborn EXCEPT !["st"] = "gone"]
  <2>1. Shaped(f1) /\ Shaped(dead)
    BY <1>1, ShapedExcept, UnbornShaped DEF Fields
  <2>2. Shaped(f2)
    BY <2>1, ShapedRegs
  <2>3. procs' = [[procs EXCEPT ![p] = f2] EXCEPT ![q] = dead]
    BY DEF Shape
  <2> HIDE DEF f2, dead
  <2>4. AllShaped([procs EXCEPT ![p] = f2])
    BY <1>1, <2>2, PutShaped
  <2>5. AllShaped([[procs EXCEPT ![p] = f2] EXCEPT ![q] = dead])
    BY <2>1, <2>4, PutShaped
  <2> QED BY <2>3, <2>5 DEF AllShaped, Shape
<1>3. CASE ~ \E q \in Zombies(p) :
            procs' = [procs EXCEPT ![p].pc = Instr(p).next,
                                   ![p].regs.status = procs[q].code,
                                   ![q] = [Unborn EXCEPT !.st = "gone"]]
  <2>1. PICK label : procs' = [procs EXCEPT ![p].pc = label]
    BY <1>3 DEF Reap
  <2>2. procs' = [procs EXCEPT ![p] = [procs[p] EXCEPT !["pc"] = label]]
    BY <2>1
  <2>3. Shaped([procs[p] EXCEPT !["pc"] = label])
    BY <1>1, ShapedExcept DEF Fields
  <2>4. AllShaped(procs')
    BY <1>1, <2>2, <2>3, PutShaped
  <2> QED BY <2>4 DEF AllShaped, Shape
<1> QED BY <1>2, <1>3

Plain == Fields \ {"regs", "hand"}

LEMMA FieldsChanged ==
    ASSUME Shape, NEW p \in Pids, NEW f \in Plain, NEW g \in Plain, NEW h \in Plain,
           NEW u, NEW v, NEW w,
           procs' = [procs EXCEPT ![p] =
                [[[procs[p] EXCEPT ![f] = u] EXCEPT ![g] = v] EXCEPT ![h] = w]]
    PROVE  Shape'
<1> DEFINE r1 == [procs[p] EXCEPT ![f] = u]
           r2 == [r1 EXCEPT ![g] = v]
           r3 == [r2 EXCEPT ![h] = w]
<1>1. Shaped(r1)
  BY ShapedExcept DEF Shape, Plain
<1>2. Shaped(r2)
  BY <1>1, ShapedExcept DEF Plain
<1>3. Shaped(r3)
  BY <1>2, ShapedExcept DEF Plain
<1>4. procs' = [procs EXCEPT ![p] = r3]
  OBVIOUS
<1> HIDE DEF r3
<1>5. AllShaped([procs EXCEPT ![p] = r3])
  BY <1>3, PutShaped DEF Shape, AllShaped
<1> QED BY <1>4, <1>5 DEF AllShaped, Shape

LEMMA TwoFieldsChanged ==
    ASSUME Shape, NEW p \in Pids, NEW f \in Plain, NEW g \in Plain, NEW u, NEW v,
           procs' = [procs EXCEPT ![p] = [[procs[p] EXCEPT ![f] = u] EXCEPT ![g] = v]]
    PROVE  Shape'
<1> DEFINE r1 == [procs[p] EXCEPT ![f] = u]
           r2 == [r1 EXCEPT ![g] = v]
<1>1. Shaped(r1)
  BY ShapedExcept DEF Shape, Plain
<1>2. Shaped(r2)
  BY <1>1, ShapedExcept DEF Plain
<1>3. procs' = [procs EXCEPT ![p] = r2]
  OBVIOUS
<1> HIDE DEF r2
<1>4. AllShaped([procs EXCEPT ![p] = r2])
  BY <1>2, PutShaped DEF Shape, AllShaped
<1> QED BY <1>3, <1>4 DEF AllShaped, Shape

LEMMA LabelChanged ==
    ASSUME Shape, NEW p \in Pids, NEW label, procs' = [procs EXCEPT ![p].pc = label]
    PROVE  Shape'
<1> DEFINE new == [procs[p] EXCEPT !["pc"] = label]
<1>1. procs' = [procs EXCEPT ![p] = new]
  OBVIOUS
<1>2. Shaped(new)
  BY ShapedExcept DEF Shape, Fields
<1> HIDE DEF new
<1>3. AllShaped([procs EXCEPT ![p] = new])
  BY <1>2, PutShaped DEF Shape, AllShaped
<1> QED BY <1>1, <1>3 DEF AllShaped, Shape

LEMMA PlainFields == {"pc", "mask", "pend", "frames", "fds", "asleep", "alarm", "buf"} \subseteq Plain
  BY DEF Plain, Fields

LEMMA ShapeSignal == ASSUME Shape, NEW p \in Pids, SignalCall(p) PROVE Shape'
<1>1. CASE Instr(p).op = "handle"
  <2>1. Shaped([procs[p] EXCEPT !.hand[Instr(p).sig] = Instr(p).label])
    BY ShapedHand DEF Shape
  <2>2. Shaped([[procs[p] EXCEPT !.hand[Instr(p).sig] = Instr(p).label]
                    EXCEPT !["pc"] = Instr(p).next])
    BY <2>1, ShapedExcept DEF Fields
  <2>3. procs' = [procs EXCEPT ![p] =
                    [[procs[p] EXCEPT !.hand[Instr(p).sig] = Instr(p).label]
                        EXCEPT !["pc"] = Instr(p).next]]
    BY <1>1 DEF SignalCall, Calls, At, Shape
  <2>4. AllShaped(procs')
    BY <2>2, <2>3, PutShaped DEF Shape, AllShaped
  <2> QED BY <2>4 DEF AllShaped, Shape
<1>2. CASE Instr(p).op = "block"
  <2>1. procs' = [procs EXCEPT ![p] = [[procs[p] EXCEPT !["mask"] = procs[p].mask \cup Instr(p).sigs]
                                            EXCEPT !["pc"] = Instr(p).next]]
    BY <1>2 DEF SignalCall, Calls, At, Shape
  <2> QED BY <2>1, TwoFieldsChanged, PlainFields
<1>3. CASE Instr(p).op = "unblock"
  <2>1. procs' = [procs EXCEPT ![p] = [[procs[p] EXCEPT !["mask"] = procs[p].mask \ Instr(p).sigs]
                                            EXCEPT !["pc"] = Instr(p).next]]
    BY <1>3 DEF SignalCall, Calls, At, Shape
  <2> QED BY <2>1, TwoFieldsChanged, PlainFields
<1>4. CASE Instr(p).op = "pending"
  <2>1. PICK label : procs' = [procs EXCEPT ![p].pc = label]
    BY <1>4 DEF SignalCall, Calls, At
  <2> QED BY <2>1, LabelChanged
<1>5. CASE Instr(p).op = "alarm"
  <2>1. procs' = [procs EXCEPT ![p] = [[procs[p] EXCEPT !["alarm"] = TRUE]
                                            EXCEPT !["pc"] = Instr(p).next]]
    BY <1>5 DEF SignalCall, Calls, At, Shape
  <2> QED BY <2>1, TwoFieldsChanged, PlainFields
<1>6. Instr(p).op \in {"handle", "block", "unblock", "pending", "alarm"}
  BY DEF SignalCall, Calls, At
<1> QED BY <1>1, <1>2, <1>3, <1>4, <1>5, <1>6

\* The actions that change no register and no handler.
LEMMA ShapeOthers ==
    ASSUME Shape, NEW p \in Pids,
           \/ ReturnCall(p) \/ FallAsleep(p) \/ WakeUp(p)
           \/ PipeCall(p) \/ ReadCall(p) \/ InputCall(p) \/ ShowCall(p)
           \/ StoreCall(p) \/ LoadCall(p)
    PROVE  Shape'
<1> DEFINE old == procs[p]
<1> USE PlainFields
<1>1. CASE ReturnCall(p)
  <2>1. procs' = [procs EXCEPT ![p] =
            [[[procs[p] EXCEPT !["pc"] = Last(old.frames).pc]
                EXCEPT !["mask"] = Last(old.frames).mask]
                EXCEPT !["frames"] = Front(old.frames)]]
    BY <1>1 DEF ReturnCall, Shape, Shaped, Fields
  <2> QED BY <2>1, FieldsChanged
<1>2. CASE FallAsleep(p)
  <2>1. procs' = [procs EXCEPT ![p] = [[procs[p] EXCEPT !["asleep"] = TRUE] EXCEPT !["asleep"] = TRUE]]
    BY <1>2 DEF FallAsleep, Shape, Shaped, Fields
  <2> QED BY <2>1, TwoFieldsChanged
<1>3. CASE WakeUp(p)
  <2>1. procs' = [procs EXCEPT ![p] = [[procs[p] EXCEPT !["asleep"] = FALSE] EXCEPT !["pc"] = Instr(p).next]]
    BY <1>3 DEF WakeUp, Shape
  <2> QED BY <2>1, TwoFieldsChanged
<1>4. CASE PipeCall(p)
  <2>1. PICK v : procs' = [procs EXCEPT ![p].fds = v, ![p].pc = Instr(p).next]
    <3>1. \/ procs' = [procs EXCEPT ![p].fds = procs[p].fds \cup ({Instr(p).chan} \X {"r", "w"}),
                                    ![p].pc = Instr(p).next]
          \/ procs' = [procs EXCEPT ![p].fds = procs[p].fds \ {<<Instr(p).chan, Instr(p).end>>},
                                    ![p].pc = Instr(p).next]
      BY <1>4 DEF PipeCall, Shape
    <3> QED BY <3>1
  <2>2. procs' = [procs EXCEPT ![p] = [[procs[p] EXCEPT !["fds"] = v] EXCEPT !["pc"] = Instr(p).next]]
    BY <2>1 DEF Shape
  <2> QED BY <2>2, TwoFieldsChanged
<1>5. CASE ReadCall(p)
  <2>1. PICK b, l : procs' = [procs EXCEPT ![p].buf = b, ![p].pc = l]
    BY <1>5 DEF ReadCall
  <2>2. procs' = [procs EXCEPT ![p] = [[procs[p] EXCEPT !["buf"] = b] EXCEPT !["pc"] = l]]
    BY <2>1 DEF Shape
  <2> QED BY <2>2, TwoFieldsChanged
<1>6. CASE InputCall(p)
  <2>1. CASE procs' = [procs EXCEPT ![p].buf = <<typed'>>, ![p].pc = Instr(p).next]
    <3>1. procs' = [procs EXCEPT ![p] = [[procs[p] EXCEPT !["buf"] = <<typed'>>]
                                            EXCEPT !["pc"] = Instr(p).next]]
      BY <2>1 DEF Shape
    <3> QED BY <3>1, TwoFieldsChanged
  <2>2. CASE procs' = [procs EXCEPT ![p].pc = Instr(p).other]
    BY <2>2, LabelChanged
  <2> QED BY <1>6, <2>1, <2>2 DEF InputCall
<1>7. CASE ShowCall(p) \/ StoreCall(p) \/ LoadCall(p)
  <2>1. PICK l : procs' = [procs EXCEPT ![p].pc = l]
    BY <1>7 DEF ShowCall, StoreCall, LoadCall, Go
  <2> QED BY <2>1, LabelChanged
<1> QED BY <1>1, <1>2, <1>3, <1>4, <1>5, <1>6, <1>7

LEMMA ShapeSent ==
    ASSUME Shape, NEW ps, AllShaped(ps), NEW Q, NEW sig, procs' = Sent(ps, Q, sig)
    PROVE  Shape'
<1>1. AllShaped(procs')
  BY SentShaped
<1> QED BY <1>1 DEF AllShaped, Shape

LEMMA ShapeDeliver == ASSUME Shape, NEW p \in Pids, Deliver(p) PROVE Shape'
<1>1. PICK sig, frame :
        procs' =
            IF procs[p].hand[sig] = "default"
            THEN Dies(procs, p, 1)
            ELSE [procs EXCEPT ![p].pc = procs[p].hand[sig],
                               ![p].frames = Append(@, frame),
                               ![p].mask = @ \cup {sig},
                               ![p].pend = @ \ {sig},
                               ![p].asleep = FALSE]
  BY DEF Deliver
<1>2. CASE procs' = Dies(procs, p, 1)
  BY <1>2, ShapeEnds
<1>3. CASE procs' = [procs EXCEPT ![p].pc = procs[p].hand[sig],
                               ![p].frames = Append(@, frame),
                               ![p].mask = @ \cup {sig},
                               ![p].pend = @ \ {sig},
                               ![p].asleep = FALSE]
  <2> DEFINE new == [procs[p] EXCEPT !.pc = procs[p].hand[sig],
                               !.frames = Append(@, frame),
                               !.mask = @ \cup {sig},
                               !.pend = @ \ {sig},
                               !.asleep = FALSE]
  <2>1. procs' = [procs EXCEPT ![p] = new]
    BY <1>3 DEF Shape
  <2>2. new = [f \in Fields |-> new[f]] /\ new.regs = procs[p].regs /\ new.hand = procs[p].hand
    BY DEF Shape, Shaped, Fields
  <2> HIDE DEF new
  <2> QED BY <2>1, <2>2, OneIsChanged
<1> QED BY <1>1, <1>2, <1>3

LEMMA ShapeProceed == ASSUME Shape, NEW p \in Pids, Proceed(p) PROVE Shape'
<1>1. CASE Compute(p)
  BY <1>1, ShapeCompute
<1>2. CASE Assign(p)
  BY <1>2, ShapeAssign
<1>3. CASE ForkSon(p) \/ ForkFails(p)
  BY <1>3, ShapeFork
<1>4. CASE Ends(p)
  BY <1>4, ShapeEnds DEF Ends
<1>5. CASE Reap(p)
  BY <1>5, ShapeReap
<1>6. CASE SignalCall(p)
  BY <1>6, ShapeSignal
<1>7. CASE KillCall(p)
  <2> DEFINE gone == [procs EXCEPT ![p].pc = Instr(p).next]
  <2>1. gone = [procs EXCEPT ![p] = [procs[p] EXCEPT !["pc"] = Instr(p).next]]
    OBVIOUS
  <2>2. Shaped([procs[p] EXCEPT !["pc"] = Instr(p).next])
    BY ShapedExcept DEF Shape, Fields
  <2>3. AllShaped(gone)
    BY <2>1, <2>2, PutShaped DEF Shape, AllShaped
  <2>4. procs' = Sent(gone, Target(p), Instr(p).sig) \/ procs' = [procs EXCEPT ![p].pc = Instr(p).other]
    BY <1>7 DEF KillCall
  <2> QED BY <2>3, <2>4, ShapeSent, LabelChanged
<1>8. CASE Deliver(p)
  BY <1>8, ShapeDeliver
<1>9. CASE \/ ReturnCall(p) \/ FallAsleep(p) \/ WakeUp(p)
           \/ PipeCall(p) \/ ReadCall(p) \/ InputCall(p) \/ ShowCall(p)
           \/ StoreCall(p) \/ LoadCall(p)
  BY <1>9, ShapeOthers
<1>10. CASE AlarmRings(p)
  <2> DEFINE told == Sent(procs, {p}, "ALRM")
  <2>1. procs' = [told EXCEPT ![p].alarm = FALSE]
    BY <1>10 DEF AlarmRings
  <2>2. AllShaped(told)
    BY SentShaped DEF Shape, AllShaped
  <2> HIDE DEF told
  <2>3. procs' = [told EXCEPT ![p] = [told[p] EXCEPT !["alarm"] = FALSE]]
    BY <2>1
  <2>4. Shaped([told[p] EXCEPT !["alarm"] = FALSE])
    BY <2>2, ShapedExcept DEF AllShaped, Fields
  <2>5. AllShaped(procs')
    BY <2>2, <2>3, <2>4, PutShaped
  <2> QED BY <2>5 DEF AllShaped, Shape
<1>11. CASE WriteCall(p)
  <2>1. procs' = Dies(procs, p, 1) \/ procs' = [procs EXCEPT ![p].pc = Instr(p).next]
    BY <1>11 DEF WriteCall
  <2> QED BY <2>1, ShapeEnds, LabelChanged
<1> QED BY <1>1, <1>2, <1>3, <1>4, <1>5, <1>6, <1>7, <1>8, <1>9, <1>10, <1>11 DEF Proceed

LEMMA ShapeStep == ASSUME Shape, [ProcNext]_procVars PROVE Shape'
<1>1. CASE CtrlC
  <2>1. PICK Q : procs' = Sent(procs, Q, "INT")
    BY <1>1 DEF CtrlC
  <2> QED BY <2>1, ShapeSent DEF Shape, AllShaped
<1>2. ASSUME NEW p \in Pids, Proceed(p) PROVE Shape'
  BY <1>2, ShapeProceed
<1>3. ASSUME NEW p \in Pids, Drain(p) PROVE Shape'
  BY <1>3, NoneIsChanged DEF Drain
<1>4. ASSUME NEW p \in Pids, AcceptCall(p) PROVE Shape'
  BY <1>4, LabelChanged DEF AcceptCall, Go
<1>5. CASE UNCHANGED procVars
  BY <1>5, NoneIsChanged DEF procVars
<1> QED BY <1>1, <1>2, <1>3, <1>4, <1>5 DEF ProcNext

-----------------------------------------------------------------------------
(* No process ever stands outside its program, and none returns but from a *)
(* handler.                                                                *)

\* Where a call may lead.
Targets(c) ==
    CASE c.op \in {"step", "set", "poll", "handle", "block", "unblock", "pause",
                   "sleep", "suspend", "alarm", "pipe", "close", "write", "show",
                   "showstring", "store"} -> {c.next}
      [] c.op \in {"choose", "if", "loop", "wait", "pending", "kill", "read",
                   "input", "load", "passed", "accept"} -> {c.next, c.other}
      [] c.op = "fork" -> {c.next, c.other, c.child}
      [] OTHER -> {}

\* The labels of the handlers.
Handlers(name) ==
    CASE name = "slow_write" -> {"sigusr1", "sigusr2", "back"}
      [] name = "mask" -> {"sigint", "sigusr1"}
      [] name \in {"counterprob", "signal1"} -> {"handler", "nap", "back"}
      [] name = "exo2" -> {"handler1_1"}
      [] name = "pause" -> {"handler1_2"}
      [] name = "alarm" -> {"Handler", "back"}
      [] name = "echoserveri" -> {"handler_kill"}
      [] name = "q3" -> {"Traitant"}
      [] OTHER -> {}

\* A program P with the handlers H: its jumps stay in it, none but a signal
\* leads into a handler, only a handler returns.
Sound(P, H) ==
    /\ "unix_error" \notin DOMAIN P \cup H
    /\ \A l \in DOMAIN P :
        /\ Targets(P[l]) \subseteq DOMAIN P \cup {"unix_error"}
        /\ l \notin H => Targets(P[l]) \cap H = {}
        /\ P[l].op = "return" => l \in H
        /\ P[l].op = "handle" =>
                P[l].sig \in Signals /\ P[l].label \in H /\ P[l].label \in DOMAIN P
        /\ P[l].op \in {"block", "unblock"} => P[l].sigs \subseteq Signals
        /\ P[l].op = "kill" => P[l].sig \in Signals
        /\ P[l].op \in {"set", "loop"} => P[l].reg \in RegNames

\* The program each name stands for.
LEMMA CodeOf ==
    /\ Code["slow_write"] = SlowWrite
    /\ Code["peterson"] = Peterson
    /\ Code["shm"] = Together(ShmServer, ShmClient)
    /\ Code["mask"] = Mask
    /\ Code["counterprob"] = Counterprob
    /\ Code["signal1"] = Signal1
    /\ Code["exo2"] = SleepExercise
    /\ Code["pause"] = PauseExercise
    /\ Code["alarm"] = Beep
    /\ Code["waitpid1"] = Waitpid1
    /\ Code["waitpid1_segv"] = Waitpid1Segv
    /\ Code["ex4"] = Ex4
    /\ Code["ex3"] = Ex3
    /\ Code["arbre"] = Arbre
    /\ Code["chaine"] = Chaine
    /\ Code["ex2"] = Ex2
    /\ Code["echoserveri"] = Echoserveri
    /\ Code["tube_simple"] = TubeSimple
    /\ Code["pipe"] = PipeStrings
    /\ Code["dialogue"] = Dialogue
    /\ Code["q3"] = Relay
    /\ Code["mycopy"] = Mycopy
  BY DEF Code, Programs

LEMMA HandlersOf ==
    /\ Handlers("slow_write") = {"sigusr1", "sigusr2", "back"}
    /\ Handlers("peterson") = {}
    /\ Handlers("shm") = {}
    /\ Handlers("mask") = {"sigint", "sigusr1"}
    /\ Handlers("counterprob") = {"handler", "nap", "back"}
    /\ Handlers("signal1") = {"handler", "nap", "back"}
    /\ Handlers("exo2") = {"handler1_1"}
    /\ Handlers("pause") = {"handler1_2"}
    /\ Handlers("alarm") = {"Handler", "back"}
    /\ Handlers("waitpid1") = {}
    /\ Handlers("waitpid1_segv") = {}
    /\ Handlers("ex4") = {}
    /\ Handlers("ex3") = {}
    /\ Handlers("arbre") = {}
    /\ Handlers("chaine") = {}
    /\ Handlers("ex2") = {}
    /\ Handlers("echoserveri") = {"handler_kill"}
    /\ Handlers("tube_simple") = {}
    /\ Handlers("pipe") = {}
    /\ Handlers("dialogue") = {}
    /\ Handlers("q3") = {"Traitant"}
    /\ Handlers("mycopy") = {}
  BY DEF Handlers

\* The two programs of the shared memory have no label in common.
LEMMA BothSound == Sound(Together(ShmServer, ShmClient), {})
<1> DEFINE both == Together(ShmServer, ShmClient)
<1>1. /\ DOMAIN both = DOMAIN ShmServer \cup DOMAIN ShmClient
      /\ \A l \in DOMAIN both : both[l] = IF l \in DOMAIN ShmServer THEN ShmServer[l] ELSE ShmClient[l]
  BY DEF Together, ShmServer, ShmClient
<1>2. Sound(ShmServer, {})
  BY DEF Sound, Targets, Signals, RegNames, ShmServer, Store, Load, Star, Sleep, Step, Exit
<1>3. Sound(ShmClient, {})
  BY DEF Sound, Targets, Signals, RegNames, ShmClient, IfSeen, Load, Store, Star, Exit
<1> HIDE DEF both
<1>4. Sound(both, {})
  BY <1>1, <1>2, <1>3 DEF Sound
<1> QED BY <1>4 DEF both

LEMMA ProgramsSound == \A name \in Programs : Sound(Code[name], Handlers(name))
<1>1. Sound(SlowWrite, {"sigusr1", "sigusr2", "back"})
  BY DEF Sound, Targets, Signals, RegNames,
         SlowWrite, Handle, InitMask, Block, WFork, Fork, WaitParent,
         WaitFlag, If, Suspend, Set, Loop, TellChild, Kill, Return, Exit
<1>2. Sound(Peterson, {})
  BY DEF Sound, Targets, Signals, RegNames,
         Peterson, Store, C1, C2, Tpet, WFork, Fork, TestFlag, Load, Sleep,
         Wait, Exit
<1>3. Sound(Mask, {"sigint", "sigusr1"})
  BY DEF Sound, Targets, Signals, RegNames,
         Mask, Handle, Block, WKill, Kill, IfPending, Step, Unblock, Sleep,
         Return, Exit
<1>4. Sound(Counterprob, {"handler", "nap", "back"})
  BY DEF Sound, Targets, Signals, RegNames,
         Counterprob, Handle, WFork, Fork, WKill, Kill, Loop, WWait, Wait,
         Step, Sleep, Return, Exit
<1>5. Sound(Signal1, {"handler", "nap", "back"})
  BY DEF Sound, Targets, Signals, RegNames,
         Signal1, Handle, WFork, Fork, Sleep, Exit, Loop, Sons, Pause,
         WaitNoHang, Return
<1>6. Sound(SleepExercise, {"handler1_1"})
  BY DEF Sound, Targets, Signals, RegNames,
         SleepExercise, Handle, Sleep, Return, Exit
<1>7. Sound(PauseExercise, {"handler1_2"})
  BY DEF Sound, Targets, Signals, RegNames,
         PauseExercise, Handle, Pause, Return, Exit
<1>8. Sound(Beep, {"Handler", "back"})
  BY DEF Sound, Targets, Signals, RegNames,
         Beep, Handle, If, Beeps, Alarm, Sleep, Loop, Return, Exit
<1>9. Sound(Waitpid1, {})
  BY DEF Sound, Targets, Signals, RegNames,
         Waitpid1, WaitpidOf, WFork, Fork, Loop, Wait, If, Step, Exit
<1>10. Sound(Waitpid1Segv, {})
  BY DEF Sound, Targets, Signals, RegNames,
         Waitpid1Segv, WaitpidOf, WFork, Fork, Loop, Wait, If, Step, Exit,
         Segv
<1>11. Sound(Ex4, {})
  BY DEF Sound, Targets, Signals, RegNames,
         Ex4, RawFork, Fork, RawWait, Wait, WaitSon, Exit
<1>12. Sound(Ex3, {})
  BY DEF Sound, Targets, Signals, RegNames,
         Ex3, RawFork, Fork, RawWait, Wait, WaitSon, Exit
<1>13. Sound(Arbre, {})
  BY DEF Sound, Targets, Signals, RegNames,
         Arbre, Fork, Loop, Levels, RawWait, Wait, Exit
<1>14. Sound(Chaine, {})
  BY DEF Sound, Targets, Signals, RegNames,
         Chaine, RawFork, Fork, RawWait, Wait, Loop, Levels, Exit
<1>15. Sound(Ex2, {})
  BY DEF Sound, Targets, Signals, RegNames,
         Ex2, Choose, Segv, Exit
<1>16. Sound(Echoserveri, {"handler_kill"})
  BY DEF Sound, Targets, Signals, RegNames,
         Echoserveri, Handle, RawFork, Fork, Set, PoolWait, RawWait, Wait,
         Loop, NPROC, If, Accept, Choose, Segv, Kill, Exit
<1>17. Sound(TubeSimple, {})
  BY DEF Sound, Targets, Signals, RegNames,
         TubeSimple, Pipe, Fork, Close, Read, Show, Input, Write, Exit
<1>18. Sound(PipeStrings, {})
  BY DEF Sound, Targets, Signals, RegNames,
         PipeStrings, Pipe, RawFork, Fork, Close, Input, Write, Read,
         ShowString, Exit
<1>19. Sound(Dialogue, {})
  BY DEF Sound, Targets, Signals, RegNames,
         Dialogue, Pipe, RawFork, Fork, Close, Input, Write, Read, Exit
<1>20. Sound(Relay, {"Traitant"})
  BY DEF Sound, Targets, Signals, RegNames,
         Relay, Handle, Pipe, WFork, Fork, Close, Read, ShowAll, Show, Input,
         Write, CloseTube, WWait, Wait, Return, Exit
<1>21. Sound(Mycopy, {})
  BY DEF Sound, Targets, Signals, RegNames,
         Mycopy, Choose, Input, Show, Step, Exit
<1>22. ASSUME NEW name \in Programs PROVE Sound(Code[name], Handlers(name))
  <2>1. CASE name = "slow_write"
    BY <1>1, <2>1, CodeOf, HandlersOf
  <2>2. CASE name = "peterson"
    BY <1>2, <2>2, CodeOf, HandlersOf
  <2>3. CASE name = "mask"
    BY <1>3, <2>3, CodeOf, HandlersOf
  <2>4. CASE name = "counterprob"
    BY <1>4, <2>4, CodeOf, HandlersOf
  <2>5. CASE name = "signal1"
    BY <1>5, <2>5, CodeOf, HandlersOf
  <2>6. CASE name = "exo2"
    BY <1>6, <2>6, CodeOf, HandlersOf
  <2>7. CASE name = "pause"
    BY <1>7, <2>7, CodeOf, HandlersOf
  <2>8. CASE name = "alarm"
    BY <1>8, <2>8, CodeOf, HandlersOf
  <2>9. CASE name = "waitpid1"
    BY <1>9, <2>9, CodeOf, HandlersOf
  <2>10. CASE name = "waitpid1_segv"
    BY <1>10, <2>10, CodeOf, HandlersOf
  <2>11. CASE name = "ex4"
    BY <1>11, <2>11, CodeOf, HandlersOf
  <2>12. CASE name = "ex3"
    BY <1>12, <2>12, CodeOf, HandlersOf
  <2>13. CASE name = "arbre"
    BY <1>13, <2>13, CodeOf, HandlersOf
  <2>14. CASE name = "chaine"
    BY <1>14, <2>14, CodeOf, HandlersOf
  <2>15. CASE name = "ex2"
    BY <1>15, <2>15, CodeOf, HandlersOf
  <2>16. CASE name = "echoserveri"
    BY <1>16, <2>16, CodeOf, HandlersOf
  <2>17. CASE name = "tube_simple"
    BY <1>17, <2>17, CodeOf, HandlersOf
  <2>18. CASE name = "pipe"
    BY <1>18, <2>18, CodeOf, HandlersOf
  <2>19. CASE name = "dialogue"
    BY <1>19, <2>19, CodeOf, HandlersOf
  <2>20. CASE name = "q3"
    BY <1>20, <2>20, CodeOf, HandlersOf
  <2>21. CASE name = "mycopy"
    BY <1>21, <2>21, CodeOf, HandlersOf
  <2>22. CASE name = "shm"
    BY <2>22, BothSound, CodeOf, HandlersOf
  <2> QED BY <2>1, <2>2, <2>3, <2>4, <2>5, <2>6, <2>7, <2>8, <2>9, <2>10, <2>11,
         <2>12, <2>13, <2>14, <2>15, <2>16, <2>17, <2>18, <2>19, <2>20, <2>21, <2>22 DEF Programs
<1> QED BY <1>22

-----------------------------------------------------------------------------
(* So every process stays inside its program.                              *)

Labels == DOMAIN Code[prog] \cup {"unix_error"}
Frame == [pc : Labels, mask : SUBSET Signals]

Placed(p) ==
    LET r == procs[p] IN
    /\ r.st \in {"none", "run", "zombie", "gone"}
    /\ r.ppid \in (Pids \cup {0}) \ {p}
    /\ r.st = "run" => r.pc \in Labels
    /\ r.st = "run" /\ r.pc \in Handlers(prog) => r.frames # <<>>
    /\ \A s \in Signals : r.hand[s] \in (Handlers(prog) \cap DOMAIN Code[prog]) \cup {"default"}
    /\ r.pend \subseteq Signals /\ r.mask \subseteq Signals
    /\ r.frames \in Seq(Frame)
    /\ r.frames # <<>> => r.frames[1].pc \notin Handlers(prog)

ProcTypeOK ==
    /\ prog \in Programs
    /\ Shape
    /\ \A p \in Pids : Placed(p)

LEMMA UnbornPlaced ==
    ASSUME NEW p \in Pids, prog' = prog,
           procs'[p].st \in {"none", "gone", "zombie"},
           procs'[p].ppid \in (Pids \cup {0}) \ {p},
           \A f \in Fields \ {"st", "pc", "ppid", "code"} : procs'[p][f] = Unborn[f]
    PROVE  Placed(p)'
<1>1. /\ procs'[p].hand = [s \in Signals |-> "default"] /\ procs'[p].frames = <<>>
      /\ procs'[p].pend = {} /\ procs'[p].mask = {}
  BY DEF Fields, Unborn
<1>2. procs'[p].frames \in Seq(Frame')
  BY <1>1, EmptySeq
<1>3. procs'[p].st # "run"
  OBVIOUS
<1> QED BY <1>1, <1>2, <1>3 DEF Placed, Pids

\* A process whose label, registers and wakefulness alone change.
LEMMA StaysPlaced ==
    ASSUME NEW p \in Pids, Placed(p), prog' = prog, procs'[p].ppid \in {0, procs[p].ppid},
           Keeps(p, {"pc", "ppid", "regs", "pend", "mask", "fds", "buf", "asleep", "alarm", "code"}),
           procs'[p].pend \subseteq Signals, procs'[p].mask \subseteq Signals,
           procs[p].st = "run" =>
                /\ procs'[p].pc \in Labels
                /\ procs'[p].pc \in Handlers(prog) => procs[p].frames # <<>>
    PROVE  Placed(p)'
<1>1. /\ procs'[p].st = procs[p].st /\ procs'[p].hand = procs[p].hand
      /\ procs'[p].frames = procs[p].frames
  BY DEF Keeps, Fields
<1>2. Labels' = Labels /\ Frame' = Frame
  BY DEF Labels, Frame
<1> QED BY <1>1, <1>2 DEF Placed, Pids, Signals

\* Where the code of p leads.
LEMMA CodeAt ==
    ASSUME ProcTypeOK, NEW p \in Pids, Running(p)
    PROVE  /\ Targets(Instr(p)) \cup {"unix_error", procs[p].pc} \subseteq Labels
           /\ procs[p].pc \notin Handlers(prog) =>
                (Targets(Instr(p)) \cup {"unix_error", procs[p].pc}) \cap Handlers(prog) = {}
           /\ Instr(p).op = "return" => procs[p].pc \in Handlers(prog)
           /\ Instr(p).op = "handle" =>
                Instr(p).sig \in Signals /\ Instr(p).label \in Handlers(prog) \cap DOMAIN Code[prog]
           /\ Instr(p).op \in {"block", "unblock"} => Instr(p).sigs \subseteq Signals
           /\ Instr(p).op = "kill" => Instr(p).sig \in Signals
           /\ Instr(p).op \in {"set", "loop"} => Instr(p).reg \in RegNames
<1>1. Sound(Code[prog], Handlers(prog)) /\ procs[p].pc \in Labels
  BY ProgramsSound DEF ProcTypeOK, Placed, Running
<1>2. CASE procs[p].pc = "unix_error"
  BY <1>1, <1>2 DEF Instr, Exit, Targets, Sound, Labels
<1>3. CASE procs[p].pc # "unix_error"
  <2>1. procs[p].pc \in DOMAIN Code[prog] /\ Instr(p) = Code[prog][procs[p].pc]
    BY <1>1, <1>3 DEF Labels, Instr
  <2> QED BY <1>1, <2>1 DEF Sound, Labels
<1> QED BY <1>2, <1>3

\* p goes on where its code leads.
LEMMA GoesOn ==
    ASSUME ProcTypeOK, NEW p \in Pids, Running(p), prog' = prog,
           Keeps(p, {"pc", "regs", "pend", "mask", "fds", "buf", "asleep", "alarm"}),
           procs'[p].pend \subseteq Signals, procs'[p].mask \subseteq Signals,
           procs'[p].pc \in Targets(Instr(p)) \cup {"unix_error", procs[p].pc}
    PROVE  Placed(p)'
<1>1. Placed(p)
  BY DEF ProcTypeOK
<1>2. /\ procs'[p].ppid \in {0, procs[p].ppid}
      /\ Keeps(p, {"pc", "ppid", "regs", "pend", "mask", "fds", "buf", "asleep", "alarm", "code"})
  BY DEF Keeps, Fields
<1>3. /\ procs'[p].pc \in Labels
      /\ procs'[p].pc \in Handlers(prog) => procs[p].frames # <<>>
  BY <1>1, CodeAt DEF Placed, Running
<1> QED BY <1>1, <1>2, <1>3, StaysPlaced

LEMMA OthersPlaced ==
    ASSUME ProcTypeOK, prog' = prog, NEW S, Others(S)
    PROVE  \A q \in Pids \ S : Placed(q)'
<1> SUFFICES ASSUME NEW q \in Pids \ S PROVE Placed(q)'
  OBVIOUS
<1>1. procs'[q] = procs[q] /\ Placed(q)
  BY DEF Others, ProcTypeOK
<1>2. Labels' = Labels /\ Frame' = Frame
  BY DEF Labels, Frame
<1> QED BY <1>1, <1>2 DEF Placed, Pids, Signals

LEMMA FadedPlaced ==
    ASSUME ProcTypeOK, prog' = prog, NEW q \in Pids, Fades(q)
    PROVE  Placed(q)'
<1>1. Placed(q)
  BY DEF ProcTypeOK
<1>2. CASE /\ procs'[q].st \in {"gone", "zombie"} /\ procs'[q].ppid \in {0, procs[q].ppid}
           /\ \A f \in Fields \ {"st", "pc", "ppid", "code"} : procs'[q][f] = Unborn[f]
  BY <1>1, <1>2, UnbornPlaced DEF Placed, Pids
<1>3. CASE /\ Keeps(q, {"ppid", "pend"}) /\ procs'[q].ppid \in {0, procs[q].ppid}
           /\ procs'[q].pend \in {procs[q].pend, procs[q].pend \cup {"CHLD"}}
  <2>1. /\ Keeps(q, {"pc", "ppid", "regs", "pend", "mask", "fds", "buf", "asleep", "alarm", "code"})
        /\ procs'[q].pc = procs[q].pc /\ procs'[q].mask = procs[q].mask
    BY <1>3 DEF Keeps, Fields
  <2>2. procs'[q].pend \subseteq Signals /\ procs'[q].mask \subseteq Signals
    BY <1>1, <1>3, <2>1 DEF Placed, Signals
  <2> QED BY <1>1, <1>3, <2>1, <2>2, StaysPlaced DEF Placed
<1> QED BY <1>2, <1>3 DEF Fades

LEMMA ReturnPlaced ==
    ASSUME ProcTypeOK, NEW p \in Pids, Acts(p), Instr(p).op = "return"
    PROVE  Placed(p)'
<1> DEFINE frames == procs[p].frames
<1>1. Running(p) /\ Placed(p) /\ Shape
  BY ActsByOp DEF ProcTypeOK
<1>2. /\ frames \in Seq(Frame) /\ frames # <<>> /\ frames[1].pc \notin Handlers(prog)
  BY <1>1, CodeAt DEF Placed, Running
<1>3. /\ prog' = prog /\ Keeps(p, {"pc", "mask", "frames"})
      /\ procs'[p].pc = Last(frames).pc /\ procs'[p].mask = Last(frames).mask
      /\ procs'[p].frames = Front(frames)
  BY <1>1, Returning DEF Calm, Changes
<1> HIDE DEF frames
<1>4. Len(frames) \in Nat \ {0} /\ Last(frames) = frames[Len(frames)] /\ Last(frames) \in Frame
  BY <1>2, EmptySeq, LenProperties, ElementOfSeq DEF Last
<1>5. /\ Front(frames) \in Seq(Frame)
      /\ Len(frames) = 1 => Last(frames) = frames[1]
      /\ Len(frames) # 1 => Front(frames) # <<>> /\ Front(frames)[1] = frames[1]
      /\ Len(frames) = 1 => Front(frames) = <<>>
  <2>1. Front(frames) = SubSeq(frames, 1, Len(frames) - 1)
    BY DEF Front
  <2>2. \A i \in 1..(Len(frames) - 1) : frames[i] \in Frame
    BY <1>2, <1>4, ElementOfSeq
  <2>3. /\ Front(frames) \in Seq(Frame) /\ Len(Front(frames)) = Len(frames) - 1
        /\ \A i \in 1..(Len(frames) - 1) : Front(frames)[i] = frames[i]
    <3>1. 1 \in Int /\ Len(frames) - 1 \in Int
      BY <1>4
    <3> DEFINE n == Len(frames) - 1
    <3>2. /\ SubSeq(frames, 1, n) \in Seq(Frame)
          /\ Len(SubSeq(frames, 1, n)) = IF 1 <= n THEN n - 1 + 1 ELSE 0
          /\ \A i \in 1..(n - 1 + 1) : SubSeq(frames, 1, n)[i] = frames[1 + i - 1]
      <4> HIDE DEF n
      <4> QED BY <2>2, <3>1, SubSeqProperties DEF n
    <3>3. n \in Nat /\ n - 1 + 1 = n
      BY <1>4
    <3> HIDE DEF n
    <3>4. \A i \in 1..n : 1 + i - 1 = i
      BY <3>3
    <3>5. \A i \in 1..n : SubSeq(frames, 1, n)[i] = frames[i]
      BY <3>2, <3>3, <3>4
    <3>6. Len(SubSeq(frames, 1, n)) = n
      BY <3>2, <3>3
    <3>7. Front(frames) = SubSeq(frames, 1, n)
      BY <2>1 DEF n
    <3> QED BY <3>2, <3>5, <3>6, <3>7 DEF n
  <2> QED BY <1>4, <2>3, LenProperties, EmptySeq
<1>6. Last(frames).pc \in Labels /\ Last(frames).mask \subseteq Signals
  BY <1>4 DEF Frame
<1>7. /\ procs'[p].st = procs[p].st /\ procs'[p].hand = procs[p].hand
      /\ procs'[p].ppid = procs[p].ppid /\ procs'[p].pend = procs[p].pend
  BY <1>3 DEF Keeps, Fields
<1>8. Labels' = Labels /\ Frame' = Frame
  BY <1>3 DEF Labels, Frame
<1>9. procs'[p].pc \in Handlers(prog) => Front(frames) # <<>>
  BY <1>2, <1>3, <1>5
<1>10. Front(frames) # <<>> => Front(frames)[1].pc \notin Handlers(prog)
  BY <1>2, <1>5
<1> QED BY <1>1, <1>3, <1>5, <1>6, <1>7, <1>8, <1>9, <1>10 DEF Placed, Pids, Signals

LEMMA HandledPlaced ==
    ASSUME ProcTypeOK, NEW p \in Pids, Running(p), prog' = prog, NEW sig, Handled(p, sig)
    PROVE  Placed(p)'
<1> DEFINE frames == procs[p].frames
<1>1. Placed(p) /\ Shape
  BY DEF ProcTypeOK
<1>2. sig \in Signals
  BY <1>1 DEF Handled, Placed
<1>3. PICK label \in Targets(Instr(p)) \cup {procs[p].pc} :
        procs'[p].frames = Append(frames, [pc |-> label, mask |-> procs[p].mask])
  <2>1. Instr(p).op \in {"pause", "sleep", "suspend"} => Instr(p).next \in Targets(Instr(p))
    BY DEF Targets
  <2> QED BY <2>1 DEF Handled
<1> DEFINE new == [pc |-> label, mask |-> procs[p].mask]
<1>4. new \in Frame
  BY <1>1, CodeAt DEF Frame, Placed
<1>5. frames \in Seq(Frame) /\ procs'[p].frames = Append(frames, new)
  BY <1>1, <1>3 DEF Placed
<1>6. procs[p].pc \notin Handlers(prog) => new.pc \notin Handlers(prog)
  BY CodeAt
<1>7. /\ frames = <<>> => new.pc \notin Handlers(prog)
      /\ frames # <<>> => frames[1].pc \notin Handlers(prog)
  BY <1>1, <1>6 DEF Placed, Running
<1> HIDE DEF frames, new
<1>8. /\ Append(frames, new) \in Seq(Frame) /\ Append(frames, new) # <<>>
      /\ frames = <<>> => Append(frames, new)[1] = new
      /\ frames # <<>> => Append(frames, new)[1] = frames[1]
  BY <1>4, <1>5, AppendProperties, EmptySeq, LenProperties
<1>9. /\ procs'[p].st = procs[p].st /\ procs'[p].hand = procs[p].hand
      /\ procs'[p].ppid = procs[p].ppid /\ procs'[p].pend \subseteq procs[p].pend
      /\ procs'[p].mask \subseteq Signals
      /\ procs'[p].pc = procs[p].hand[sig] /\ procs[p].hand[sig] # "default"
  BY <1>1, <1>2 DEF Handled, Changes, Keeps, Fields, Placed
<1>10. procs'[p].pc \in Labels
  BY <1>1, <1>2, <1>9 DEF Placed, Labels
<1>11. Labels' = Labels /\ Frame' = Frame
  BY DEF Labels, Frame
<1>12. Append(frames, new)[1].pc \notin Handlers(prog)
  BY <1>7, <1>8
<1> QED BY <1>1, <1>5, <1>8, <1>9, <1>10, <1>11, <1>12 DEF Placed, Pids, Signals

LEMMA HandlePlaced ==
    ASSUME ProcTypeOK, NEW p \in Pids, Acts(p), Instr(p).op = "handle"
    PROVE  Placed(p)'
<1>1. Running(p) /\ Placed(p) /\ Shape
  BY ActsByOp DEF ProcTypeOK
<1>2. /\ prog' = prog /\ Keeps(p, {"pc", "hand"}) /\ procs'[p].pc = Instr(p).next
      /\ procs'[p].hand = [procs[p].hand EXCEPT ![Instr(p).sig] = Instr(p).label]
  BY <1>1, Signalling DEF Calm
<1>3. \A s \in Signals : procs'[p].hand[s] \in {procs[p].hand[s], Instr(p).label}
  BY <1>1, <1>2 DEF Shape, Shaped
<1>4. /\ procs'[p].st = procs[p].st /\ procs'[p].frames = procs[p].frames
      /\ procs'[p].ppid = procs[p].ppid /\ procs'[p].pend = procs[p].pend
      /\ procs'[p].mask = procs[p].mask
  BY <1>2 DEF Keeps, Fields
<1>5. procs'[p].pc \in Targets(Instr(p))
  BY <1>2 DEF Targets
<1>6. /\ procs'[p].pc \in Labels
      /\ procs'[p].pc \in Handlers(prog) => procs[p].frames # <<>>
  BY <1>1, <1>5, CodeAt DEF Placed, Running
<1>7. \A s \in Signals : procs'[p].hand[s] \in (Handlers(prog) \cap DOMAIN Code[prog]) \cup {"default"}
  BY <1>1, <1>3, CodeAt DEF Placed
<1>8. Labels' = Labels /\ Frame' = Frame
  BY <1>2 DEF Labels, Frame
<1> QED BY <1>1, <1>2, <1>4, <1>6, <1>7, <1>8 DEF Placed, Pids, Signals

LEMMA BornPlaced ==
    ASSUME ProcTypeOK, NEW p \in Pids, Running(p), prog' = prog, Instr(p).op = "fork",
           NEW q, Born(p, q)
    PROVE  Placed(p)' /\ Placed(q)'
<1>1. Placed(p)
  BY DEF ProcTypeOK
<1>2. Instr(p).next \in Targets(Instr(p)) /\ Instr(p).child \in Targets(Instr(p))
  BY DEF Targets
<1>3. Placed(p)'
  <2>1. /\ Keeps(p, {"pc", "regs", "pend", "mask", "fds", "buf", "asleep", "alarm"})
        /\ procs'[p].pend = procs[p].pend /\ procs'[p].mask = procs[p].mask
        /\ procs'[p].pc = Instr(p).next
    BY DEF Born, Keeps, Fields
  <2> QED BY <1>1, <1>2, <2>1, GoesOn DEF Placed
<1>4. Placed(q)'
  <2>1. /\ q \in Pids /\ q # p /\ procs'[q].ppid = p /\ procs'[q].pc = Instr(p).child
        /\ procs'[q].pend = {} /\ procs'[q].st = procs[p].st
        /\ procs'[q].hand = procs[p].hand /\ procs'[q].mask = procs[p].mask
        /\ procs'[q].frames = procs[p].frames
    BY DEF Born, Fields
  <2>2. /\ procs'[q].pc \in Labels
        /\ procs'[q].pc \in Handlers(prog) => procs[p].frames # <<>>
    BY <1>1, <1>2, <2>1, CodeAt DEF Placed, Running
  <2>3. Labels' = Labels /\ Frame' = Frame
    BY DEF Labels, Frame
  <2> QED BY <1>1, <2>1, <2>2, <2>3 DEF Placed, Pids, Signals
<1> QED BY <1>3, <1>4

\* One call of p.
LEMMA ActsPlaced ==
    ASSUME ProcTypeOK, NEW p \in Pids, Acts(p)
    PROVE  prog' = prog /\ \A q \in Pids : Placed(q)'
<1> DEFINE op == Instr(p).op
           F == {"pc", "regs", "pend", "mask", "fds", "buf", "asleep", "alarm"}
<1>1. Running(p) /\ Placed(p) /\ Shape /\ procs[p].ppid # p
  BY ActsByOp DEF ProcTypeOK, Placed
<1> USE <1>1
<1>2. ASSUME prog' = prog, Others({p}), Keeps(p, F \ {"pend", "mask"}),
             procs'[p].pc \in {Instr(p).next, Instr(p).other, procs[p].pc},
             {procs'[p].pc} \subseteq Targets(Instr(p)) \cup {"unix_error", procs[p].pc}
      PROVE  \A q \in Pids : Placed(q)'
  <2>1. /\ Keeps(p, F) /\ procs'[p].pend = procs[p].pend /\ procs'[p].mask = procs[p].mask
    BY <1>2 DEF Keeps, Fields
  <2>2. Placed(p)'
    BY <1>2, <2>1, GoesOn DEF Placed
  <2> QED BY <1>2, <2>2, OthersPlaced
<1>3. CASE op \in {"step", "choose", "if", "passed"}
  BY <1>2, <1>3, Computing DEF Calm, Changes, Keeps, Targets
<1>4. CASE op \in {"set", "loop"}
  <2>1. Instr(p).reg \in RegNames
    BY <1>4, CodeAt
  <2> QED BY <1>2, <1>4, <2>1, Assigning DEF Calm, Changes, Keeps, Targets
<1>5. CASE op = "fork"
  <2>1. prog' = prog
    BY <1>5, Forking
  <2>2. CASE \E q \in Pids : Born(p, q)
    <3> PICK q \in Pids : Born(p, q)
      BY <2>2
    <3>1. Others({p, q})
      BY DEF Born
    <3> QED BY <1>5, <2>1, <3>1, BornPlaced, OthersPlaced
  <2>3. CASE Changes(p, {"pc", "regs"}) /\ procs'[p].pc = Instr(p).other
    BY <1>2, <1>5, <2>1, <2>3 DEF Changes, Keeps, Targets
  <2> QED BY <1>5, <2>2, <2>3, <2>1, Forking
<1>6. CASE op \in {"exit", "segv"}
  <2>1. prog' = prog /\ \E code : procs' = Dies(procs, p, code)
    BY <1>6, ActsByOp DEF Ends
  <2> QED BY <2>1, Fading, FadedPlaced
<1>7. CASE op \in {"wait", "poll"}
  <2>1. prog' = prog
    BY <1>7, Reaping DEF Calm
  <2>2. CASE Zombies(p) = {} /\ Changes(p, {"pc"})
             /\ procs'[p].pc \in {Instr(p).next, Instr(p).other, "unix_error"}
    <3>1. procs'[p].pc \in Targets(Instr(p)) \cup {"unix_error"}
      BY <1>7, <2>2, Reaping DEF Targets
    <3>2. Keeps(p, F) /\ procs'[p].pend = procs[p].pend /\ procs'[p].mask = procs[p].mask
          /\ Others({p})
      BY <2>2 DEF Changes, Keeps, Fields
    <3>3. Placed(p)'
      BY <2>1, <3>1, <3>2, GoesOn DEF Placed
    <3> QED BY <2>1, <3>2, <3>3, OthersPlaced
  <2>3. CASE \E q \in Zombies(p) :
                    /\ q # p /\ Others({p, q}) /\ Keeps(p, {"pc", "regs"})
                    /\ procs'[p].pc = Instr(p).next
                    /\ procs'[q].st = "gone"
                    /\ \A f \in Fields \ {"st"} : procs'[q][f] = Unborn[f]
    <3> PICK q \in Zombies(p) :
                    /\ q # p /\ Others({p, q}) /\ Keeps(p, {"pc", "regs"})
                    /\ procs'[p].pc = Instr(p).next
                    /\ procs'[q].st = "gone"
                    /\ \A f \in Fields \ {"st"} : procs'[q][f] = Unborn[f]
      BY <2>3
    <3>1. q \in Pids /\ procs'[q].ppid = 0
      BY DEF Zombies, Children, Fields, Unborn
    <3>2. Placed(q)'
      BY <2>1, <3>1, UnbornPlaced DEF Pids
    <3>3. Keeps(p, F) /\ procs'[p].pend = procs[p].pend /\ procs'[p].mask = procs[p].mask
          /\ procs'[p].pc \in Targets(Instr(p))
      BY <1>7 DEF Keeps, Fields, Targets
    <3>4. Placed(p)'
      BY <2>1, <3>3, GoesOn DEF Placed
    <3> QED BY <2>1, <3>2, <3>4, OthersPlaced
  <2> QED BY <1>7, <2>2, <2>3, Reaping
<1>8. CASE op = "handle"
  <2>1. prog' = prog /\ Others({p})
    BY <1>8, Signalling DEF Calm
  <2> QED BY <1>8, <2>1, HandlePlaced, OthersPlaced
<1>9. CASE op \in {"block", "unblock", "pending", "alarm"}
  <2>1. /\ prog' = prog /\ Others({p}) /\ Keeps(p, {"pc", "mask", "alarm"})
        /\ procs'[p].pc \in {Instr(p).next, Instr(p).other}
        /\ procs'[p].pc \in Targets(Instr(p))
        /\ op = "block" => procs'[p].mask = procs[p].mask \cup Instr(p).sigs
        /\ op = "unblock" => procs'[p].mask = procs[p].mask \ Instr(p).sigs
        /\ op \in {"pending", "alarm"} => procs'[p].mask = procs[p].mask
    BY <1>9, Signalling DEF Calm, Keeps, Targets, Fields
  <2>2. procs'[p].mask \subseteq Signals
    BY <1>9, <2>1, CodeAt DEF Placed
  <2>3. Keeps(p, F) /\ procs'[p].pend = procs[p].pend
    BY <2>1 DEF Keeps, Fields
  <2>4. Placed(p)'
    BY <2>1, <2>2, <2>3, GoesOn DEF Placed
  <2> QED BY <2>1, <2>4, OthersPlaced
<1>10. CASE op = "kill"
  <2>1. /\ prog' = prog /\ procs'[p].pc \in {Instr(p).next, Instr(p).other}
        /\ Keeps(p, {"pc", "pend"}) /\ \A q \in Pids \ {p} : Keeps(q, {"pend"})
        /\ \A q \in Pids : procs'[q].pend \in {procs[q].pend, procs[q].pend \cup {Instr(p).sig}}
    BY <1>10, Killing DEF Calm
  <2>2. ASSUME NEW q \in Pids PROVE Placed(q)'
    <3>1. Placed(q) /\ procs'[q].pend \subseteq Signals
      BY <1>10, <2>1, CodeAt DEF ProcTypeOK, Placed
    <3>2. CASE q = p
      <4>1. Keeps(p, F) /\ procs'[p].mask = procs[p].mask /\ procs'[p].pc \in Targets(Instr(p))
        BY <1>10, <2>1 DEF Keeps, Fields, Targets
      <4> QED BY <2>1, <3>1, <3>2, <4>1, GoesOn DEF Placed
    <3>3. CASE q # p
      <4>1. /\ Keeps(q, F \cup {"ppid", "code"}) /\ procs'[q].mask = procs[q].mask
            /\ procs'[q].pc = procs[q].pc /\ procs'[q].ppid = procs[q].ppid
        BY <2>1, <3>3 DEF Keeps, Fields
      <4> QED BY <2>1, <3>1, <4>1, StaysPlaced DEF Placed
    <3> QED BY <3>2, <3>3
  <2> QED BY <2>1, <2>2
<1>11. CASE op = "return"
  <2>1. prog' = prog /\ Others({p})
    BY <1>11, Returning DEF Calm, Changes
  <2> QED BY <1>11, <2>1, ReturnPlaced, OthersPlaced
<1>12. CASE op \in {"pause", "sleep", "suspend"}
  <2>1. \/ Changes(p, {"asleep"})
        \/ Changes(p, {"asleep", "pc"}) /\ procs'[p].pc = Instr(p).next
    BY <1>12, Sleeping
  <2>2. Others({p}) /\ Keeps(p, F \ {"pend", "mask"}) /\ procs'[p].pc \in {Instr(p).next, procs[p].pc}
    BY <2>1 DEF Changes, Keeps, Fields
  <2>3. prog' = prog
    BY <1>12, Sleeping
  <2> QED BY <1>2, <1>12, <2>2, <2>3 DEF Targets
<1>13. CASE op \in {"pipe", "close"}
  BY <1>2, <1>13, Piping DEF Calm, Changes, Keeps, Targets
<1>14. CASE op = "write"
  <2>1. /\ prog' = prog
        /\ \/ procs' = [procs EXCEPT ![p].pc = Instr(p).next]
           \/ procs' = Dies(procs, p, 1)
    BY <1>14, ActsByOp DEF WriteCall
  <2>2. CASE procs' = Dies(procs, p, 1)
    BY <2>1, <2>2, Fading, FadedPlaced
  <2>3. CASE procs' = [procs EXCEPT ![p].pc = Instr(p).next]
    <3>1. Others({p}) /\ Keeps(p, F \ {"pend", "mask"}) /\ procs'[p].pc = Instr(p).next
      BY <2>3 DEF Others, Keeps, Shape, Shaped, Fields
    <3> QED BY <1>2, <1>14, <2>1, <3>1 DEF Targets
  <2> QED BY <2>1, <2>2, <2>3
<1>15. CASE op = "read"
  BY <1>2, <1>15, Reading DEF Changes, Keeps, Targets
<1>16. CASE op = "input"
  <2>1. prog' = prog /\ Others({p}) /\ Keeps(p, {"pc", "buf"})
        /\ procs'[p].pc \in {Instr(p).next, Instr(p).other}
    BY <1>16, Typing DEF Changes, Keeps
  <2> QED BY <1>2, <1>16, <2>1 DEF Keeps, Targets
<1>17. CASE op \in {"show", "showstring"}
  BY <1>2, <1>17, Showing DEF Changes, Keeps, Targets
<1>18. CASE op = "store"
  BY <1>2, <1>18, Storing DEF Changes, Keeps, Targets
<1>19. CASE op = "load"
  BY <1>2, <1>19, Loading DEF Changes, Keeps, Targets
<1>20. op \in Ops
  BY OpsActed
<1> HIDE DEF op, F
<1> QED BY <1>3, <1>4, <1>5, <1>6, <1>7, <1>8, <1>9, <1>10, <1>11, <1>12, <1>13, <1>14,
           <1>15, <1>16, <1>17, <1>18, <1>19, <1>20 DEF Ops

LEMMA PlacedStep == ASSUME ProcTypeOK, [ProcNext]_procVars PROVE ProcTypeOK'
<1>1. Shape /\ Shape'
  BY ShapeStep DEF ProcTypeOK
<1>2. CASE CtrlC
  <2>1. /\ prog' = prog /\ \A q \in Pids : Keeps(q, {"pend"})
        /\ \A q \in Pids : procs'[q].pend \in {procs[q].pend, procs[q].pend \cup {"INT"}}
    BY <1>1, <1>2, Striking
  <2>2. ASSUME NEW q \in Pids PROVE Placed(q)'
    <3>1. Placed(q)
      BY DEF ProcTypeOK
    <3>2. procs'[q].pend \subseteq Signals
      BY <2>1, <3>1 DEF Placed, Signals
    <3>3. /\ Keeps(q, {"pc", "ppid", "regs", "pend", "mask", "fds", "buf", "asleep", "alarm", "code"})
          /\ procs'[q].mask = procs[q].mask /\ procs'[q].pc = procs[q].pc
          /\ procs'[q].ppid = procs[q].ppid
      BY <2>1 DEF Keeps, Fields
    <3> QED BY <2>1, <3>1, <3>2, <3>3, StaysPlaced DEF Placed
  <2> QED BY <1>1, <2>1, <2>2 DEF ProcTypeOK, Programs
<1>3. ASSUME NEW p \in Pids, Proceed(p) PROVE ProcTypeOK'
  <2>1. CASE Acts(p)
    BY <1>1, <2>1, ActsPlaced DEF ProcTypeOK, Programs
  <2>2. CASE Deliver(p)
    <3>1. prog' = prog /\ Running(p)
      BY <1>1, <2>2, Delivered
    <3>2. PICK sig : \/ procs' = Dies(procs, p, 1)
                     \/ Handled(p, sig)
      BY <1>1, <2>2, Delivered
    <3>3. CASE procs' = Dies(procs, p, 1)
      <4>1. \A q \in Pids : Placed(q)'
        BY <1>1, <3>1, <3>3, Fading, FadedPlaced
      <4> QED BY <1>1, <3>1, <4>1 DEF ProcTypeOK, Programs
    <3>4. CASE Handled(p, sig)
      <4>1. Placed(p)' /\ Others({p})
        BY <3>1, <3>4, HandledPlaced DEF Handled, Changes
      <4>2. \A q \in Pids : Placed(q)'
        BY <3>1, <4>1, OthersPlaced
      <4> QED BY <1>1, <3>1, <4>2 DEF ProcTypeOK, Programs
    <3> QED BY <3>2, <3>3, <3>4
  <2>3. CASE AlarmRings(p)
    <3>1. /\ prog' = prog /\ Running(p) /\ Others({p}) /\ Keeps(p, {"alarm", "pend"})
          /\ procs'[p].pend = procs[p].pend \cup {"ALRM"}
      BY <1>1, <2>3, Ringing DEF Changes
    <3>2. /\ procs'[p].pend \subseteq Signals
          /\ Keeps(p, {"pc", "regs", "pend", "mask", "fds", "buf", "asleep", "alarm"})
          /\ procs'[p].mask = procs[p].mask /\ procs'[p].pc = procs[p].pc
      BY <3>1 DEF ProcTypeOK, Placed, Signals, Keeps, Fields
    <3>3. Placed(p)'
      BY <3>1, <3>2, GoesOn DEF ProcTypeOK, Placed
    <3>4. \A q \in Pids : Placed(q)'
      BY <3>1, <3>3, OthersPlaced
    <3> QED BY <1>1, <3>1, <3>4 DEF ProcTypeOK, Programs
  <2> QED BY <1>3, <2>1, <2>2, <2>3 DEF Acts
<1>4. ASSUME NEW p \in Pids, Drain(p) PROVE ProcTypeOK'
  <2>1. prog' = prog /\ procs' = procs
    BY <1>4 DEF Drain
  <2>2. \A q \in Pids : Placed(q)'
    BY <2>1, OthersPlaced DEF Others
  <2> QED BY <1>1, <2>1, <2>2 DEF ProcTypeOK, Programs
<1>5. ASSUME NEW p \in Pids, AcceptCall(p) PROVE ProcTypeOK'
  <2>1. /\ prog' = prog /\ Running(p) /\ Changes(p, {"pc"}) /\ Instr(p).op = "accept"
        /\ procs'[p].pc \in {Instr(p).next, Instr(p).other}
    BY <1>1, <1>5, Accepting DEF Calm
  <2>2. /\ Others({p}) /\ procs'[p].pc \in Targets(Instr(p))
        /\ Keeps(p, {"pc", "regs", "pend", "mask", "fds", "buf", "asleep", "alarm"})
        /\ procs'[p].pend = procs[p].pend /\ procs'[p].mask = procs[p].mask
    BY <2>1 DEF Changes, Keeps, Fields, Targets
  <2>3. Placed(p)'
    BY <2>1, <2>2, GoesOn DEF ProcTypeOK, Placed
  <2>4. \A q \in Pids : Placed(q)'
    BY <2>1, <2>2, <2>3, OthersPlaced
  <2> QED BY <1>1, <2>1, <2>4 DEF ProcTypeOK, Programs
<1>6. CASE UNCHANGED procVars
  <2>1. prog' = prog /\ procs' = procs
    BY <1>6 DEF procVars
  <2>2. \A q \in Pids : Placed(q)'
    BY <2>1, OthersPlaced DEF Others
  <2> QED BY <1>1, <2>1, <2>2 DEF ProcTypeOK, Programs
<1> QED BY <1>2, <1>3, <1>4, <1>5, <1>6 DEF ProcNext

\* Where a process is at the start.
LEMMA StartsAt ==
    ASSUME ProcInit, NEW p \in Pids
    PROVE  /\ p \in DOMAIN Entries(prog) =>
                /\ procs[p].st = "run" /\ procs[p].pc = Entries(prog)[p]
                /\ \A f \in Fields \ {"st", "pc"} : procs[p][f] = Unborn[f]
           /\ p \notin DOMAIN Entries(prog) => procs[p] = Unborn
<1>1. procs[p] = IF p \in DOMAIN Entries(prog)
                 THEN [Unborn EXCEPT !.st = "run", !.pc = Entries(prog)[p]]
                 ELSE Unborn
  BY DEF ProcInit
<1>2. CASE p \in DOMAIN Entries(prog)
  <2> DEFINE label == Entries(prog)[p]
  <2>1. procs[p] = [Unborn EXCEPT !.st = "run", !.pc = label]
    BY <1>1, <1>2
  <2> HIDE DEF label
  <2>2. /\ procs[p].st = "run" /\ procs[p].pc = label
        /\ \A f \in Fields \ {"st", "pc"} : procs[p][f] = Unborn[f]
    BY <2>1 DEF Unborn, Fields
  <2> QED BY <1>2, <2>2 DEF label
<1> QED BY <1>1, <1>2

LEMMA EntryLabels ==
    ASSUME NEW name \in Programs, NEW p \in DOMAIN Entries(name)
    PROVE  Entries(name)[p] \in DOMAIN Code[name] \ Handlers(name)
<1>1. CASE name = "shm"
  <2>1. Entries(name)[p] \in {"server", "client"}
    BY <1>1 DEF Entries
  <2>2. {"server", "client"} \subseteq DOMAIN Together(ShmServer, ShmClient)
    BY DEF Together, ShmServer, ShmClient
  <2> QED BY <1>1, <2>1, <2>2, CodeOf, HandlersOf
<1>2. CASE name # "shm"
  <2>1. Entries(name)[p] = "main"
    BY <1>2 DEF Entries
  <2>2. "main" \in DOMAIN Code[name] /\ "main" \notin Handlers(name)
    <3>1. CASE name = "slow_write"
      BY <3>1, CodeOf, HandlersOf DEF SlowWrite
    <3>2. CASE name = "peterson"
      BY <3>2, CodeOf, HandlersOf DEF Peterson
    <3>3. CASE name = "mask"
      BY <3>3, CodeOf, HandlersOf DEF Mask
    <3>4. CASE name = "counterprob"
      BY <3>4, CodeOf, HandlersOf DEF Counterprob
    <3>5. CASE name = "signal1"
      BY <3>5, CodeOf, HandlersOf DEF Signal1
    <3>6. CASE name = "exo2"
      BY <3>6, CodeOf, HandlersOf DEF SleepExercise
    <3>7. CASE name = "pause"
      BY <3>7, CodeOf, HandlersOf DEF PauseExercise
    <3>8. CASE name = "alarm"
      BY <3>8, CodeOf, HandlersOf DEF Beep
    <3>9. CASE name = "waitpid1"
      BY <3>9, CodeOf, HandlersOf DEF Waitpid1, WaitpidOf
    <3>10. CASE name = "waitpid1_segv"
      BY <3>10, CodeOf, HandlersOf DEF Waitpid1Segv, WaitpidOf
    <3>11. CASE name = "ex4"
      BY <3>11, CodeOf, HandlersOf DEF Ex4
    <3>12. CASE name = "ex3"
      BY <3>12, CodeOf, HandlersOf DEF Ex3
    <3>13. CASE name = "arbre"
      BY <3>13, CodeOf, HandlersOf DEF Arbre
    <3>14. CASE name = "chaine"
      BY <3>14, CodeOf, HandlersOf DEF Chaine
    <3>15. CASE name = "ex2"
      BY <3>15, CodeOf, HandlersOf DEF Ex2
    <3>16. CASE name = "echoserveri"
      BY <3>16, CodeOf, HandlersOf DEF Echoserveri
    <3>17. CASE name = "tube_simple"
      BY <3>17, CodeOf, HandlersOf DEF TubeSimple
    <3>18. CASE name = "pipe"
      BY <3>18, CodeOf, HandlersOf DEF PipeStrings
    <3>19. CASE name = "dialogue"
      BY <3>19, CodeOf, HandlersOf DEF Dialogue
    <3>20. CASE name = "q3"
      BY <3>20, CodeOf, HandlersOf DEF Relay
    <3>21. CASE name = "mycopy"
      BY <3>21, CodeOf, HandlersOf DEF Mycopy
    <3> QED BY <1>2, <3>1, <3>2, <3>3, <3>4, <3>5, <3>6, <3>7, <3>8, <3>9, <3>10, <3>11,
               <3>12, <3>13, <3>14, <3>15, <3>16, <3>17, <3>18, <3>19, <3>20, <3>21 DEF Programs
  <2> QED BY <2>1, <2>2
<1> QED BY <1>1, <1>2

LEMMA PlacedInit == ProcInit => ProcTypeOK
<1> SUFFICES ASSUME ProcInit PROVE ProcTypeOK
  OBVIOUS
<1>1. Shape /\ prog \in Programs
  BY ShapeInit DEF ProcInit
<1>2. ASSUME NEW p \in Pids PROVE Placed(p)
  <2>1. /\ procs[p].hand = [s \in Signals |-> "default"] /\ procs[p].frames = <<>>
        /\ procs[p].pend = {} /\ procs[p].mask = {} /\ procs[p].ppid = 0
        /\ procs[p].st \in {"none", "run"}
    BY StartsAt DEF Unborn, Fields
  <2>2. procs[p].st = "run" => procs[p].pc \in DOMAIN Code[prog] \ Handlers(prog)
    BY <1>1, StartsAt, EntryLabels DEF Unborn
  <2>3. procs[p].frames \in Seq(Frame)
    BY <2>1, EmptySeq
  <2> QED BY <2>1, <2>2, <2>3 DEF Placed, Pids, Labels
<1> QED BY <1>1, <1>2 DEF ProcTypeOK

\* Every program keeps its processes inside its own code, with the signals,
\* the handlers and the parents it has.
THEOREM ProcessesTyped == ProcSpec => []ProcTypeOK
<1>1. ProcInit => ProcTypeOK
  BY PlacedInit
<1>2. ProcTypeOK /\ [ProcNext]_procVars => ProcTypeOK'
  BY PlacedStep
<1> QED BY <1>1, <1>2, PTL DEF ProcSpec

-----------------------------------------------------------------------------
(* Most programs send no signal, signal1 alone catches SIGCHLD, and one is *)
(* a server.                                                               *)

Silent ==
    {"peterson", "shm", "waitpid1", "waitpid1_segv", "ex4", "ex3", "arbre", "chaine",
     "ex2", "tube_simple", "pipe", "dialogue", "q3", "mycopy"}

Deaf(P) == \A l \in DOMAIN P : P[l].op = "handle" => P[l].sig # "CHLD"
Mute(P) == \A l \in DOMAIN P : P[l].op \notin {"kill", "alarm"}
Clientless(P) == \A l \in DOMAIN P : P[l].op # "accept"

LEMMA SilentPrograms ==
    ASSUME NEW name \in Programs
    PROVE  /\ name # "signal1" => Deaf(Code[name])
           /\ name \in Silent => Mute(Code[name])
           /\ name # "echoserveri" => Clientless(Code[name])
<1>1. CASE name = "slow_write"
  BY <1>1, CodeOf
  DEF Deaf, Mute, Clientless, Silent,
      SlowWrite, Handle, InitMask, Block, WFork, Fork, WaitParent, WaitFlag,
      If, Suspend, Set, Loop, TellChild, Kill, Return, Exit
<1>2. CASE name = "peterson"
  BY <1>2, CodeOf
  DEF Deaf, Mute, Clientless, Silent,
      Peterson, Store, C1, C2, Tpet, WFork, Fork, TestFlag, Load, Sleep,
      Wait, Exit
<1>3. CASE name = "shm"
  BY <1>3, CodeOf
  DEF Deaf, Mute, Clientless, Silent,
      Together, ShmServer, Step, Store, Load, Star, Sleep, Exit, ShmClient,
      IfSeen
<1>4. CASE name = "mask"
  BY <1>4, CodeOf
  DEF Deaf, Mute, Clientless, Silent,
      Mask, Handle, Block, WKill, Kill, IfPending, Step, Unblock, Sleep,
      Return, Exit
<1>5. CASE name = "counterprob"
  BY <1>5, CodeOf
  DEF Deaf, Mute, Clientless, Silent,
      Counterprob, Handle, WFork, Fork, WKill, Kill, Loop, WWait, Wait, Step,
      Sleep, Return, Exit
<1>6. CASE name = "exo2"
  BY <1>6, CodeOf
  DEF Deaf, Mute, Clientless, Silent,
      SleepExercise, Handle, Sleep, Return, Exit
<1>7. CASE name = "pause"
  BY <1>7, CodeOf
  DEF Deaf, Mute, Clientless, Silent,
      PauseExercise, Handle, Pause, Return, Exit
<1>8. CASE name = "alarm"
  BY <1>8, CodeOf
  DEF Deaf, Mute, Clientless, Silent,
      Beep, Handle, If, Beeps, Alarm, Sleep, Loop, Return, Exit
<1>9. CASE name = "waitpid1"
  BY <1>9, CodeOf
  DEF Deaf, Mute, Clientless, Silent,
      Waitpid1, WaitpidOf, WFork, Fork, Loop, Wait, If, Step, Exit
<1>10. CASE name = "waitpid1_segv"
  BY <1>10, CodeOf
  DEF Deaf, Mute, Clientless, Silent,
      Waitpid1Segv, WaitpidOf, WFork, Fork, Loop, Wait, If, Step, Exit, Segv
<1>11. CASE name = "ex4"
  BY <1>11, CodeOf
  DEF Deaf, Mute, Clientless, Silent,
      Ex4, RawFork, Fork, RawWait, Wait, WaitSon, Exit
<1>12. CASE name = "ex3"
  BY <1>12, CodeOf
  DEF Deaf, Mute, Clientless, Silent,
      Ex3, RawFork, Fork, RawWait, Wait, WaitSon, Exit
<1>13. CASE name = "arbre"
  BY <1>13, CodeOf
  DEF Deaf, Mute, Clientless, Silent,
      Arbre, Fork, Loop, Levels, RawWait, Wait, Exit
<1>14. CASE name = "chaine"
  BY <1>14, CodeOf
  DEF Deaf, Mute, Clientless, Silent,
      Chaine, RawFork, Fork, RawWait, Wait, Loop, Levels, Exit
<1>15. CASE name = "ex2"
  BY <1>15, CodeOf
  DEF Deaf, Mute, Clientless, Silent,
      Ex2, Choose, Segv, Exit
<1>16. CASE name = "echoserveri"
  BY <1>16, CodeOf
  DEF Deaf, Mute, Clientless, Silent,
      Echoserveri, Handle, RawFork, Fork, Set, PoolWait, RawWait, Wait, Loop,
      NPROC, If, Accept, Choose, Segv, Kill, Exit
<1>17. CASE name = "tube_simple"
  BY <1>17, CodeOf
  DEF Deaf, Mute, Clientless, Silent,
      TubeSimple, Pipe, Fork, Close, Read, Show, Input, Write, Exit
<1>18. CASE name = "pipe"
  BY <1>18, CodeOf
  DEF Deaf, Mute, Clientless, Silent,
      PipeStrings, Pipe, RawFork, Fork, Close, Input, Write, Read,
      ShowString, Exit
<1>19. CASE name = "dialogue"
  BY <1>19, CodeOf
  DEF Deaf, Mute, Clientless, Silent,
      Dialogue, Pipe, RawFork, Fork, Close, Input, Write, Read, Exit
<1>20. CASE name = "q3"
  BY <1>20, CodeOf
  DEF Deaf, Mute, Clientless, Silent,
      Relay, Handle, Pipe, WFork, Fork, Close, Read, ShowAll, Show, Input,
      Write, CloseTube, WWait, Wait, Return, Exit
<1>21. CASE name = "mycopy"
  BY <1>21, CodeOf
  DEF Deaf, Mute, Clientless, Silent,
      Mycopy, Choose, Input, Show, Step, Exit
<1>22. CASE name = "signal1"
  BY <1>22, CodeOf
  DEF Clientless, Silent,
      Signal1, Handle, WFork, Fork, Sleep, Exit, Loop, Sons, Pause, WaitNoHang,
      Return
<1> QED BY <1>1, <1>2, <1>3, <1>4, <1>5, <1>6, <1>7, <1>8, <1>9, <1>10, <1>11,
           <1>12, <1>13, <1>14, <1>15, <1>16, <1>17, <1>18, <1>19, <1>20, <1>21, <1>22 DEF Programs

\* Where the handlers of a process come from.
LEMMA HandMoves ==
    ASSUME ProcTypeOK, NEW p \in Pids, Proceed(p), NEW q \in Pids
    PROVE  \/ procs'[q].hand \in {procs[q].hand, Unborn.hand, procs[p].hand}
           \/ /\ q = p /\ Instr(p).op = "handle"
              /\ procs'[q].hand = [procs[p].hand EXCEPT ![Instr(p).sig] = Instr(p).label]
<1> DEFINE op == Instr(p).op
<1>1. Shape /\ Placed(p) /\ procs[p].ppid # p
  BY DEF ProcTypeOK, Placed
<1>2. ASSUME Fades(q) PROVE procs'[q].hand \in {procs[q].hand, Unborn.hand}
  BY <1>2 DEF Fades, Keeps, Fields
<1>3. ASSUME NEW F, Changes(p, F), "hand" \notin F
      PROVE  procs'[q].hand = procs[q].hand
  BY <1>3 DEF Changes, Others, Keeps, Fields
<1>4. CASE Deliver(p)
  <2>1. procs' = Dies(procs, p, 1) \/ \E sig : Handled(p, sig)
    BY <1>1, <1>4, Delivered
  <2>2. CASE \E sig : Handled(p, sig)
    BY <1>3, <2>2 DEF Handled
  <2> QED BY <1>1, <1>2, <2>1, <2>2, Fading
<1>5. CASE AlarmRings(p)
  BY <1>1, <1>3, <1>5, Ringing
<1>6. CASE Acts(p)
  <2>1. CASE op \in {"step", "choose", "if", "passed"}
    BY <1>1, <1>3, <1>6, <2>1, Computing
  <2>2. CASE op \in {"set", "loop"}
    <3>1. Instr(p).reg \in RegNames
      BY <1>6, <2>2, CodeAt, ActsByOp
    <3> QED BY <1>1, <1>3, <1>6, <2>2, <3>1, Assigning
  <2>3. CASE op = "fork"
    <3>1. CASE \E r \in Pids : Born(p, r)
      <4> PICK r \in Pids : Born(p, r)
        BY <3>1
      <4>1. procs'[p].hand = procs[p].hand /\ procs'[r].hand = procs[p].hand /\ Others({p, r})
        BY DEF Born, Keeps, Fields
      <4> QED BY <4>1 DEF Others
    <3> QED BY <1>1, <1>3, <1>6, <2>3, <3>1, Forking
  <2>4. CASE op \in {"exit", "segv"}
    <3>1. \E code : procs' = Dies(procs, p, code)
      BY <1>6, <2>4, ActsByOp DEF Ends
    <3> QED BY <1>1, <1>2, <3>1, Fading
  <2>5. CASE op \in {"wait", "poll"}
    <3>1. CASE Changes(p, {"pc"})
      BY <1>3, <3>1
    <3>2. CASE \E r \in Pids : /\ Others({p, r}) /\ Keeps(p, {"pc", "regs"})
                               /\ \A f \in Fields \ {"st"} : procs'[r][f] = Unborn[f]
      <4> PICK r \in Pids : /\ Others({p, r}) /\ Keeps(p, {"pc", "regs"})
                            /\ \A f \in Fields \ {"st"} : procs'[r][f] = Unborn[f]
        BY <3>2
      <4>1. procs'[p].hand = procs[p].hand /\ procs'[r].hand = Unborn.hand
        BY DEF Keeps, Fields
      <4> QED BY <4>1 DEF Others
    <3> QED BY <1>1, <1>6, <2>5, <3>1, <3>2, Reaping DEF Zombies, Children
  <2>6. CASE op \in {"handle", "block", "unblock", "pending", "alarm"}
    <3>1. CASE q # p
      BY <1>1, <1>6, <2>6, <3>1, Signalling DEF Others
    <3>2. CASE q = p
      BY <1>1, <1>6, <2>6, <3>2, Signalling DEF Keeps, Fields
    <3> QED BY <3>1, <3>2
  <2>7. CASE op = "kill"
    <3>1. Keeps(q, {"pc", "pend"})
      BY <1>1, <1>6, <2>7, Killing DEF Keeps
    <3> QED BY <3>1 DEF Keeps, Fields
  <2>8. CASE op = "return"
    BY <1>1, <1>3, <1>6, <2>8, Returning
  <2>9. CASE op \in {"pause", "sleep", "suspend"}
    BY <1>1, <1>3, <1>6, <2>9, Sleeping
  <2>10. CASE op \in {"pipe", "close"}
    BY <1>1, <1>3, <1>6, <2>10, Piping
  <2>11. CASE op = "write"
    <3>1. \/ procs' = [procs EXCEPT ![p].pc = Instr(p).next]
          \/ procs' = Dies(procs, p, 1)
      BY <1>6, <2>11, ActsByOp DEF WriteCall
    <3>2. CASE procs' = [procs EXCEPT ![p].pc = Instr(p).next]
      BY <1>1, <3>2 DEF Shape, Shaped, Fields
    <3> QED BY <1>1, <1>2, <3>1, <3>2, Fading
  <2>12. CASE op = "read"
    BY <1>1, <1>3, <1>6, <2>12, Reading
  <2>13. CASE op = "input"
    BY <1>1, <1>3, <1>6, <2>13, Typing
  <2>14. CASE op \in {"show", "showstring"}
    BY <1>1, <1>3, <1>6, <2>14, Showing
  <2>15. CASE op = "store"
    BY <1>1, <1>3, <1>6, <2>15, Storing
  <2>16. CASE op = "load"
    BY <1>1, <1>3, <1>6, <2>16, Loading
  <2>17. op \in Ops
    BY <1>6, OpsActed
  <2> HIDE DEF op
  <2> QED BY <2>1, <2>2, <2>3, <2>4, <2>5, <2>6, <2>7, <2>8, <2>9, <2>10, <2>11, <2>12,
             <2>13, <2>14, <2>15, <2>16, <2>17 DEF Ops
<1> QED BY <1>4, <1>5, <1>6 DEF Acts

SilentOK ==
    /\ prog # "signal1" => NoChld
    /\ prog \in Silent => \A p \in Pids : procs[p].pend = {} /\ procs[p].alarm = FALSE

LEMMA CodeSilent ==
    ASSUME ProcTypeOK, NEW p \in Pids, Running(p)
    PROVE  /\ prog # "signal1" => (Instr(p).op = "handle" => Instr(p).sig # "CHLD")
           /\ prog \in Silent => Instr(p).op \notin {"kill", "alarm"}
           /\ prog # "echoserveri" => Instr(p).op # "accept"
<1>1. procs[p].pc \in Labels /\ prog \in Programs
  BY DEF ProcTypeOK, Placed, Running
<1>2. CASE procs[p].pc = "unix_error"
  BY <1>2 DEF Instr, Exit
<1>3. CASE procs[p].pc # "unix_error"
  BY <1>1, <1>3, SilentPrograms DEF Labels, Instr, Deaf, Mute, Clientless
<1> QED BY <1>2, <1>3

\* Only the pool of servers waits for clients.
LEMMA OnlyPoolAccepts ==
    ASSUME ProcTypeOK, NEW p \in Pids, AcceptCall(p)
    PROVE  prog = "echoserveri"
  BY Accepting, CodeSilent DEF ProcTypeOK

LEMMA NoChldStep ==
    ASSUME ProcTypeOK, NEW p \in Pids, Proceed(p), prog # "signal1", NoChld
    PROVE  NoChld'
<1> SUFFICES ASSUME NEW q \in Pids PROVE procs'[q].hand["CHLD"] = "default"
  BY DEF NoChld, Pids
<1>1. Unborn.hand["CHLD"] = "default" /\ procs[q].hand["CHLD"] = "default"
      /\ procs[p].hand["CHLD"] = "default"
  BY DEF NoChld, Unborn, Signals
<1>2. Instr(p).op = "handle" => Instr(p).sig # "CHLD"
  BY CodeSilent DEF Proceed
<1>3. procs[p].hand = [s \in Signals |-> procs[p].hand[s]]
  BY DEF ProcTypeOK, Shape, Shaped
<1>4. Instr(p).op = "handle" =>
        [procs[p].hand EXCEPT ![Instr(p).sig] = Instr(p).label]["CHLD"] = "default"
  BY <1>1, <1>2, <1>3 DEF Signals
<1> QED BY <1>1, <1>4, HandMoves

\* In a silent program every step of a process is a call.
LEMMA SilentActs ==
    ASSUME SilentOK, prog \in Silent, NEW p \in Pids
    PROVE  /\ Proceed(p) => Acts(p)
           /\ NoChld /\ ~ CtrlC
<1>1. ~ Deliver(p) /\ ~ AlarmRings(p)
  BY DEF SilentOK, Deliver, Deliverable, AlarmRings
<1> QED BY <1>1 DEF Acts, SilentOK, Silent, CtrlC

LEMMA SilentStep ==
    ASSUME ProcTypeOK, SilentOK, prog \in Silent, NEW p \in Pids, Acts(p), NEW q \in Pids
    PROVE  procs'[q].pend = {} /\ procs'[q].alarm = FALSE
<1> DEFINE op == Instr(p).op
<1>1. Shape /\ Placed(p) /\ procs[p].ppid # p /\ Running(p) /\ NoChld
  BY ActsByOp, SilentActs DEF ProcTypeOK, Placed
<1>2. procs[q].pend = {} /\ procs[q].alarm = FALSE /\ procs[p].pend = {} /\ procs[p].alarm = FALSE
  BY DEF SilentOK
<1>3. ASSUME NEW code, Death(p, code) PROVE procs'[q].pend = {} /\ procs'[q].alarm = FALSE
  <2>1. Unborn.pend = {} /\ Unborn.alarm = FALSE /\ {"pend", "alarm"} \subseteq Fields
    BY DEF Unborn, Fields
  <2>2. CASE q = p
    BY <1>3, <2>1, <2>2 DEF Death
  <2>3. CASE q # p /\ procs[q].ppid = p /\ procs[q].st # "run"
    BY <1>3, <2>1, <2>3 DEF Death
  <2>4. CASE q # p /\ ~ (procs[q].ppid = p /\ procs[q].st # "run")
    BY <1>2, <1>3, <2>1, <2>4 DEF Death, Keeps
  <2> QED BY <2>2, <2>3, <2>4
<1>4. ASSUME NEW F, Changes(p, F), F \cap {"pend", "alarm"} = {}
      PROVE  procs'[q].pend = {} /\ procs'[q].alarm = FALSE
  BY <1>2, <1>4 DEF Changes, Others, Keeps, Fields
<1>5. CASE op \in {"step", "choose", "if", "passed"}
  BY <1>1, <1>4, <1>5, Computing
<1>6. CASE op \in {"set", "loop"}
  <2>1. Instr(p).reg \in RegNames
    BY <1>1, <1>6, CodeAt
  <2> QED BY <1>1, <1>4, <1>6, <2>1, Assigning
<1>7. CASE op = "fork"
  <2>1. CASE \E r \in Pids : Born(p, r)
    <3> PICK r \in Pids : Born(p, r)
      BY <2>1
    <3>1. /\ procs'[p].pend = {} /\ procs'[p].alarm = FALSE
          /\ procs'[r].pend = {} /\ procs'[r].alarm = FALSE /\ Others({p, r})
      BY <1>2 DEF Born, Keeps, Fields
    <3> QED BY <1>2, <3>1 DEF Others
  <2> QED BY <1>1, <1>4, <1>7, <2>1, Forking
<1>8. CASE op \in {"exit", "segv"}
  BY <1>1, <1>3, <1>8, Ending
<1>9. CASE op \in {"wait", "poll"}
  <2>1. CASE \E r \in Pids : /\ Others({p, r}) /\ Keeps(p, {"pc", "regs"})
                             /\ \A f \in Fields \ {"st"} : procs'[r][f] = Unborn[f]
    <3> PICK r \in Pids : /\ Others({p, r}) /\ Keeps(p, {"pc", "regs"})
                          /\ \A f \in Fields \ {"st"} : procs'[r][f] = Unborn[f]
      BY <2>1
    <3>1. /\ procs'[p].pend = {} /\ procs'[p].alarm = FALSE
          /\ procs'[r].pend = {} /\ procs'[r].alarm = FALSE
      BY <1>2 DEF Keeps, Fields, Unborn
    <3> QED BY <1>2, <3>1 DEF Others
  <2> QED BY <1>1, <1>4, <1>9, <2>1, Reaping DEF Zombies, Children
<1>10. CASE op \in {"handle", "block", "unblock", "pending"}
  <2>1. Changes(p, {"pc", "hand", "mask"})
    BY <1>1, <1>10, Signalling DEF Changes, Keeps
  <2> QED BY <1>4, <2>1
<1>11. CASE op = "return"
  BY <1>1, <1>4, <1>11, Returning
<1>12. CASE op \in {"pause", "sleep", "suspend"}
  BY <1>1, <1>4, <1>12, Sleeping
<1>13. CASE op \in {"pipe", "close"}
  BY <1>1, <1>4, <1>13, Piping
<1>14. CASE op = "write"
  BY <1>1, <1>3, <1>4, <1>14, Writing
<1>15. CASE op = "read"
  BY <1>1, <1>4, <1>15, Reading
<1>16. CASE op = "input"
  BY <1>1, <1>4, <1>16, Typing
<1>17. CASE op \in {"show", "showstring"}
  BY <1>1, <1>4, <1>17, Showing
<1>18. CASE op = "store"
  BY <1>1, <1>4, <1>18, Storing
<1>19. CASE op = "load"
  BY <1>1, <1>4, <1>19, Loading
<1>20. op \in Ops \ {"kill", "alarm"}
  BY <1>1, OpsActed, CodeSilent
<1> HIDE DEF op
<1> QED BY <1>5, <1>6, <1>7, <1>8, <1>9, <1>10, <1>11, <1>12, <1>13, <1>14, <1>15,
           <1>16, <1>17, <1>18, <1>19, <1>20 DEF Ops

LEMMA SilentNext == ASSUME ProcTypeOK, SilentOK, [ProcNext]_procVars PROVE SilentOK'
<1>1. CASE CtrlC
  <2>1. /\ prog' = prog /\ prog \notin Silent
        /\ \A q \in Pids : procs'[q].hand = procs[q].hand
    BY <1>1, Striking DEF ProcTypeOK, Keeps, Fields, Silent
  <2> QED BY <2>1 DEF SilentOK, NoChld, Pids, Silent
<1>2. ASSUME NEW p \in Pids, Proceed(p) PROVE SilentOK'
  <2>1. prog' = prog
    BY <1>2 DEF Proceed, Compute, Assign, ForkSon, ForkFails, Ends, Reap, SignalCall, KillCall,
                Deliver, ReturnCall, FallAsleep, WakeUp, AlarmRings, PipeCall, WriteCall,
                ReadCall, InputCall, ShowCall, StoreCall, LoadCall
  <2>2. prog # "signal1" => NoChld'
    BY <1>2, NoChldStep DEF SilentOK
  <2>3. prog \in Silent => \A q \in Pids : procs'[q].pend = {} /\ procs'[q].alarm = FALSE
    BY <1>2, SilentActs, SilentStep
  <2> QED BY <2>1, <2>2, <2>3 DEF SilentOK, Pids, Silent
<1>3. CASE (\E p \in Pids : Drain(p)) \/ UNCHANGED procVars
  <2>1. prog' = prog /\ procs' = procs
    BY <1>3 DEF Drain, procVars
  <2> QED BY <2>1 DEF SilentOK, NoChld, Pids, Silent
<1>4. ASSUME NEW p \in Pids, AcceptCall(p) PROVE SilentOK'
  <2>1. /\ prog' = prog /\ prog = "echoserveri"
        /\ \A q \in Pids : procs'[q].hand = procs[q].hand
    BY <1>4, OnlyPoolAccepts, Accepting DEF ProcTypeOK, Calm, Changes, Others, Keeps, Fields
  <2> QED BY <2>1 DEF SilentOK, NoChld, Pids, Silent
<1> QED BY <1>1, <1>2, <1>3, <1>4 DEF ProcNext

LEMMA SilentInit == ProcInit => SilentOK
<1> SUFFICES ASSUME ProcInit PROVE SilentOK
  OBVIOUS
<1>1. \A p \in Pids : /\ procs[p].hand["CHLD"] = "default"
                       /\ procs[p].pend = {} /\ procs[p].alarm = FALSE
  BY StartsAt DEF Unborn, Fields, Signals
<1> QED BY <1>1 DEF SilentOK, NoChld

LEMMA ProgStays ==
    ASSUME ProcTypeOK, [ProcNext]_procVars
    PROVE  prog' = prog /\ (early => early') /\ (failed => failed') /\ seen \subseteq seen'
<1>1. ASSUME NEW p, Proceed(p)
      PROVE  prog' = prog /\ (early => early') /\ (failed => failed') /\ seen \subseteq seen'
  <2>1. prog' = prog
    BY <1>1 DEF Proceed, Compute, Assign, ForkSon, ForkFails, Ends, Reap, SignalCall, KillCall,
                Deliver, ReturnCall, FallAsleep, WakeUp, AlarmRings, PipeCall, WriteCall,
                ReadCall, InputCall, ShowCall, StoreCall, LoadCall
  <2>2. early => early'
    BY <1>1 DEF Proceed, Compute, Assign, ForkSon, ForkFails, Ends, Reap, SignalCall, KillCall,
                Deliver, ReturnCall, FallAsleep, WakeUp, AlarmRings, PipeCall, WriteCall,
                ReadCall, InputCall, ShowCall, StoreCall, LoadCall, memory
  <2>3. failed => failed'
    BY <1>1 DEF Proceed, Compute, Assign, ForkSon, ForkFails, Ends, Reap, SignalCall, KillCall,
                Deliver, ReturnCall, FallAsleep, WakeUp, AlarmRings, PipeCall, WriteCall,
                ReadCall, InputCall, ShowCall, StoreCall, LoadCall, faults
  <2>4. seen' = seen \/ seen' = seen \cup {procs[p].pc}
    BY <1>1 DEF Proceed, Compute, Assign, ForkSon, ForkFails, Ends, Reap, SignalCall, KillCall,
                Deliver, ReturnCall, FallAsleep, WakeUp, AlarmRings, PipeCall, WriteCall,
                ReadCall, InputCall, ShowCall, StoreCall, LoadCall, Mark, Go
  <2> QED BY <2>1, <2>2, <2>3, <2>4
<1>2. ASSUME CtrlC \/ (\E p : Drain(p)) \/ UNCHANGED procVars
      PROVE  prog' = prog /\ early' = early /\ failed' = failed /\ seen' = seen
  BY <1>2 DEF CtrlC, Drain, procVars, memory, faults
<1>3. ASSUME NEW p, AcceptCall(p)
      PROVE  prog' = prog /\ early' = early /\ failed' = failed /\ seen \subseteq seen'
  BY <1>3 DEF AcceptCall, Go, Mark, memory, faults
<1> QED BY <1>1, <1>2, <1>3 DEF ProcNext
==============================================================================
