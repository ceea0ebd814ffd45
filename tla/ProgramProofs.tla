---------------------------- MODULE ProgramProofs ----------------------------
(***************************************************************************)
(* The programs that the machine of Processes does not run: the two shells,*)
(* the users of Rio, the two tools of Tools, and the lines that the shells *)
(* and the prompt of the FTP client read, for every value of the constants.*)
(***************************************************************************)
EXTENDS Shell, Rio, Tools, FtpPrompt, FiniteSetTheorems, SequenceTheorems, WellFoundedInduction,
        TLAPS

-----------------------------------------------------------------------------
(* shell.c never waits for a job that nobody will end, whatever is typed   *)
(* and struck (NoLostChild), and neither of the two shells comes back to   *)
(* the prompt before a foreground line is over (ForegroundAlone).          *)
(*                                                                         *)
(* NoLostChild speaks of the wait alone and is not inductive.  The         *)
(* invariant follows the job from the line to the wait: the line's         *)
(* children appear one by one (FirstOne, HasKid), each is alive or has     *)
(* raised SIGCHLD (KidsTold) and an empty line meets the flags of a job    *)
(* that is over (JobOver).                                                 *)


KidStates == {"forked", "run", "stop", "stopped", "zombie", "gone"}
KidRecords == [line : Nat, pos : Nat, st : KidStates]

Flags == job.finished \/ job.stopped \/ job.background

\* The fields of a job.
JobIs ==
    job = [background |-> job.background, stopped |-> job.stopped,
           finished |-> job.finished, text |-> job.text]

Typed ==
    /\ JobIs
    /\ kids \in Seq(KidRecords)
    /\ nlines \in Nat /\ i \in Nat \ {0} /\ indice \in Int
    /\ \A k \in Kid : kids[k].line <= nlines

\* Before the first fork of a line it has no child.
FirstOne ==
    \/ at \in {"increment", "realloc", "tubes"}
    \/ at \in {"fork", "forking"} /\ i = 1
    => MyKids = {}

\* The line is being forked, or waited for.
InJob == at \in {"forking", "close", "wait"} \/ (at = "fork" /\ i # 1)

KidsTold ==
    flavour = "shell" /\ InJob /\ ~ job.finished =>
        chld \/ \A k \in MyKids : Alive(k)

HasKid ==
    \/ at = "close"
    \/ at \in {"fork", "forking"} /\ i # 1
    \/ at = "wait" /\ flavour = "shell" /\ ~ Flags
    => unforked \/ MyKids # {}

JobOver ==
    flavour = "shell" /\ ~ (indice < 0) =>
        /\ at = "prompt" => Flags
        /\ at \in {"tubes", "fork"} /\ i = 1 /\ ~ (1 <= cmdline.n) => Flags

LineHasCommand ==
    at \in {"increment", "realloc", "tubes"} => i = 1 /\ (at # "tubes" => 1 <= cmdline.n)

\* The inductive invariant.
JobInv == Typed /\ FirstOne /\ KidsTold /\ HasKid /\ JobOver /\ LineHasCommand

-----------------------------------------------------------------------------
LEMMA JobInvInit == ShellInit => JobInv
  BY DEF ShellInit, JobInv, Typed, JobIs, FirstOne, KidsTold, HasKid, JobOver, LineHasCommand,
         InJob, Flags, Kid, MyKids, NoJob, NoLine

LEMMA KidTypes ==
    ASSUME Typed
    PROVE  /\ Len(kids) \in Nat /\ Kid = 1..Len(kids)
           /\ \A k \in Kid : kids[k] \in KidRecords /\ kids[k].line \in Nat
<1>1. Len(kids) \in Nat /\ Kid = 1..Len(kids)
  BY DEF Typed, Kid
<1>2. \A k \in Kid : kids[k] \in KidRecords
  BY <1>1 DEF Typed
<1> QED BY <1>1, <1>2 DEF KidRecords

\* What a step leaves alone when it touches neither the children nor the line.
LEMMA SameKids ==
    ASSUME UNCHANGED <<kids, nlines>>
    PROVE  /\ Kid' = Kid /\ MyKids' = MyKids
           /\ \A k \in Kid : Alive(k)' = Alive(k)
  BY DEF Kid, MyKids, Alive

\* A child may change state, or all of them: the line each is of stays.
LEMMA KidsMove ==
    ASSUME Typed, NEW S \in SUBSET Kid, NEW st \in KidStates,
           kids' = [k \in Kid |-> IF k \in S THEN [kids[k] EXCEPT !.st = st] ELSE kids[k]],
           UNCHANGED nlines
    PROVE  /\ kids' \in Seq(KidRecords) /\ Kid' = Kid /\ MyKids' = MyKids
           /\ \A k \in Kid : kids'[k].line = kids[k].line
           /\ \A k \in Kid \ S : kids'[k] = kids[k]
           /\ \A k \in S : kids'[k].st = st
  <1>1. Kid = 1..Len(kids) /\ Len(kids) \in Nat /\ \A k \in Kid : kids[k] \in KidRecords
    BY DEF Typed, Kid
  <1>2. \A k \in Kid : (IF k \in S THEN [kids[k] EXCEPT !.st = st] ELSE kids[k]) \in KidRecords
    BY <1>1 DEF KidRecords
  <1>3. kids' \in [1..Len(kids) -> KidRecords]
    BY <1>1, <1>2
  <1>4. kids' \in Seq(KidRecords) /\ Kid' = Kid
    BY <1>1, <1>3 DEF Kid
  <1>5. \A k \in Kid : kids'[k].line = kids[k].line
    BY <1>1 DEF KidRecords
  <1>6. \A k \in S : kids'[k].st = st
    BY <1>1 DEF KidRecords
  <1>7. MyKids' = MyKids
    BY <1>4, <1>5 DEF MyKids
  <1>8. \A k \in Kid \ S : kids'[k] = kids[k]
    OBVIOUS
  <1> QED BY <1>4, <1>5, <1>6, <1>7, <1>8

-----------------------------------------------------------------------------
(* The steps that leave the children alone.                                *)

\* A new line: it has no child yet, for a child is of an earlier line.
LEMMA ReadLineStep == JobInv /\ ReadLine => JobInv'
<1> SUFFICES ASSUME JobInv, ReadLine PROVE JobInv'
  OBVIOUS
<1> USE DEF JobInv
<1>1. PICK line \in (IF nlines = 0 THEN FirstLines ELSE NextLines) :
        LET c == CmdlineOf(line) IN
        /\ cmdline' = c
        /\ at' = CASE cmdline.literal -> "aborted"
                   [] c.err /\ (flavour = "shell" \/ c.literal) -> "aborted"
                   [] c.err /\ flavour = "tst" /\ ~ c.literal -> "prompt"
                   [] ~ c.err /\ 1 <= c.n /\ flavour = "shell" -> "increment"
                   [] OTHER -> "tubes"
  BY DEF ReadLine
<1>2. /\ at = "prompt" /\ nlines' = nlines + 1 /\ i' = 1
      /\ UNCHANGED <<flavour, indice, job, kids>>
  BY DEF ReadLine, jobVars
<1>3. Kid' = Kid /\ MyKids' = {}
  BY <1>2, KidTypes DEF Kid, MyKids, Typed
<1>4. Typed'
  BY <1>2, <1>3, KidTypes DEF Typed, JobIs
<1>5. /\ at' \in {"aborted", "prompt", "increment", "tubes"}
      /\ at' = "increment" => 1 <= cmdline'.n
      /\ flavour = "shell" => at' # "prompt"
  BY <1>1
<1>6. FirstOne' /\ KidsTold' /\ HasKid' /\ LineHasCommand'
  BY <1>2, <1>3, <1>5 DEF FirstOne, KidsTold, InJob, HasKid, LineHasCommand
<1>7. JobOver'
  BY <1>2, <1>5 DEF JobOver, Flags
<1> QED BY <1>4, <1>6, <1>7

\* The steps of the shell between the line and the wait.
LEMMA ForkingSteps ==
    ASSUME JobInv,
           EndOfInput \/ Increment \/ Realloc \/ OpenTubes \/ ExitCommand \/ InitJob
             \/ CloseWritingEnd \/ StartWait
    PROVE  JobInv'
<1> USE DEF JobInv
<1>1. UNCHANGED <<flavour, kids, nlines, cmdline, chld, unforked>>
  BY DEF EndOfInput, Increment, Realloc, OpenTubes, ExitCommand, InitJob,
         CloseWritingEnd, StartWait, lineVars
<1>2. /\ Kid' = Kid /\ MyKids' = MyKids
      /\ \A k \in Kid : Alive(k)' = Alive(k)
  BY <1>1, SameKids
<1>3. MyKids \subseteq Kid
  BY DEF MyKids
<1>4. Typed'
  <2>1. i' \in Nat \ {0} /\ indice' \in Int
    <3>1. CASE EndOfInput \/ Increment \/ Realloc \/ OpenTubes \/ ExitCommand \/ CloseWritingEnd
      BY <3>1 DEF Typed, EndOfInput, Increment, Realloc, OpenTubes, ExitCommand,
                  CloseWritingEnd, lineVars, jobVars
    <3>2. CASE InitJob
      BY <3>2 DEF Typed, InitJob
    <3>3. CASE StartWait
      BY <3>3 DEF Typed, StartWait
    <3> QED BY <3>1, <3>2, <3>3
  <2>2. JobIs'
    <3>1. CASE EndOfInput \/ Increment \/ Realloc \/ OpenTubes \/ ExitCommand \/ CloseWritingEnd
      BY <3>1 DEF Typed, JobIs, EndOfInput, Increment, Realloc, OpenTubes, ExitCommand,
                  CloseWritingEnd, jobVars, NoJob
    <3>2. CASE InitJob
      BY <3>2 DEF Typed, JobIs, InitJob, NoJob
    <3>3. CASE StartWait
      BY <3>3 DEF Typed, JobIs, StartWait
    <3> QED BY <3>1, <3>2, <3>3
  <2> QED BY <1>1, <1>2, <2>1, <2>2 DEF Typed
<1>5. CASE EndOfInput \/ ExitCommand
  <2>1. at' \in {"aborted", "exited"}
    BY <1>5 DEF EndOfInput, ExitCommand
  <2> QED BY <1>4, <2>1 DEF FirstOne, KidsTold, InJob, HasKid, JobOver, LineHasCommand, Flags
<1>6. CASE Increment
  <2>1. at = "increment" /\ at' = "realloc" /\ UNCHANGED i
    BY <1>6 DEF Increment
  <2> QED BY <1>1, <1>2, <1>4, <2>1
       DEF FirstOne, KidsTold, InJob, HasKid, JobOver, LineHasCommand, Flags
<1>7. CASE Realloc
  <2>1. at = "realloc" /\ at' = "tubes" /\ UNCHANGED i
    BY <1>7 DEF Realloc
  <2>2. MyKids' = {} /\ i = 1 /\ 1 <= cmdline'.n
    BY <1>1, <1>2, <2>1 DEF FirstOne, LineHasCommand
  <2> QED BY <1>4, <2>1, <2>2
       DEF FirstOne, KidsTold, InJob, HasKid, JobOver, LineHasCommand, Flags
<1>11. CASE OpenTubes
  <2>1. at = "tubes" /\ at' \in {"fork", "overrun"} /\ UNCHANGED <<i, job, indice>>
    BY <1>11 DEF OpenTubes, jobVars
  <2>2. MyKids' = {} /\ i = 1
    BY <1>2, <2>1 DEF FirstOne, LineHasCommand
  <2> QED BY <1>1, <1>4, <2>1, <2>2
       DEF FirstOne, KidsTold, InJob, HasKid, JobOver, LineHasCommand, Flags
<1>8. CASE InitJob
  <2>1. at = "fork" /\ at' \in {"forking", "overrun"} /\ UNCHANGED i
    BY <1>8 DEF InitJob
  <2>2. (flavour = "shell" /\ i = 1) \/ job'.finished = job.finished
    BY <1>8 DEF InitJob, Typed, JobIs
  <2>3. KidsTold'
    BY <1>1, <1>2, <1>3, <2>1, <2>2 DEF FirstOne, KidsTold, InJob
  <2>4. FirstOne' /\ HasKid' /\ JobOver' /\ LineHasCommand'
    BY <1>1, <1>2, <2>1 DEF FirstOne, HasKid, JobOver, LineHasCommand
  <2> QED BY <1>4, <2>3, <2>4
<1>9. CASE CloseWritingEnd
  <2>1. at = "close" /\ at' = "fork" /\ i' = i + 1 /\ UNCHANGED job
    BY <1>9 DEF CloseWritingEnd, jobVars
  <2>2. i' # 1
    BY <2>1 DEF Typed
  <2> QED BY <1>1, <1>2, <1>3, <1>4, <2>1, <2>2
       DEF FirstOne, KidsTold, InJob, HasKid, JobOver, LineHasCommand, Flags
<1>10. CASE StartWait
  <2>1. /\ at = "fork" /\ ~ (i <= cmdline.n) /\ UNCHANGED indice
        /\ job' = job \/ (cmdline.n = MaxCmd /\ job'.finished = job.finished)
    BY <1>10 DEF StartWait, MoreCommands, Typed, JobIs
  <2>2. /\ at' \in {"undefined", "prompt", "wait"}
        /\ flavour = "shell" => at' # "prompt" /\ (indice < 0 => at' # "wait")
    BY <1>10 DEF StartWait
  <2>3. flavour = "shell" /\ at' = "wait" /\ ~ Flags' => unforked' \/ MyKids' # {}
    <3>1. i = 1 => ~ (1 <= cmdline.n) /\ job' = job
      BY <2>1, ArraysAssumption
    <3> QED BY <1>1, <1>2, <2>1, <2>2, <3>1 DEF HasKid, JobOver, Flags
  <2>4. KidsTold'
    BY <1>1, <1>2, <1>3, <2>1, <2>2 DEF KidsTold, InJob, FirstOne
  <2> QED BY <1>1, <1>2, <1>4, <2>2, <2>3, <2>4
       DEF FirstOne, HasKid, JobOver, LineHasCommand, Flags
<1> QED BY <1>5, <1>6, <1>7, <1>8, <1>9, <1>10, <1>11

\* The shell waits, or forgets to.
LEMMA WaitingSteps ==
    ASSUME JobInv, LeaveLoop \/ LeaveWaits PROVE JobInv'
<1> USE DEF JobInv
<1>1. /\ at = "wait" /\ at' = "prompt" /\ (flavour = "shell" => Flags)
      /\ UNCHANGED <<flavour, kids, nlines, cmdline, i, indice, job>>
  BY DEF LeaveLoop, LeaveWaits, lineVars, jobVars, Flags
<1>2. Kid' = Kid
  BY <1>1 DEF Kid
<1> QED BY <1>1, <1>2
     DEF Typed, JobIs, FirstOne, KidsTold, InJob, HasKid, JobOver, LineHasCommand, Flags

-----------------------------------------------------------------------------
(* The steps of the children.                                              *)

\* A fork gives the line a child that is alive.
LEMMA ForkStep == JobInv /\ Fork_command => JobInv'
<1> SUFFICES ASSUME JobInv, Fork_command PROVE JobInv'
  OBVIOUS
<1> USE DEF JobInv
<1>1. /\ at = "forking" /\ at' = "close"
      /\ UNCHANGED <<flavour, nlines, cmdline, i, indice, job, chld>>
  BY DEF Fork_command, lineVars, jobVars
<1>2. CASE kids' = Append(kids, [line |-> nlines, pos |-> i, st |-> "forked"])
           /\ UNCHANGED unforked
  <2> PICK n \in Nat : n = Len(kids)
    BY KidTypes
  <2>1. Kid = 1..n /\ kids \in Seq(KidRecords)
    BY KidTypes DEF Typed
  <2>2. [line |-> nlines, pos |-> i, st |-> "forked"] \in KidRecords
    BY DEF Typed, KidRecords, KidStates
  <2>3. /\ kids' \in Seq(KidRecords) /\ Kid' = 1..(n + 1)
        /\ \A k \in Kid : kids'[k] = kids[k]
        /\ kids'[n + 1] = [line |-> nlines, pos |-> i, st |-> "forked"]
    BY <1>2, <2>1, <2>2 DEF Kid
  <2>4. MyKids' = MyKids \cup {n + 1}
    BY <1>1, <2>1, <2>3 DEF MyKids
  <2>5. \A k \in MyKids : Alive(k) => Alive(k)'
    BY <2>3 DEF MyKids, Alive
  <2>6. Alive(n + 1)'
    BY <2>3 DEF Alive
  <2>7. Typed'
    BY <1>1, <2>1, <2>3 DEF Typed, JobIs
  <2>8. KidsTold'
    BY <1>1, <2>4, <2>5, <2>6 DEF KidsTold, InJob
  <2>9. FirstOne' /\ HasKid' /\ JobOver' /\ LineHasCommand'
    BY <1>1, <2>4 DEF FirstOne, HasKid, JobOver, LineHasCommand
  <2> QED BY <2>7, <2>8, <2>9
<1>3. CASE unforked' /\ UNCHANGED kids
  <2>1. /\ Kid' = Kid /\ MyKids' = MyKids
        /\ \A k \in Kid : Alive(k)' = Alive(k)
    BY <1>1, <1>3, SameKids
  <2>2. MyKids \subseteq Kid
    BY DEF MyKids
  <2>3. Typed'
    BY <1>1, <1>3, <2>1 DEF Typed, JobIs
  <2>4. KidsTold'
    BY <1>1, <2>1, <2>2 DEF KidsTold, InJob
  <2>5. FirstOne' /\ HasKid' /\ JobOver' /\ LineHasCommand'
    BY <1>1, <1>3 DEF FirstOne, HasKid, JobOver, LineHasCommand
  <2> QED BY <2>3, <2>4, <2>5
<1>4. unforked' \in {TRUE} \/ UNCHANGED unforked
  BY DEF Fork_command
<1> QED BY <1>2, <1>3 DEF Fork_command

\* Any move of the children that leaves the line alone, when those that are
\* no longer alive have raised SIGCHLD.
LEMMA KidsMoved ==
    ASSUME JobInv, kids' \in Seq(KidRecords), Kid' = Kid, MyKids' = MyKids,
           \A k \in Kid : kids'[k].line = kids[k].line,
           UNCHANGED <<flavour, nlines, cmdline, indice, unforked>>,
           i' \in Nat \ {0}, i' = i \/ (at = "wait" /\ flavour # "shell"),
           at' \in {at, "undefined"}, JobIs',
           job' = job \/ (job'.finished /\ (Flags => Flags')),
           flavour = "shell" =>
               \/ job'.finished \/ chld'
               \/ UNCHANGED chld /\ \A k \in Kid : Alive(k) => Alive(k)'
    PROVE  JobInv'
<1> USE DEF JobInv
<1>1. Typed'
  BY DEF Typed
<1>2. FirstOne' /\ LineHasCommand'
  BY DEF FirstOne, LineHasCommand
<1>3. Flags => Flags'
  BY DEF Flags
<1>4. HasKid' /\ JobOver'
  BY <1>3 DEF HasKid, JobOver
<1>5. MyKids \subseteq Kid
  BY DEF MyKids
<1>6. KidsTold'
  <2> SUFFICES ASSUME flavour = "shell", InJob', ~ job'.finished, ~ chld'
               PROVE  \A k \in MyKids : Alive(k)'
    BY DEF KidsTold
  <2>1. InJob /\ ~ job.finished /\ ~ chld
    BY DEF InJob
  <2> QED BY <1>5, <2>1 DEF KidsTold
<1> QED BY <1>1, <1>2, <1>4, <1>6

\* One child changes state.
LEMMA OneKidMoves ==
    ASSUME Typed, NEW q \in Kid, NEW st \in KidStates,
           kids' = [kids EXCEPT ![q].st = st], UNCHANGED nlines
    PROVE  /\ kids' \in Seq(KidRecords) /\ Kid' = Kid /\ MyKids' = MyKids
           /\ \A k \in Kid : kids'[k].line = kids[k].line
           /\ \A k \in Kid \ {q} : kids'[k] = kids[k]
           /\ kids'[q].st = st
<1>1. kids' = [k \in Kid |-> IF k \in {q} THEN [kids[k] EXCEPT !.st = st] ELSE kids[k]]
  BY KidTypes DEF Kid
<1>2. PICK S \in SUBSET Kid : S = {q}
  OBVIOUS
<1>3. kids' = [k \in Kid |-> IF k \in S THEN [kids[k] EXCEPT !.st = st] ELSE kids[k]]
  BY <1>1, <1>2
<1>4. /\ kids' \in Seq(KidRecords) /\ Kid' = Kid /\ MyKids' = MyKids
      /\ \A k \in Kid : kids'[k].line = kids[k].line
      /\ \A k \in Kid \ S : kids'[k] = kids[k]
      /\ \A k \in S : kids'[k].st = st
  BY <1>3, KidsMove
<1> QED BY <1>2, <1>4

\* What the handler makes of the job.
LEMMA HandledJob ==
    ASSUME JobIs, handler_child
    PROVE  job'.finished /\ job'.background = job.background /\ JobIs'
<1>1. PICK k \in Kid :
          job' = [job EXCEPT !.stopped = @ \/ kids[k].st = "stop",
                             !.finished = @ \/ MarksFinished(kids[k].st)]
  BY DEF handler_child
<1> DEFINE stopped == job.stopped \/ kids[k].st = "stop"
           finished == job.finished \/ MarksFinished(kids[k].st)
<1>2. job' = [job EXCEPT !.stopped = stopped, !.finished = finished]
  BY <1>1
<1>3. finished
  BY Zenon DEF MarksFinished
<1> HIDE DEF stopped, finished
<1>4. job' = [background |-> job.background, stopped |-> stopped,
              finished |-> finished, text |-> job.text]
  BY <1>2 DEF JobIs
<1>5. job'.finished = finished /\ job'.background = job.background /\ JobIs'
  BY <1>4 DEF JobIs
<1> QED BY <1>3, <1>5, Zenon

LEMMA ChildSteps ==
    ASSUME JobInv,
           \/ WaitChild_tst \/ handler_child \/ CtrlC_key \/ CtrlZ_key
           \/ \E k \in Kid : KidSteps(k)
    PROVE  JobInv'
<1> USE DEF JobInv
<1>0. UNCHANGED job => JobIs'
  BY DEF Typed, JobIs
<1> KidStates = {"forked", "run", "stop", "stopped", "zombie", "gone"}
  BY DEF KidStates
<1>1. CASE WaitChild_tst
  <2>1. /\ flavour # "shell" /\ at = "wait" /\ i' = i + 1
        /\ UNCHANGED <<flavour, at, nlines, cmdline, indice, job, chld, unforked>>
    BY <1>1 DEF WaitChild_tst, lineVars, jobVars
  <2>2. i' \in Nat \ {0}
    BY <2>1 DEF Typed
  <2>3. /\ kids' \in Seq(KidRecords) /\ Kid' = Kid /\ MyKids' = MyKids
        /\ \A k \in Kid : kids'[k].line = kids[k].line
    <3>1. CASE UNCHANGED kids
      BY <2>1, <3>1, SameKids DEF Typed
    <3>2. ASSUME NEW q \in Kid, kids' = [kids EXCEPT ![q].st = "gone"]
          PROVE  /\ kids' \in Seq(KidRecords) /\ Kid' = Kid /\ MyKids' = MyKids
                 /\ \A k \in Kid : kids'[k].line = kids[k].line
      BY <2>1, <3>2, OneKidMoves
    <3> QED BY <1>1, <3>1, <3>2 DEF WaitChild_tst
  <2> QED BY <1>0, <2>1, <2>2, <2>3, KidsMoved
<1>2. CASE handler_child
  <2>0. job'.finished /\ job'.background = job.background /\ JobIs'
    BY <1>2, HandledJob DEF Typed
  <2>1. /\ flavour = "shell" /\ at' \in {at, "undefined"}
        /\ UNCHANGED <<flavour, nlines, cmdline, indice, i, unforked>>
    BY <1>2 DEF handler_child, lineVars
  <2>2. Flags => Flags'
    BY <2>0 DEF Flags
  <2>3. PICK q \in Kid :
          kids' = [kids EXCEPT ![q].st = IF @ = "stop" THEN "stopped" ELSE "gone"]
    BY <1>2 DEF handler_child
  <2>4. PICK st \in {"stopped", "gone"} : kids' = [kids EXCEPT ![q].st = st]
    <3>1. kids' = [kids EXCEPT ![q].st = IF kids[q].st = "stop" THEN "stopped" ELSE "gone"]
      BY <2>3
    <3> QED BY <3>1
  <2>5. /\ kids' \in Seq(KidRecords) /\ Kid' = Kid /\ MyKids' = MyKids
        /\ \A k \in Kid : kids'[k].line = kids[k].line
    BY <2>1, <2>4, OneKidMoves
  <2>6. i' \in Nat \ {0}
    BY <2>1 DEF Typed
  <2> QED BY <2>0, <2>1, <2>2, <2>5, <2>6, KidsMoved
<1>3. ASSUME NEW q \in Kid, KidSteps(q) PROVE JobInv'
  <2>1. UNCHANGED <<flavour, at, nlines, cmdline, indice, job, i, unforked>>
    BY <1>3 DEF KidSteps, Exec, CommandEnds, lineVars, jobVars
  <2>2. i' \in Nat \ {0}
    BY <2>1 DEF Typed
  <2>3. CASE Exec(q)
    <3>1. kids' = [kids EXCEPT ![q].st = "run"] /\ UNCHANGED chld
      BY <2>3 DEF Exec
    <3>2. /\ kids' \in Seq(KidRecords) /\ Kid' = Kid /\ MyKids' = MyKids
          /\ \A k \in Kid : kids'[k].line = kids[k].line
          /\ \A k \in Kid \ {q} : kids'[k] = kids[k]
          /\ kids'[q].st = "run"
      BY <2>1, <3>1, OneKidMoves
    <3>3. \A k \in Kid : Alive(k) => Alive(k)'
      BY <3>2 DEF Alive
    <3> QED BY <1>0, <2>1, <2>2, <3>1, <3>2, <3>3, KidsMoved
  <2>4. CASE CommandEnds(q)
    <3>1. kids' = [kids EXCEPT ![q].st = "zombie"] /\ chld' = (flavour = "shell")
      BY <2>4 DEF CommandEnds
    <3>2. /\ kids' \in Seq(KidRecords) /\ Kid' = Kid /\ MyKids' = MyKids
          /\ \A k \in Kid : kids'[k].line = kids[k].line
      BY <2>1, <3>1, OneKidMoves
    <3> QED BY <1>0, <2>1, <2>2, <3>1, <3>2, KidsMoved
  <2> QED BY <1>3, <2>3, <2>4 DEF KidSteps
<1>4. ASSUME NEW st \in {"zombie", "stop"}, Strike(st) PROVE JobInv'
  <2>1. /\ UNCHANGED <<flavour, at, nlines, cmdline, indice, job, i, unforked>>
        /\ chld' = (flavour = "shell")
    BY <1>4 DEF Strike, lineVars, jobVars
  <2> DEFINE S == {k \in Kid : kids[k].st = "run"}
  <2>2. kids' = [k \in Kid |-> IF k \in S THEN [kids[k] EXCEPT !.st = st] ELSE kids[k]]
    BY <1>4 DEF Strike
  <2>3. /\ kids' \in Seq(KidRecords) /\ Kid' = Kid /\ MyKids' = MyKids
        /\ \A k \in Kid : kids'[k].line = kids[k].line
    BY <2>1, <2>2, KidsMove
  <2>4. i' \in Nat \ {0}
    BY <2>1 DEF Typed
  <2> QED BY <1>0, <2>1, <2>3, <2>4, KidsMoved
<1> QED BY <1>1, <1>2, <1>3, <1>4 DEF CtrlC_key, CtrlZ_key

-----------------------------------------------------------------------------
(* The invariant, and what it says of the wait.                            *)

LEMMA JobInvStep == JobInv /\ [ShellNext]_shellVars => JobInv'
<1> SUFFICES ASSUME JobInv, [ShellNext]_shellVars PROVE JobInv'
  OBVIOUS
<1>1. CASE UNCHANGED shellVars
  BY <1>1 DEF shellVars, lineVars, jobVars, JobInv, Typed, FirstOne, KidsTold, HasKid, JobOver,
              JobIs, LineHasCommand, InJob, Flags, Kid, MyKids, Alive
<1>2. CASE ReadLine
  BY <1>2, ReadLineStep
<1>3. CASE EndOfInput \/ Work
  BY <1>3, ForkingSteps, ForkStep, WaitingSteps, ChildSteps DEF Work
<1>4. CASE handler_child \/ (\E k \in Kid : KidSteps(k)) \/ CtrlC_key \/ CtrlZ_key
  BY <1>4, ChildSteps
<1> QED BY <1>1, <1>2, <1>3, <1>4 DEF ShellNext

LEMMA JobInvImplies == JobInv => NoLostChild
<1> SUFFICES ASSUME JobInv, WaitsForJob, ~ unforked, ~ chld
             PROVE  \E k \in MyKids : Alive(k)
  BY DEF NoLostChild
<1>1. \A k \in MyKids : Alive(k)
  BY DEF JobInv, KidsTold, InJob, WaitsForJob
<1>2. MyKids # {}
  BY DEF JobInv, HasKid, Flags, WaitsForJob
<1> QED BY <1>1, <1>2

\* Whatever is typed and struck, and whenever commands end: while shell.c waits
\* for a job, one of its commands is alive or SIGCHLD is on its way, unless a
\* fork has failed (shell.c:219-222, 230-245).  This is of shells whose arrays no
\* line has overrun, and of a job of MAX_CMD commands, whose '&' is lost, as well.
THEOREM ShellNeverWaitsForNobody == ShellSpec => []NoLostChild
<1>1. ShellInit => JobInv
  BY JobInvInit
<1>2. JobInv /\ [ShellNext]_shellVars => JobInv'
  BY JobInvStep
<1>3. JobInv => NoLostChild
  BY JobInvImplies
<1> QED BY <1>1, <1>2, <1>3, PTL DEF ShellSpec
-----------------------------------------------------------------------------
(* The foreground.  While no line has an '&' or, in shell.c, a pipe, every  *)
(* child that may still end is of the line being executed: shell.c has one  *)
(* of them at most and none when the job's flags are set, tst.c never more  *)
(* than it has waits to make.                                               *)

\* The children the program has not done with.
Over == IF flavour = "shell" THEN {"gone", "stopped"} ELSE {"gone"}
Left == {k \in Kid : kids[k].st \notin Over}

JobAlone ==
    /\ ~ job.background /\ ~ cmdline.background /\ cmdline.n \in 0 .. 1
    /\ \A j, k \in Left : j = k
    /\ at \in {"prompt", "increment", "realloc", "tubes", "forking"} => Left = {}
    /\ at = "fork" /\ i = 1 => Left = {}
    /\ job.finished \/ job.stopped => Left = {}
    /\ at = "forking" => i = 1 /\ ~ job.finished /\ ~ job.stopped
    /\ at # "realloc" => indice < room
    /\ at = "undefined" => indice < 0

\* The commands the program has tried to fork.
Tried == IF at = "close" THEN i ELSE i - 1

\* The first m - 1 commands are there and not the next one: m - i waits are left.
WaitsAlone ==
    /\ ~ cmdline.background
    /\ at \notin {"undefined", "increment", "realloc"}
    /\ at \in {"prompt", "tubes"} => Left = {}
    /\ at = "tubes" => i = 1
    /\ at \in {"fork", "forking", "close"} =>
          Cardinality(Left) <= Tried /\ \A c \in 1 .. Tried : c <= cmdline.n
    /\ at = "forking" => i <= cmdline.n
    /\ at = "wait" =>
          \E m \in Nat : /\ i <= m /\ Cardinality(Left) <= m - i
                        /\ ~ (m <= cmdline.n) /\ \A c \in 1 .. m - 1 : c <= cmdline.n

ForegroundInv ==
    /\ flavour \in {"shell", "tst"} /\ room \in Int
    /\ alone => IF flavour = "shell" THEN JobAlone ELSE WaitsAlone

LEMMA ForegroundInvInit == ShellInit => ForegroundInv
<1> SUFFICES ASSUME ShellInit PROVE ForegroundInv
  OBVIOUS
<1>1. Left = {}
  BY DEF ShellInit, Left, Kid
<1> QED BY <1>1, FlavoursAssumption
     DEF ShellInit, ForegroundInv, JobAlone, WaitsAlone, NoJob, NoLine

LEMMA LeftTypes ==
    ASSUME Typed
    PROVE  IsFiniteSet(Left) /\ Cardinality(Left) \in Nat /\ (Cardinality(Left) = 0 <=> Left = {})
<1>1. IsFiniteSet(Kid)
  <2>1. PICK n \in Nat : Kid = 1 .. n
    BY KidTypes
  <2> QED BY <2>1, FS_Interval
<1>2. IsFiniteSet(Left)
  BY <1>1, FS_Subset DEF Left
<1> QED BY <1>2, FS_CardinalityType, FS_EmptySet


LEMMA SameLeft ==
    ASSUME UNCHANGED <<kids, flavour>>
    PROVE  Left' = Left
  BY DEF Left, Over, Kid

\* A new line, while nothing is left of those before.
LEMMA ForegroundReadLine ==
    ASSUME JobInv, ForegroundInv, ReadLine
    PROVE  ForegroundInv'
<1>1. PICK line \in (IF nlines = 0 THEN FirstLines ELSE NextLines) :
        LET c == CmdlineOf(line) IN
        /\ cmdline' = c
        /\ alone' = (alone /\ Alone(c))
        /\ at' = CASE cmdline.literal -> "aborted"
                   [] c.err /\ (flavour = "shell" \/ c.literal) -> "aborted"
                   [] c.err /\ flavour = "tst" /\ ~ c.literal -> "prompt"
                   [] ~ c.err /\ 1 <= c.n /\ flavour = "shell" -> "increment"
                   [] OTHER -> "tubes"
  BY DEF ReadLine
<1>2. /\ at = "prompt" /\ i' = 1
      /\ UNCHANGED <<flavour, indice, room, job, kids>>
  BY DEF ReadLine, jobVars
<1>3. /\ at' \in {"aborted", "prompt", "increment", "tubes"}
      /\ flavour = "shell" => at' # "prompt"
      /\ flavour = "tst" => at' # "increment"
  BY <1>1
<1> SUFFICES ASSUME alone' PROVE ForegroundInv'
  BY <1>2 DEF ForegroundInv
<1>4. alone /\ ~ cmdline'.background /\ (flavour = "shell" => cmdline'.n \in 0 .. 1)
  BY <1>1 DEF Alone
<1>5. Left = {} /\ Left' = {} /\ Cardinality(Left') = 0
  BY <1>2, <1>4, SameLeft, FS_EmptySet DEF ForegroundInv, JobAlone, WaitsAlone
<1>6. CASE flavour = "shell"
  <2>1. JobAlone
    BY <1>4, <1>6 DEF ForegroundInv
  <2> QED BY <1>2, <1>3, <1>4, <1>5, <1>6, <2>1 DEF ForegroundInv, JobAlone
<1>7. CASE flavour = "tst"
  <2>1. at' \in {"aborted", "prompt", "tubes"}
    BY <1>3, <1>7
  <2> QED BY <1>2, <1>4, <1>5, <1>7, <2>1 DEF ForegroundInv, WaitsAlone, Tried
<1> QED BY <1>6, <1>7 DEF ForegroundInv

\* The steps of shell.c that leave the children alone.
LEMMA ForegroundShellSteps ==
    ASSUME JobInv, ForegroundInv, flavour = "shell",
           \/ EndOfInput \/ Increment \/ Realloc \/ OpenTubes \/ ExitCommand \/ InitJob
           \/ CloseWritingEnd \/ StartWait \/ LeaveLoop \/ LeaveWaits
    PROVE  ForegroundInv'
<1>1. UNCHANGED <<flavour, kids, cmdline, alone>>
  BY DEF EndOfInput, Increment, Realloc, OpenTubes, ExitCommand, InitJob, CloseWritingEnd,
         StartWait, LeaveLoop, LeaveWaits, lineVars
<1>2. room' \in Int
  <2>1. UNCHANGED room \/ room' = indice + 1
    BY DEF EndOfInput, Increment, Realloc, OpenTubes, ExitCommand, InitJob, CloseWritingEnd,
           StartWait, LeaveLoop, LeaveWaits, jobVars
  <2> QED BY <2>1 DEF ForegroundInv, JobInv, Typed
<1> SUFFICES ASSUME alone PROVE JobAlone'
  BY <1>1, <1>2 DEF ForegroundInv
<1>3. JobAlone /\ Left' = Left /\ i \in Nat \ {0} /\ indice \in Int /\ room \in Int
  BY <1>1, SameLeft DEF ForegroundInv, JobInv, Typed
<1>4. CASE EndOfInput \/ ExitCommand
  BY <1>1, <1>3, <1>4 DEF EndOfInput, ExitCommand, JobAlone, jobVars
<1>5. CASE Increment
  BY <1>1, <1>3, <1>5 DEF Increment, JobAlone, NoJob
<1>6. CASE Realloc
  BY <1>1, <1>3, <1>6 DEF Realloc, JobAlone
<1>11. CASE OpenTubes
  <2>1. at = "tubes" /\ at' \in {"fork", "overrun"} /\ UNCHANGED <<i, indice, room, job>>
    BY <1>11 DEF OpenTubes, jobVars
  <2> QED BY <1>1, <1>3, <2>1 DEF JobAlone
<1>7. CASE InitJob
  <2>1. /\ at = "fork" /\ at' \in {"forking", "overrun"}
        /\ i <= cmdline.n /\ UNCHANGED <<i, indice, room>>
    BY <1>7 DEF InitJob, MoreCommands
  <2>2. i = 1 /\ Left = {}
    BY <1>3, <2>1 DEF JobAlone
  <2>3. \E text : job' = [NoJob EXCEPT !.background = cmdline.background, !.text = text]
    BY <1>7, <2>2 DEF InitJob
  <2>4. ~ job'.background /\ ~ job'.finished /\ ~ job'.stopped
    BY <1>3, <2>3 DEF JobAlone, NoJob
  <2> QED BY <1>1, <1>3, <2>1, <2>2, <2>4 DEF JobAlone
<1>8. CASE CloseWritingEnd
  BY <1>1, <1>3, <1>8 DEF CloseWritingEnd, JobAlone, jobVars
<1>9. CASE StartWait
  <2>1. /\ at = "fork" /\ UNCHANGED <<indice, room>>
        /\ at' = IF indice < 0 THEN "undefined" ELSE "wait"
        /\ UNCHANGED <<job.finished, job.stopped>>
        /\ job' = job \/ ~ job'.background
    BY <1>9 DEF StartWait, JobInv, Typed, JobIs
  <2> QED BY <1>1, <1>3, <2>1 DEF JobAlone
<1>10. CASE LeaveLoop
  <2>1. /\ at = "wait" /\ at' = "prompt" /\ UNCHANGED <<job, indice, room, i>>
        /\ job.finished \/ job.stopped \/ job.background
    BY <1>10 DEF LeaveLoop, jobVars
  <2>2. Left = {}
    BY <1>3, <2>1 DEF JobAlone
  <2> QED BY <1>1, <1>3, <2>1, <2>2 DEF JobAlone
<1> QED BY <1>4, <1>5, <1>6, <1>7, <1>8, <1>9, <1>10, <1>11 DEF LeaveWaits

\* The steps of tst.c that leave the children alone.
LEMMA ForegroundTstSteps ==
    ASSUME JobInv, ForegroundInv, flavour = "tst",
           \/ EndOfInput \/ Increment \/ Realloc \/ OpenTubes \/ ExitCommand \/ InitJob
           \/ CloseWritingEnd \/ StartWait \/ LeaveLoop \/ LeaveWaits
    PROVE  ForegroundInv'
<1>1. UNCHANGED <<flavour, kids, cmdline, alone>>
  BY DEF EndOfInput, Increment, Realloc, OpenTubes, ExitCommand, InitJob, CloseWritingEnd,
         StartWait, LeaveLoop, LeaveWaits, lineVars
<1>2. room' \in Int
  <2>1. UNCHANGED room \/ room' = indice + 1
    BY DEF EndOfInput, Increment, Realloc, OpenTubes, ExitCommand, InitJob, CloseWritingEnd,
           StartWait, LeaveLoop, LeaveWaits, jobVars
  <2> QED BY <2>1 DEF ForegroundInv, JobInv, Typed
<1> SUFFICES ASSUME alone PROVE WaitsAlone'
  BY <1>1, <1>2 DEF ForegroundInv
<1>3. /\ WaitsAlone /\ Left' = Left /\ i \in Nat \ {0} /\ Cardinality(Left) \in Nat
      /\ Cardinality(Left) = 0 <=> Left = {}
  BY <1>1, SameLeft, LeftTypes DEF ForegroundInv, JobInv, Typed
<1>4. CASE EndOfInput \/ ExitCommand
  <2>1. at' \in {"aborted", "exited"}
    BY <1>4 DEF EndOfInput, ExitCommand
  <2> QED BY <1>1, <1>3, <2>1 DEF WaitsAlone
<1>5. CASE Increment \/ Realloc \/ LeaveLoop
  BY <1>3, <1>5 DEF Increment, Realloc, LeaveLoop, WaitsAlone
<1>10. CASE OpenTubes
  <2>1. at = "tubes" /\ at' \in {"fork", "overrun"} /\ UNCHANGED i
    BY <1>10 DEF OpenTubes
  <2>2. i = 1 /\ Left = {} /\ Tried' = 0
    BY <1>3, <2>1 DEF WaitsAlone, Tried
  <2> QED BY <1>1, <1>3, <2>1, <2>2 DEF WaitsAlone
<1>6. CASE InitJob
  <2>1. at = "fork" /\ at' = "forking" /\ i <= cmdline.n /\ UNCHANGED i
    BY <1>6 DEF InitJob, MoreCommands
  <2> QED BY <1>1, <1>3, <2>1 DEF WaitsAlone, Tried
<1>7. CASE CloseWritingEnd
  <2>1. at = "close" /\ at' = "fork" /\ i' = i + 1
    BY <1>7 DEF CloseWritingEnd
  <2>2. Tried' = i /\ Tried = i
    BY <1>3, <2>1 DEF Tried
  <2> QED BY <1>1, <1>3, <2>1, <2>2 DEF WaitsAlone
<1>8. CASE StartWait
  <2>1. at = "fork" /\ at' = "wait" /\ i' = 1 /\ ~ (i <= cmdline.n)
    BY <1>3, <1>8 DEF StartWait, MoreCommands, WaitsAlone
  <2>2. Cardinality(Left) <= i - 1 /\ \A c \in 1 .. i - 1 : c <= cmdline.n
    BY <1>3, <2>1 DEF WaitsAlone, Tried
  <2>3. /\ i \in Nat /\ i' <= i /\ Cardinality(Left)' <= i - i'
        /\ ~ (i <= cmdline'.n) /\ \A c \in 1 .. i - 1 : c <= cmdline'.n
    BY <1>1, <1>3, <2>1, <2>2
  <2> QED BY <1>1, <1>3, <2>1, <2>3 DEF WaitsAlone
<1>9. CASE LeaveWaits
  <2>1. at = "wait" /\ at' = "prompt" /\ ~ (i <= cmdline.n)
    BY <1>9 DEF LeaveWaits, MoreWaits, MoreCommands
  <2>2. PICK m \in Nat : /\ i <= m /\ Cardinality(Left) <= m - i
                        /\ ~ (m <= cmdline.n) /\ \A c \in 1 .. m - 1 : c <= cmdline.n
    BY <1>3, <2>1 DEF WaitsAlone
  <2>3. i = m
    BY <1>3, <2>1, <2>2
  <2>4. Left = {}
    BY <1>3, <2>2, <2>3
  <2> QED BY <1>1, <1>3, <2>1, <2>4 DEF WaitsAlone
<1> QED BY <1>4, <1>5, <1>6, <1>7, <1>8, <1>9, <1>10

-----------------------------------------------------------------------------
(* The foreground, when the children change.                               *)

LEMMA ForegroundFork ==
    ASSUME JobInv, ForegroundInv, Fork_command
    PROVE  ForegroundInv'
<1>1. /\ at = "forking" /\ at' = "close"
      /\ UNCHANGED <<flavour, nlines, cmdline, i, indice, room, job, alone>>
  BY DEF Fork_command, lineVars, jobVars
<1>2. IsFiniteSet(Left) /\ Cardinality(Left) \in Nat /\ i \in Nat \ {0}
  BY LeftTypes DEF JobInv, Typed
<1>3. PICK n \in Nat : n = Len(kids) /\ Kid = 1 .. n
  BY KidTypes DEF JobInv
<1>4. Left' \subseteq Left \cup {n + 1}
  <2>1. CASE kids' = Append(kids, [line |-> nlines, pos |-> i, st |-> "forked"])
    <3>1. Kid' = 1 .. n + 1 /\ \A k \in Kid : kids'[k] = kids[k]
      BY <1>3, <2>1, AppendProperties DEF JobInv, Typed, Kid
    <3> QED BY <1>1, <1>3, <3>1 DEF Left, Over
  <2>2. CASE UNCHANGED kids
    BY <1>1, <2>2, SameLeft
  <2> QED BY <2>1, <2>2 DEF Fork_command
<1>5. Cardinality(Left') <= Cardinality(Left) + 1 /\ Cardinality(Left') \in Nat
  <2>1. IsFiniteSet(Left \cup {n + 1}) /\ Cardinality(Left \cup {n + 1}) <= Cardinality(Left) + 1
    <3>1. PICK x : x = n + 1
      OBVIOUS
    <3>2. /\ IsFiniteSet(Left \cup {x})
          /\ Cardinality(Left \cup {x}) =
                IF x \in Left THEN Cardinality(Left) ELSE Cardinality(Left) + 1
      BY <1>2, FS_AddElement
    <3> QED BY <1>2, <3>1, <3>2
  <2>2. IsFiniteSet(Left') /\ Cardinality(Left') <= Cardinality(Left \cup {n + 1})
    BY <1>4, <2>1, FS_Subset
  <2>3. Cardinality(Left') \in Nat /\ Cardinality(Left \cup {n + 1}) \in Nat
    BY <2>1, <2>2, FS_CardinalityType
  <2> QED BY <1>2, <2>1, <2>2, <2>3
<1> SUFFICES ASSUME alone PROVE ForegroundInv'
  BY <1>1 DEF ForegroundInv
<1>6. CASE flavour = "shell"
  <2>1. JobAlone /\ Left = {}
    BY <1>1, <1>6 DEF ForegroundInv, JobAlone
  <2>2. \A j, k \in Left' : j = k
    BY <1>4, <2>1
  <2> QED BY <1>1, <1>6, <2>1, <2>2 DEF ForegroundInv, JobAlone
<1>7. CASE flavour = "tst"
  <2>1. /\ Cardinality(Left) <= i - 1 /\ (\A c \in 1 .. i - 1 : c <= cmdline.n)
        /\ i <= cmdline.n /\ ~ cmdline.background
    BY <1>1, <1>7 DEF ForegroundInv, WaitsAlone, Tried
  <2>2. Cardinality(Left') <= i /\ \A c \in 1 .. i : c <= cmdline.n
    <3>1. \A c \in 1 .. i : c \in 1 .. i - 1 \/ c = i
      BY <1>2
    <3> QED BY <1>2, <1>5, <2>1, <3>1
  <2>3. Tried' = i
    BY <1>1 DEF Tried
  <2> QED BY <1>1, <1>7, <2>1, <2>2, <2>3 DEF ForegroundInv, WaitsAlone
<1> QED BY <1>6, <1>7 DEF ForegroundInv

\* A child runs, ends or is struck: the program has not done with it.
LEMMA ForegroundKids ==
    ASSUME JobInv, ForegroundInv,
           CtrlC_key \/ CtrlZ_key \/ \E k \in Kid : KidSteps(k)
    PROVE  ForegroundInv'
<1>1. UNCHANGED <<flavour, at, nlines, cmdline, indice, room, job, i, alone>>
  BY DEF CtrlC_key, CtrlZ_key, Strike, KidSteps, Exec, CommandEnds, lineVars, jobVars
<1>2. Left' = Left
  <2>1. ASSUME NEW q \in Kid, KidSteps(q) PROVE Left' = Left
    <3>1. PICK st \in {"run", "zombie"} :
              kids' = [kids EXCEPT ![q].st = st] /\ kids[q].st \in {"forked", "run"}
      BY <2>1 DEF KidSteps, Exec, CommandEnds
    <3>2. /\ Kid' = Kid /\ kids'[q].st = st
          /\ \A k \in Kid \ {q} : kids'[k] = kids[k]
      BY <1>1, <3>1, OneKidMoves DEF JobInv, KidStates
    <3> QED BY <1>1, <3>1, <3>2 DEF Left, Over
  <2>2. ASSUME NEW st \in {"zombie", "stop"}, Strike(st) PROVE Left' = Left
    <3> DEFINE S == {k \in Kid : kids[k].st = "run"}
    <3>1. kids' = [k \in Kid |-> IF k \in S THEN [kids[k] EXCEPT !.st = st] ELSE kids[k]]
      BY <2>2 DEF Strike
    <3>2. S \in SUBSET Kid /\ st \in KidStates
      BY DEF KidStates
    <3>3. \A k \in Kid : k \in S <=> kids[k].st = "run"
      OBVIOUS
    <3> HIDE DEF S
    <3>4. /\ Kid' = Kid /\ (\A k \in S : kids'[k].st = st)
          /\ \A k \in Kid \ S : kids'[k] = kids[k]
      BY <1>1, <3>1, <3>2, KidsMove DEF JobInv
    <3> QED BY <1>1, <3>3, <3>4 DEF Left, Over
  <2> QED BY <2>1, <2>2 DEF CtrlC_key, CtrlZ_key
<1> QED BY <1>1, <1>2 DEF ForegroundInv, JobAlone, WaitsAlone, Tried

\* One wait of tst.c: a child goes, or there is none.
LEMMA ForegroundWait ==
    ASSUME JobInv, ForegroundInv, WaitChild_tst
    PROVE  ForegroundInv'
<1>1. /\ flavour = "tst" /\ at = "wait" /\ i <= cmdline.n /\ i' = i + 1
      /\ UNCHANGED <<flavour, at, nlines, cmdline, indice, room, job, alone>>
  BY DEF WaitChild_tst, MoreWaits, MoreCommands, lineVars, jobVars
<1> SUFFICES ASSUME alone PROVE ForegroundInv'
  BY <1>1 DEF ForegroundInv
<1>2. /\ IsFiniteSet(Left) /\ Cardinality(Left) \in Nat /\ i \in Nat \ {0}
      /\ Cardinality(Left) = 0 <=> Left = {}
  BY LeftTypes DEF JobInv, Typed
<1>3. PICK m \in Nat : /\ i <= m /\ Cardinality(Left) <= m - i
                      /\ ~ (m <= cmdline.n) /\ \A c \in 1 .. m - 1 : c <= cmdline.n
  BY <1>1 DEF ForegroundInv, WaitsAlone
<1>4. i + 1 <= m
  <2>1. i # m
    BY <1>1, <1>3
  <2> QED BY <1>2, <1>3, <2>1
<1>5. Cardinality(Left') <= m - (i + 1)
  <2>1. CASE (\A k \in Kid : kids[k].st = "gone") /\ UNCHANGED kids
    <3>1. Left = {} /\ Left' = Left
      BY <1>1, <2>1, SameLeft DEF Left, Over
    <3> QED BY <1>2, <1>3, <1>4, <3>1
  <2>2. ASSUME NEW q \in Kid, kids[q].st = "zombie", kids' = [kids EXCEPT ![q].st = "gone"]
        PROVE  Cardinality(Left') <= m - (i + 1)
    <3>1. /\ Kid' = Kid /\ kids'[q].st = "gone"
          /\ \A k \in Kid \ {q} : kids'[k] = kids[k]
      BY <1>1, <2>2, OneKidMoves DEF JobInv, KidStates
    <3>2. q \in Left /\ Left' = Left \ {q}
      BY <1>1, <2>2, <3>1 DEF Left, Over
    <3>3. Cardinality(Left') = Cardinality(Left) - 1
      BY <1>2, <3>2, FS_RemoveElement
    <3> QED BY <1>2, <1>3, <3>3
  <2> QED BY <2>1, <2>2 DEF WaitChild_tst
<1>6. WaitsAlone'
  BY <1>1, <1>3, <1>4, <1>5 DEF ForegroundInv, WaitsAlone
<1> QED BY <1>1, <1>6 DEF ForegroundInv

\* The handler of shell.c finds the one child of the line, and never between
\* the increment of indice_jobs and the reallocation.
LEMMA ForegroundHandler ==
    ASSUME JobInv, ForegroundInv, handler_child
    PROVE  ForegroundInv'
<1>1. /\ flavour = "shell" /\ at' = (IF indice < room THEN at ELSE "undefined")
      /\ UNCHANGED <<flavour, nlines, cmdline, indice, room, i, alone>>
  BY DEF handler_child, lineVars
<1> SUFFICES ASSUME alone PROVE JobAlone'
  BY <1>1 DEF ForegroundInv
<1>2. PICK q \in Kid :
          /\ kids[q].st \in {"zombie", "stop"}
          /\ kids' = [kids EXCEPT ![q].st = IF @ = "stop" THEN "stopped" ELSE "gone"]
  BY Zenon DEF handler_child
<1>3. JobAlone /\ q \in Left
  BY <1>1, <1>2 DEF ForegroundInv, Left, Over
<1>4. /\ Left # {} /\ (\A k \in Left : k = q)
      /\ at \notin {"prompt", "increment", "realloc", "forking"} /\ ~ (at = "fork" /\ i = 1)
      /\ indice < room /\ at' = at
  BY <1>1, <1>3 DEF JobAlone
<1>5. PICK st \in {"stopped", "gone"} : kids' = [kids EXCEPT ![q].st = st]
  <2>1. kids' = [kids EXCEPT ![q].st = IF kids[q].st = "stop" THEN "stopped" ELSE "gone"]
    BY <1>2
  <2> QED BY <2>1
<1>6. /\ Kid' = Kid /\ kids'[q].st = st
      /\ \A k \in Kid \ {q} : kids'[k] = kids[k]
  BY <1>1, <1>5, OneKidMoves DEF JobInv, KidStates
<1>7. Left' = {}
  BY <1>1, <1>4, <1>6 DEF Left, Over
<1>8. ~ job'.background
  <2>1. job'.background = job.background
    BY HandledJob DEF JobInv, Typed
  <2> QED BY <1>3, <2>1, Zenon DEF JobAlone
<1> QED BY <1>1, <1>3, <1>4, <1>7, <1>8 DEF JobAlone

LEMMA ForegroundInvStep == JobInv /\ ForegroundInv /\ [ShellNext]_shellVars => ForegroundInv'
<1> SUFFICES ASSUME JobInv, ForegroundInv, [ShellNext]_shellVars PROVE ForegroundInv'
  OBVIOUS
<1>1. CASE UNCHANGED shellVars
  BY <1>1 DEF shellVars, lineVars, jobVars, ForegroundInv, JobAlone, WaitsAlone, Left, Over, Kid, Tried
<1>2. CASE ReadLine
  BY <1>2, ForegroundReadLine
<1>3. CASE EndOfInput \/ Work
  BY <1>3, ForegroundShellSteps, ForegroundTstSteps, ForegroundFork, ForegroundWait
     DEF Work, ForegroundInv
<1>4. CASE handler_child \/ (\E k \in Kid : KidSteps(k)) \/ CtrlC_key \/ CtrlZ_key
  BY <1>4, ForegroundHandler, ForegroundKids
<1> QED BY <1>1, <1>2, <1>3, <1>4 DEF ShellNext

LEMMA ForegroundInvImplies == ForegroundInv => ForegroundAlone
<1> SUFFICES ASSUME ForegroundInv, alone
             PROVE  /\ at = "prompt" => \A k \in Kid : ~ Alive(k)
                    /\ at = "undefined" => indice < 0
  BY DEF ForegroundAlone
<1>1. at = "prompt" => Left = {}
  BY DEF ForegroundInv, JobAlone, WaitsAlone
<1>2. \A k \in Kid : Alive(k) => k \in Left
  BY DEF Left, Over, Alive
<1> QED BY <1>1, <1>2 DEF ForegroundInv, JobAlone, WaitsAlone

\* As long as no line has an '&' or, in shell.c, a pipe: the prompt comes back
\* with no command alive, and the handler never writes outside the table of the
\* jobs, whenever a command ends or a key is struck (shell.c:83, :243).  A line
\* that overruns tubes[10] or cmd leads to no prompt here: what it does in the
\* memory, and the prompt after it, are nobody's guess (shell.c:113, :150).
THEOREM ForegroundIsWaitedFor == ShellSpec => []ForegroundAlone
<1>1. ShellInit => JobInv /\ ForegroundInv
  BY JobInvInit, ForegroundInvInit
<1>2. (JobInv /\ ForegroundInv) /\ [ShellNext]_shellVars => (JobInv /\ ForegroundInv)'
  BY JobInvStep, ForegroundInvStep
<1>3. JobInv /\ ForegroundInv => ForegroundAlone
  BY ForegroundInvImplies
<1> QED BY <1>1, <1>2, <1>3, PTL DEF ShellSpec

-----------------------------------------------------------------------------
(* The bytes that go through rio_writen, a pipe and rio_read arrive whole  *)
(* and in order: StreamIntegrity, whatever the file and for every size of  *)
(* the buffers.                                                            *)
(*                                                                         *)
(* Each step cuts a piece off the front of one stage and puts it at the    *)
(* back of the next: Moves says when that leaves what is on its way alone. *)


Byte == {"a", "\n"}

StreamTypes ==
    /\ content \in Seq(Byte) /\ file \in Seq(Byte) /\ chunk \in Seq(Byte)
    /\ wire \in Seq(Byte) /\ rbuf \in Seq(Byte) /\ delivered \in Seq(Byte)
    /\ got \in Seq(Byte) /\ returns \in Seq([data : Seq(Byte), n : Nat])
    /\ wpc \in {"open", "send", "closed"}
    /\ request \in {"file", "missing", "none"}

\* Until the file is opened there is nothing anywhere.
NothingYet ==
    wpc = "open" =>
        file = <<>> /\ chunk = <<>> /\ wire = <<>> /\ rbuf = <<>> /\ delivered = <<>>

\* rio_readnb never has more than it was asked for.
AskedFor == ~ ByLine => Len(got) <= Nbytes

StreamInv == StreamTypes /\ NothingYet /\ AskedFor /\ StreamIntegrity

-----------------------------------------------------------------------------
(* Cutting a sequence, and moving the piece.                               *)

LEMMA Cut ==
    ASSUME NEW s \in Seq(Byte), NEW n \in 0 .. Len(s)
    PROVE  /\ SubSeq(s, 1, n) \in Seq(Byte) /\ SubSeq(s, n + 1, Len(s)) \in Seq(Byte)
           /\ Len(SubSeq(s, 1, n)) = n
           /\ SubSeq(s, 1, n) \o SubSeq(s, n + 1, Len(s)) = s
<1>1. /\ Len(s) \in Nat /\ n \in Nat /\ n <= Len(s)
      /\ \A j \in 1 .. Len(s) : s[j] \in Byte
  BY LenProperties, ElementOfSeq
<1>2. SubSeq(s, 1, n) \in Seq(Byte) /\ Len(SubSeq(s, 1, n)) = n
  BY <1>1, SubSeqProperties
<1>3. SubSeq(s, n + 1, Len(s)) \in Seq(Byte)
  BY <1>1, SubSeqProperties
<1>4. SubSeq(s, 1, n) \o SubSeq(s, n + 1, Len(s)) = SubSeq(s, 1, Len(s))
  <2>1. 1 \in 1 .. Len(s) + 1 /\ n \in 1 - 1 .. Len(s) /\ Len(s) \in n .. Len(s)
    BY <1>1
  <2> QED BY <2>1, ConcatAdjacentSubSeq
<1> QED BY <1>2, <1>3, <1>4, SubSeqFull

\* Concatenation, kept folded: the provers know \o, and unfold it without end.
Cat(s, t) == s \o t

LEMMA CatAssociates ==
    ASSUME NEW s \in Seq(Byte), NEW t \in Seq(Byte), NEW u \in Seq(Byte)
    PROVE  Cat(Cat(s, t), u) = Cat(s, Cat(t, u)) /\ Cat(s, t) \in Seq(Byte)
<1>1. (s \o t) \o u = s \o (t \o u)
  BY ConcatAssociative
<1>2. s \o t \in Seq(Byte)
  BY ConcatProperties
<1> QED BY <1>1, <1>2 DEF Cat

\* The front x of s = x \o y goes to the back of b, and the rest r follows.
LEMMA Moves ==
    ASSUME NEW b \in Seq(Byte), NEW x \in Seq(Byte), NEW y \in Seq(Byte), NEW r \in Seq(Byte)
    PROVE  Cat(Cat(b, x), Cat(y, r)) = Cat(b, Cat(Cat(x, y), r))
<1>1. Cat(y, r) \in Seq(Byte) /\ Cat(Cat(x, y), r) = Cat(x, Cat(y, r))
  BY CatAssociates
<1>2. Cat(Cat(b, x), Cat(y, r)) = Cat(b, Cat(x, Cat(y, r)))
  BY <1>1, CatAssociates
<1> QED BY <1>1, <1>2

LEMMA OnTheWayTyped ==
    ASSUME StreamTypes
    PROVE  /\ chunk \o file \in Seq(Byte) /\ wire \o (chunk \o file) \in Seq(Byte)
           /\ rbuf \o (wire \o (chunk \o file)) \in Seq(Byte) /\ OnTheWay \in Seq(Byte)
  BY ConcatProperties DEF StreamTypes, OnTheWay

-----------------------------------------------------------------------------
(* The invariant, initially and at every step.                             *)

LEMMA StreamInvInit == RioInit => StreamInv
<1> SUFFICES ASSUME RioInit PROVE StreamInv
  OBVIOUS
<1>1. content \in Seq(Byte) /\ <<>> \in Seq(Byte)
  BY RioAssumption DEF RioInit, Byte
<1>2. StreamTypes
  BY <1>1 DEF RioInit, StreamTypes, rio_readinitb
<1>3. NothingYet
  BY DEF RioInit, NothingYet, rio_readinitb
<1>4. OnTheWay = IF rioProg = "echo" THEN <<>> ELSE content
  <2>1. <<>> \o content = content /\ content \o <<>> = content
    BY <1>1, ConcatEmptySeq
  <2>2. <<>> \o <<>> = <<>>
    BY <1>1, ConcatEmptySeq
  <2>3. OnTheWay = <<>> \o (<<>> \o (wire \o (<<>> \o file)))
    BY DEF RioInit, OnTheWay, rio_readinitb
  <2>4. <<>> \o (<<>> \o (wire \o (<<>> \o file))) = <<>> \o (<<>> \o (wire \o file))
    BY <1>1, ConcatEmptySeq, <1>2 DEF StreamTypes
  <2>5. wire \o file = IF rioProg = "echo" THEN <<>> ELSE content
    BY <2>1, <2>2 DEF RioInit
  <2> QED BY <2>1, <2>2, <2>3, <2>4, <2>5
<1>5. StreamIntegrity
  BY <1>4 DEF StreamIntegrity, RioInit
<1>6. AskedFor
  BY DEF AskedFor, RioInit, Nbytes
<1> QED BY <1>2, <1>3, <1>5, <1>6 DEF StreamInv

\* A step outside of the call that is being made.
LEMMA SameCall ==
    ASSUME AskedFor, UNCHANGED <<rioProg, got, returns>>
    PROVE  AskedFor'
  BY DEF AskedFor, ByLine, Nbytes

\* A step of a stage that leaves what is on its way alone.
LEMMA SameBytes ==
    ASSUME StreamInv, StreamTypes', AskedFor', OnTheWay' = OnTheWay, UNCHANGED <<content, request>>,
           wpc # "open", wpc' \in {wpc, "closed"}, wpc' = wpc \/ wpc = "send"
    PROVE  StreamInv'
  BY DEF StreamInv, StreamIntegrity, NothingYet

LEMMA OpenFileKeeps ==
    ASSUME StreamInv, OpenFile
    PROVE  StreamInv'
<1>1. /\ file = <<>> /\ chunk = <<>> /\ wire = <<>> /\ rbuf = <<>> /\ delivered = <<>>
      /\ UNCHANGED <<rioProg, content, request, chunk, wire, rbuf, delivered, got, returns>>
      /\ wpc = "open" /\ content \in Seq(Byte)
  BY DEF OpenFile, StreamInv, NothingYet, StreamTypes, readerVars
<1>2. \/ wpc' = "send" /\ file' = content
      \/ wpc' = "closed" /\ file' = file /\ request # "file"
  BY DEF OpenFile
<1>3. StreamTypes'
  BY <1>1, <1>2 DEF StreamInv, StreamTypes
<1>4. OnTheWay' = file'
  <2>1. file' \in Seq(Byte)
    BY <1>3 DEF StreamTypes
  <2>2. <<>> \o file' = file'
    BY <2>1, ConcatEmptySeq
  <2> QED BY <1>1, <2>2 DEF OnTheWay
<1>5. AskedFor'
  BY <1>1, SameCall DEF StreamInv
<1> QED BY <1>1, <1>2, <1>3, <1>4, <1>5 DEF StreamInv, StreamIntegrity, NothingYet

LEMMA ReadFileKeeps ==
    ASSUME StreamInv, ReadFile
    PROVE  StreamInv'
<1>1. PICK n \in 1 .. Len(file) :
          /\ chunk' = SubSeq(file, 1, n)
          /\ file' = SubSeq(file, n + 1, Len(file))
  BY DEF ReadFile
<1>2. /\ wpc = "send" /\ chunk = <<>>
      /\ UNCHANGED <<rioProg, content, request, wpc, wire, rbuf, delivered, got, returns>>
  BY DEF ReadFile, readerVars
<1>3. chunk' \in Seq(Byte) /\ file' \in Seq(Byte) /\ chunk' \o file' = file
  <2>1. file \in Seq(Byte) /\ n \in 0 .. Len(file)
    BY <1>1 DEF StreamInv, StreamTypes
  <2> QED BY <1>1, <2>1, Cut
<1>4. StreamTypes'
  BY <1>2, <1>3 DEF StreamInv, StreamTypes
<1>5. chunk \o file = file
  BY <1>2, ConcatEmptySeq DEF StreamInv, StreamTypes
<1>6. OnTheWay' = OnTheWay
  BY <1>2, <1>3, <1>5 DEF OnTheWay
<1>7. AskedFor'
  BY <1>2, SameCall DEF StreamInv
<1> QED BY <1>2, <1>4, <1>6, <1>7, SameBytes

LEMMA WritenKeeps ==
    ASSUME StreamInv, rio_writen
    PROVE  StreamInv'
<1>1. PICK n \in 1 .. Least(Len(chunk), WireSize - Len(wire)) :
          /\ wire' = wire \o SubSeq(chunk, 1, n)
          /\ chunk' = SubSeq(chunk, n + 1, Len(chunk))
  BY DEF rio_writen, Unsent
<1>2. /\ wpc = "send"
      /\ UNCHANGED <<rioProg, content, request, wpc, file, rbuf, delivered, got, returns>>
  BY DEF rio_writen, writerVars, readerVars
<1>3. /\ chunk \in Seq(Byte) /\ wire \in Seq(Byte) /\ file \in Seq(Byte)
      /\ n \in 0 .. Len(chunk)
  <2>1. Len(chunk) \in Nat /\ Len(wire) \in Nat /\ WireSize \in Int
    BY RioAssumption, LenProperties DEF StreamInv, StreamTypes
  <2> QED BY <2>1 DEF Least, StreamInv, StreamTypes
<1>4. PICK x \in Seq(Byte) : x = SubSeq(chunk, 1, n) /\ chunk' \in Seq(Byte) /\ x \o chunk' = chunk
  BY <1>1, <1>3, Cut
<1>5. wire' = wire \o x /\ wire' \in Seq(Byte)
  BY <1>1, <1>3, <1>4, ConcatProperties
<1>6. wire' \o (chunk' \o file') = wire \o (chunk \o file)
  <2>1. PICK y \in Seq(Byte), b \in Seq(Byte), r \in Seq(Byte) : y = chunk' /\ b = wire /\ r = file
    BY <1>3, <1>4
  <2>2. (b \o x) \o (y \o r) = b \o ((x \o y) \o r)
    <3>1. Cat(Cat(b, x), Cat(y, r)) = Cat(b, Cat(Cat(x, y), r))
      BY Moves
    <3> QED BY <3>1, Zenon DEF Cat
  <2> QED BY <1>2, <1>4, <1>5, <2>1, <2>2
<1>7. StreamTypes'
  BY <1>2, <1>4, <1>5 DEF StreamInv, StreamTypes
<1>8. OnTheWay' = OnTheWay
  BY <1>2, <1>6 DEF OnTheWay
<1>9. AskedFor'
  BY <1>2, SameCall DEF StreamInv
<1> QED BY <1>2, <1>7, <1>8, <1>9, SameBytes

LEMMA RefillKeeps ==
    ASSUME StreamInv, Refill
    PROVE  StreamInv'
<1>1. PICK n \in 1 .. Least(BufSize, Len(wire)) :
          /\ rbuf' = SubSeq(wire, 1, n)
          /\ wire' = SubSeq(wire, n + 1, Len(wire))
  BY DEF Refill
<1>2. /\ rbuf = <<>>
      /\ UNCHANGED <<rioProg, content, request, wpc, file, chunk, delivered, got, returns>>
  BY DEF Refill, NeedsRefill, writerVars, readerVars
<1>3. /\ wire \in Seq(Byte) /\ n \in 0 .. Len(wire) /\ n >= 1
  <2>1. Len(wire) \in Nat /\ BufSize \in Int
    BY RioAssumption, LenProperties DEF StreamInv, StreamTypes
  <2> QED BY <2>1 DEF Least, StreamInv, StreamTypes
<1>4. rbuf' \in Seq(Byte) /\ wire' \in Seq(Byte) /\ rbuf' \o wire' = wire
  BY <1>1, <1>3, Cut
<1>5. StreamTypes'
  BY <1>2, <1>4 DEF StreamInv, StreamTypes
<1>6. OnTheWay' = OnTheWay
  <2>1. PICK r \in Seq(Byte) : r = chunk \o file
    BY OnTheWayTyped DEF StreamInv
  <2>2. <<>> \in Seq(Byte)
    OBVIOUS
  <2>3. rbuf' \o (wire' \o r) = (rbuf' \o wire') \o r
    <3>1. PICK x \in Seq(Byte), y \in Seq(Byte) : x = rbuf' /\ y = wire'
      BY <1>4
    <3>2. Cat(x, Cat(y, r)) = Cat(Cat(x, y), r)
      BY CatAssociates
    <3> QED BY <3>1, <3>2 DEF Cat
  <2>4. rbuf \o (wire \o r) = wire \o r
    <3>1. wire \o r \in Seq(Byte)
      BY <1>3, ConcatProperties
    <3> QED BY <1>2, <3>1, ConcatEmptySeq
  <2> QED BY <1>2, <1>4, <2>1, <2>3, <2>4 DEF OnTheWay
<1>7. wpc # "open"
  <2>1. wire # <<>>
    BY <1>3
  <2> QED BY <2>1 DEF StreamInv, NothingYet
<1>8. AskedFor'
  BY <1>2, SameCall DEF StreamInv
<1> QED BY <1>2, <1>5, <1>6, <1>7, <1>8, SameBytes

LEMMA CopyOutKeeps ==
    ASSUME StreamInv, CopyOut
    PROVE  StreamInv'
<1>1. PICK n : /\ n = IF ByLine THEN 1 ELSE Least(Nbytes - Len(got), Len(rbuf))
               /\ got' = got \o SubSeq(rbuf, 1, n)
               /\ delivered' = delivered \o SubSeq(rbuf, 1, n)
               /\ rbuf' = SubSeq(rbuf, n + 1, Len(rbuf))
  BY DEF CopyOut
<1>2. /\ rbuf # <<>> /\ UNCHANGED <<rioProg, content, request, wpc, file, chunk, wire, returns>>
  BY DEF CopyOut, writerVars, readerVars
<1>3. /\ rbuf \in Seq(Byte) /\ got \in Seq(Byte) /\ delivered \in Seq(Byte)
      /\ n \in 0 .. Len(rbuf) /\ (~ ByLine => n <= Nbytes - Len(got))
      /\ Len(got) \in Nat /\ Nbytes \in Nat
  <2>1. /\ Len(rbuf) \in Nat \ {0} /\ Len(got) \in Nat /\ Nbytes \in Nat
        /\ ~ ByLine => Len(got) <= Nbytes
    BY <1>2, LenProperties, EmptySeq DEF StreamInv, StreamTypes, AskedFor, Nbytes
  <2> QED BY <1>1, <2>1 DEF Least, StreamInv, StreamTypes
<1>4. PICK x \in Seq(Byte) : /\ x = SubSeq(rbuf, 1, n) /\ Len(x) = n
                            /\ rbuf' \in Seq(Byte) /\ x \o rbuf' = rbuf
  BY <1>1, <1>3, Cut
<1>5. /\ got' = got \o x /\ got' \in Seq(Byte) /\ Len(got') = Len(got) + n
      /\ delivered' = delivered \o x /\ delivered' \in Seq(Byte)
  <2>1. got' = got \o x /\ delivered' = delivered \o x
    BY <1>1, <1>4
  <2>2. got \o x \in Seq(Byte) /\ Len(got \o x) = Len(got) + Len(x)
    BY <1>3, ConcatProperties
  <2>3. delivered \o x \in Seq(Byte)
    BY <1>3, ConcatProperties
  <2> QED BY <1>4, <2>1, <2>2, <2>3
<1>6. StreamTypes'
  BY <1>2, <1>4, <1>5 DEF StreamInv, StreamTypes
<1>7. AskedFor'
  BY <1>2, <1>3, <1>5 DEF AskedFor, ByLine, Nbytes
<1>8. OnTheWay' = OnTheWay
  <2>1. PICK y \in Seq(Byte), b \in Seq(Byte), r \in Seq(Byte) :
            y = rbuf' /\ b = delivered /\ r = wire \o (chunk \o file)
    BY <1>3, <1>4, OnTheWayTyped DEF StreamInv
  <2>2. (b \o x) \o (y \o r) = b \o ((x \o y) \o r)
    <3>1. Cat(Cat(b, x), Cat(y, r)) = Cat(b, Cat(Cat(x, y), r))
      BY Moves
    <3> QED BY <3>1, Zenon DEF Cat
  <2> QED BY <1>2, <1>4, <1>5, <2>1, <2>2 DEF OnTheWay
<1>9. wpc # "open"
  BY <1>2 DEF StreamInv, NothingYet
<1> QED BY <1>2, <1>6, <1>7, <1>8, <1>9, SameBytes

\* A call begins with nothing, so that it can be given all it asks for.
LEMMA ReturnKeeps ==
    ASSUME StreamInv, Return_rio
    PROVE  StreamInv'
<1>1. /\ UNCHANGED <<content, request, wpc, file, chunk, wire, rbuf, delivered>>
      /\ got' = <<>> /\ returns' = Append(returns, [data |-> got, n |-> Result])
  BY DEF Return_rio, writerVars
<1>2. Result \in Nat
  BY LenProperties DEF Result, StreamInv, StreamTypes
<1>3. returns' \in Seq([data : Seq(Byte), n : Nat])
  BY <1>1, <1>2, AppendProperties DEF StreamInv, StreamTypes
<1>4. StreamTypes'
  BY <1>1, <1>3 DEF StreamInv, StreamTypes
<1>5. AskedFor'
  BY <1>1, <1>3, LenProperties DEF AskedFor, Nbytes
<1> QED BY <1>1, <1>4, <1>5 DEF StreamInv, StreamIntegrity, OnTheWay, NothingYet

LEMMA StreamInvStep == StreamInv /\ [RioNext]_rioVars => StreamInv'
<1> SUFFICES ASSUME StreamInv, [RioNext]_rioVars PROVE StreamInv'
  OBVIOUS
<1>1. CASE UNCHANGED rioVars
  BY <1>1 DEF rioVars, writerVars, readerVars, StreamInv, StreamTypes, NothingYet, AskedFor, ByLine,
     Nbytes, StreamIntegrity, OnTheWay
<1>2. CASE CloseWire
  <2>1. /\ UNCHANGED <<rioProg, content, request, file, chunk, wire, rbuf, delivered, got, returns>>
        /\ wpc = "send" /\ wpc' = "closed"
    BY <1>2 DEF CloseWire, readerVars
  <2>2. StreamTypes' /\ AskedFor' /\ OnTheWay' = OnTheWay
    BY <2>1 DEF StreamInv, StreamTypes, AskedFor, ByLine, Nbytes, OnTheWay
  <2> QED BY <2>1, <2>2, SameBytes
<1>3. CASE Ask \/ Readinitb_wild
  BY <1>3 DEF Ask, Readinitb_wild, writerVars, StreamInv, StreamTypes, NothingYet, AskedFor, ByLine,
     Nbytes, StreamIntegrity, OnTheWay
<1> QED BY <1>1, <1>2, <1>3, OpenFileKeeps, ReadFileKeeps, WritenKeeps, RefillKeeps, CopyOutKeeps,
      ReturnKeeps DEF RioNext, WriterSteps, ReaderSteps

\* Whatever the file, the sizes of the buffers and of every read and write: what
\* the reader has, followed by what is on its way, is the file (csapp.c:583, :613).
THEOREM NoByteIsLost == RioSpec => []StreamIntegrity
<1>1. RioInit => StreamInv
  BY StreamInvInit
<1>2. StreamInv /\ [RioNext]_rioVars => StreamInv'
  BY StreamInvStep
<1>3. StreamInv => StreamIntegrity
  BY DEF StreamInv
<1> QED BY <1>1, <1>2, <1>3, PTL DEF RioSpec

-----------------------------------------------------------------------------
(* What cpufraction.c and fileinfo.c print is true: the clock turned once at*)
(* most while the function ran, and nine bits are those of one number.     *)

\* What is known at each point of cpufraction, and of fileinfo at its end.
ToolInv ==
    /\ tool \in {"cpufraction", "fileinfo"}
    /\ tool = "fileinfo" =>
        /\ tpc \in {"start", "failed", "over"}
        /\ st_mode.rights \in 0..511
        /\ tpc = "over" => printed.droits =
            [k \in DOMAIN Droits |->
                IF (st_mode.rights \div Droits[k][1]) % 2 = 1 THEN Droits[k][2] ELSE "-"]
    /\ tool = "cpufraction" =>
        /\ ticks \in Nat /\ used \in Nat /\ tcstart \in Nat /\ tmstart \in Nat
        /\ tpc \in {"start", "begin"} => ticks < Wrap
        /\ tpc = "function" => ticks < Wrap /\ tcstart = ticks /\ tmstart = used
        /\ tpc \in {"end", "check", "over"} =>
            /\ tcstart < Wrap /\ ticks - tcstart \in 0..MaxTicks
            /\ used - tmstart \in 0..(ticks - tcstart)
        /\ tpc = "check" => tcend = ticks % Wrap /\ tmend = used
        /\ tpc = "over" =>
            /\ printed.wall_clock_time = ticks - tcstart
            /\ printed.wall_clock_time > 0
            /\ printed.cticks = used - tmstart

\* A clock that turned while the function took less than a turn is behind.
LEMMA WrappedOnce ==
    ASSUME NEW m \in Nat, NEW w \in Nat, NEW a \in Nat, NEW b \in Nat,
           m < w, a < w, b - a \in 0..m
    PROVE  /\ a % w = a
           /\ b % w = IF b < w THEN b ELSE b - w
<1>1. a % w = a
  OBVIOUS
<1>2. CASE b < w
  BY <1>2
<1>3. CASE ~ b < w
  <2>1. b - w \in 0..(w - 1)
    BY <1>3
  <2>2. b = 1 * w + (b - w)
    BY <2>1
  <2> QED BY <1>3, <2>1, <2>2
<1> QED BY <1>1, <1>2, <1>3

LEMMA ToolInvInit == ToolInit => ToolInv
BY ToolsAssumption DEF ToolInit, ToolInv

\* A number without its last bit.
LEMMA LastBit ==
    ASSUME NEW n \in 0..511
    PROVE  /\ \A k \in 1..8 :
                n \div Bit(k + 1) = 2 * (n \div Bit(k)) + ((n \div Bit(k + 1)) % 2)
           /\ n \div Bit(1) = (n \div Bit(1)) % 2 /\ n \div Bit(9) = n
           /\ \A k \in 1..9 : (n \div Bit(k)) % 2 \in {0, 1}
<1>1. /\ Bit(1) = 256 /\ Bit(2) = 128 /\ Bit(3) = 64 /\ Bit(4) = 32 /\ Bit(5) = 16
      /\ Bit(6) = 8 /\ Bit(7) = 4 /\ Bit(8) = 2 /\ Bit(9) = 1
  BY DEF Bit
<1>2. n \div 128 = 2 * (n \div 256) + ((n \div 128) % 2)
  OBVIOUS
<1>3. n \div 64 = 2 * (n \div 128) + ((n \div 64) % 2)
  OBVIOUS
<1>4. n \div 32 = 2 * (n \div 64) + ((n \div 32) % 2)
  OBVIOUS
<1>5. n \div 16 = 2 * (n \div 32) + ((n \div 16) % 2)
  OBVIOUS
<1>6. n \div 8 = 2 * (n \div 16) + ((n \div 8) % 2)
  OBVIOUS
<1>7. n \div 4 = 2 * (n \div 8) + ((n \div 4) % 2)
  OBVIOUS
<1>8. n \div 2 = 2 * (n \div 4) + ((n \div 2) % 2)
  OBVIOUS
<1>9. n \div 1 = 2 * (n \div 2) + ((n \div 1) % 2)
  OBVIOUS
<1>10. ASSUME NEW w \in {256, 128, 64, 32, 16, 8, 4, 2, 1} PROVE (n \div w) % 2 \in {0, 1}
  OBVIOUS
<1>11. n \div 256 = (n \div 256) % 2 /\ n \div 1 = n
  OBVIOUS
<1>12. ASSUME NEW k \in 1..9 PROVE (n \div Bit(k)) % 2 \in {0, 1}
  <2>1. Bit(k) \in {256, 128, 64, 32, 16, 8, 4, 2, 1}
    BY <1>1
  <2> QED BY <1>10, <2>1
<1>13. ASSUME NEW k \in 1..8
       PROVE  n \div Bit(k + 1) = 2 * (n \div Bit(k)) + ((n \div Bit(k + 1)) % 2)
  <2>1. CASE k = 1
    <3>1. Bit(k) = 256 /\ Bit(k + 1) = 128
      BY <1>1, <2>1
    <3> QED BY <1>2, <3>1
  <2>2. CASE k = 2
    <3>1. Bit(k) = 128 /\ Bit(k + 1) = 64
      BY <1>1, <2>2
    <3> QED BY <1>3, <3>1
  <2>3. CASE k = 3
    <3>1. Bit(k) = 64 /\ Bit(k + 1) = 32
      BY <1>1, <2>3
    <3> QED BY <1>4, <3>1
  <2>4. CASE k = 4
    <3>1. Bit(k) = 32 /\ Bit(k + 1) = 16
      BY <1>1, <2>4
    <3> QED BY <1>5, <3>1
  <2>5. CASE k = 5
    <3>1. Bit(k) = 16 /\ Bit(k + 1) = 8
      BY <1>1, <2>5
    <3> QED BY <1>6, <3>1
  <2>6. CASE k = 6
    <3>1. Bit(k) = 8 /\ Bit(k + 1) = 4
      BY <1>1, <2>6
    <3> QED BY <1>7, <3>1
  <2>7. CASE k = 7
    <3>1. Bit(k) = 4 /\ Bit(k + 1) = 2
      BY <1>1, <2>7
    <3> QED BY <1>8, <3>1
  <2>8. CASE k = 8
    <3>1. Bit(k) = 2 /\ Bit(k + 1) = 1
      BY <1>1, <2>8
    <3> QED BY <1>9, <3>1
  <2> QED BY <2>1, <2>2, <2>3, <2>4, <2>5, <2>6, <2>7, <2>8
<1> QED BY <1>1, <1>11, <1>12, <1>13

\* Nine bits that are the same are those of one number.
LEMMA NineBits ==
    ASSUME NEW n \in 0..511, NEW m \in 0..511,
           \A k \in 1..9 : (n \div Bit(k)) % 2 = 1 <=> (m \div Bit(k)) % 2 = 1
    PROVE  n = m
<1> DEFINE N(k) == n \div Bit(k)
           M(k) == m \div Bit(k)
<1>1. \A k \in 1..8 : N(k + 1) = 2 * N(k) + (N(k + 1) % 2) /\ M(k + 1) = 2 * M(k) + (M(k + 1) % 2)
  BY LastBit
<1>2. N(1) = N(1) % 2 /\ N(9) = n /\ M(1) = M(1) % 2 /\ M(9) = m
  BY LastBit
<1>3. \A k \in 1..9 : N(k) % 2 \in {0, 1}
  BY LastBit
<1>4. \A k \in 1..9 : M(k) % 2 \in {0, 1}
  BY LastBit
<1>5. \A k \in 1..9 : N(k) % 2 = 1 <=> M(k) % 2 = 1
  OBVIOUS
<1> HIDE DEF N, M
<1>6. ASSUME NEW k \in 1..9 PROVE N(k) % 2 = M(k) % 2
  BY <1>3, <1>4, <1>5
<1>7. ASSUME NEW k \in 1..8, N(k) = M(k) PROVE N(k + 1) = M(k + 1)
  <2>1. N(k + 1) % 2 = M(k + 1) % 2
    <3>1. k + 1 \in 1..9
      OBVIOUS
    <3> QED BY <1>6, <3>1
  <2> QED BY <1>1, <1>7, <2>1, Zenon
<1>8. N(1) = M(1)
  <2>1. 1 \in 1..9
    OBVIOUS
  <2> QED BY <1>2, <1>6, <2>1, Zenon
<1>9. N(9) = M(9)
  <2>1. N(3) = M(3)
    BY <1>7, <1>8
  <2>2. N(5) = M(5)
    BY <1>7, <2>1
  <2>3. N(7) = M(7)
    BY <1>7, <2>2
  <2> QED BY <1>7, <2>3
<1> QED BY <1>2, <1>9

LEMMA DroitsAre ==
    /\ DOMAIN Droits = 1..9
    /\ \A k \in 1..9 : Droits[k][1] = Bit(k) /\ Droits[k][2] = <<"r", "w", "x">>[1 + ((k - 1) % 3)]
    /\ \A k \in 1..9 : Droits[k][2] # "-"
<1>1. DOMAIN Droits = 1..9
  BY DEF Droits
<1>2. ASSUME NEW k \in 1..9 PROVE Droits[k][1] = Bit(k)
  BY DEF Droits, Bit
<1>3. ASSUME NEW k \in 1..9
      PROVE  Droits[k][2] = <<"r", "w", "x">>[1 + ((k - 1) % 3)] /\ Droits[k][2] # "-"
  BY DEF Droits
<1> QED BY <1>1, <1>2, <1>3

\* The letters shown are those of the rights, and of no others.
LEMMA LettersMean ==
    ASSUME NEW rights \in 0..511, NEW droits,
           droits = [k \in DOMAIN Droits |->
                IF (rights \div Droits[k][1]) % 2 = 1 THEN Droits[k][2] ELSE "-"]
    PROVE  Means(droits) = {rights}
<1>1. ASSUME NEW k \in 1..9
      PROVE  /\ droits[k] \in {"-", <<"r", "w", "x">>[1 + ((k - 1) % 3)]}
             /\ droits[k] # "-" <=> (rights \div Bit(k)) % 2 = 1
  <2>1. /\ Droits[k][1] = Bit(k) /\ Droits[k][2] = <<"r", "w", "x">>[1 + ((k - 1) % 3)]
        /\ Droits[k][2] # "-" /\ k \in DOMAIN Droits
    BY DroitsAre, Zenon
  <2>2. droits[k] = IF (rights \div Bit(k)) % 2 = 1 THEN Droits[k][2] ELSE "-"
    BY <2>1
  <2> QED BY <2>1, <2>2
<1>2. rights \in Means(droits)
  BY <1>1 DEF Means
<1>3. ASSUME NEW n \in Means(droits) PROVE n = rights
  <2>1. n \in 0..511 /\ \A k \in 1..9 : droits[k] # "-" <=> (n \div Bit(k)) % 2 = 1
    BY DEF Means
  <2>2. \A k \in 1..9 : (n \div Bit(k)) % 2 = 1 <=> (rights \div Bit(k)) % 2 = 1
    BY <1>1, <2>1
  <2> QED BY <2>1, <2>2, NineBits
<1> QED BY <1>2, <1>3

LEMMA ToolInvStep == ToolInv /\ [ToolNext]_toolVars => ToolInv'
<1> SUFFICES ASSUME ToolInv, [ToolNext]_toolVars PROVE ToolInv'
  OBVIOUS
<1>1. CASE UNCHANGED toolVars
  BY <1>1 DEF ToolInv, toolVars, times_t
<1>2. CASE Sysconf
  BY <1>2 DEF ToolInv, Sysconf, times_t
<1>3. CASE TimesStart
  <2>1. tool = "cpufraction" /\ tpc = "begin" /\ UNCHANGED <<tool, ticks, used>>
    BY <1>3 DEF ToolInv, TimesStart
  <2>2. ticks \in Nat /\ used \in Nat /\ ticks < Wrap
    BY <2>1 DEF ToolInv
  <2>3. ticks % Wrap = ticks
    BY <2>2, ToolsAssumption, WrappedOnce
  <2>4. CASE tpc' = "failed" /\ UNCHANGED <<tcstart, tmstart>>
    BY <2>1, <2>4 DEF ToolInv
  <2>5. CASE tcstart' = Times.tc /\ tmstart' = Times.tms /\ tpc' = "function"
    <3>1. tcstart' = ticks /\ tmstart' = used
      BY <2>3, <2>5 DEF Times
    <3> QED BY <2>1, <2>2, <2>5, <3>1 DEF ToolInv
  <2> QED BY <1>3, <2>4, <2>5 DEF TimesStart
<1>4. CASE FunctionRuns
  <2>1. tool = "cpufraction" /\ tpc = "function" /\ tpc' = "end" /\ UNCHANGED <<tool, times_t>>
    BY <1>4 DEF ToolInv, FunctionRuns
  <2>2. PICK elapsed \in 0..MaxTicks :
            \E cpu \in 0..elapsed : ticks' = ticks + elapsed /\ used' = used + cpu
    BY <1>4 DEF FunctionRuns
  <2>3. /\ ticks \in Nat /\ used \in Nat /\ tcstart = ticks /\ tmstart = used /\ ticks < Wrap
        /\ tcstart' = tcstart /\ tmstart' = tmstart
    BY <2>1 DEF ToolInv, times_t
  <2>4. /\ ticks' \in Nat /\ used' \in Nat
        /\ ticks' - tcstart' \in 0..MaxTicks /\ used' - tmstart' \in 0..(ticks' - tcstart')
    <3>1. PICK cpu \in 0..elapsed : ticks' = ticks + elapsed /\ used' = used + cpu
      BY <2>2
    <3> QED BY <2>3, <3>1, ToolsAssumption
  <2> QED BY <2>1, <2>3, <2>4 DEF ToolInv
<1>5. CASE TimesEnd
  <2>1. /\ tool = "cpufraction" /\ tpc = "end"
        /\ UNCHANGED <<tool, ticks, used, tcstart, tmstart>>
    BY <1>5 DEF ToolInv, TimesEnd
  <2>2. \/ tpc' = "failed"
        \/ tpc' = "check" /\ tcend' = ticks % Wrap /\ tmend' = used
    BY <1>5 DEF TimesEnd, Times
  <2> QED BY <2>1, <2>2 DEF ToolInv
<1>6. CASE Fraction
  <2>1. /\ tool = "cpufraction" /\ tpc = "check"
        /\ UNCHANGED <<tool, ticks, used, times_t>>
    BY <1>6 DEF ToolInv, Fraction
  <2>2. CASE tpc' = "failed"
    BY <2>1, <2>2 DEF ToolInv, times_t
  <2>3. CASE /\ ~ Wrapped /\ tpc' = "over"
             /\ printed' = [cticks |-> tmend - tmstart, wall_clock_time |-> tcend - tcstart]
    <3>1. /\ tcend = ticks % Wrap /\ tmend = used /\ tcstart \in Nat /\ tcstart < Wrap
          /\ ticks \in Nat /\ ticks - tcstart \in 0..MaxTicks
      BY <2>1 DEF ToolInv
    <3>2. ticks % Wrap = IF ticks < Wrap THEN ticks ELSE ticks - Wrap
      BY <3>1, ToolsAssumption, WrappedOnce
    <3>3. ~ tcend <= tcstart
      BY <2>3 DEF Wrapped
    <3>4. tcend = ticks /\ tcend - tcstart > 0
      BY <3>1, <3>2, <3>3, ToolsAssumption
    <3>5. printed'.wall_clock_time = ticks - tcstart /\ printed'.cticks = used - tmstart
      BY <2>3, <3>1, <3>4
    <3>6. tcstart' = tcstart /\ tmstart' = tmstart
      BY <2>1 DEF times_t
    <3> QED BY <2>1, <2>3, <3>4, <3>5, <3>6 DEF ToolInv
  <2> QED BY <1>6, <2>2, <2>3 DEF Fraction
<1>7. CASE Fileinfo
  <2>1. tool = "fileinfo" /\ UNCHANGED <<tool, st_mode>>
    BY <1>7 DEF Fileinfo
  <2>2. CASE tpc' = "failed"
    BY <2>1, <2>2 DEF ToolInv
  <2>3. CASE /\ tpc' = "over"
             /\ printed' =
                [type |-> Shows(st_mode.type),
                 droits |-> [k \in DOMAIN Droits |->
                    IF (st_mode.rights \div Droits[k][1]) % 2 = 1
                    THEN Droits[k][2] ELSE "-"]]
    BY <2>1, <2>3 DEF ToolInv
  <2> QED BY <1>7, <2>2, <2>3 DEF Fileinfo
<1> QED BY <1>1, <1>2, <1>3, <1>4, <1>5, <1>6, <1>7 DEF ToolNext

\* A fraction that cpufraction.c displays is that of the time that elapsed,
\* wherever its clock turns, and the nine characters of fileinfo.c are the
\* rights of the file and of no other.
THEOREM TheTruthIsPrinted == ToolSpec => []PrintsTheTruth
<1>1. ToolInv => PrintsTheTruth
  <2> SUFFICES ASSUME ToolInv, Printed PROVE PrintsTheTruth
    BY DEF PrintsTheTruth
  <2>1. CASE tool = "cpufraction"
    BY <2>1 DEF ToolInv, Printed, PrintsTheTruth
  <2>2. CASE tool = "fileinfo"
    <3>1. Means(printed.droits) = {st_mode.rights}
      BY <2>2, LettersMean DEF ToolInv, Printed
    <3> QED BY <2>2, <3>1 DEF PrintsTheTruth
  <2> QED BY <2>1, <2>2 DEF ToolInv
<1> QED BY <1>1, ToolInvInit, ToolInvStep, PTL DEF ToolSpec
-----------------------------------------------------------------------------
(* The lines that are typed (readcmd.c, parse.c): each is read whole,      *)
(* split in its words, every word owned once; and the FTP client asks what *)
(* the lines say.  What a recursive function computes is proved from its   *)
(* equation, by induction on the lengths: Induction is stated for a set,   *)
(* and each function is shown to exist before it is unfolded.              *)

LEMMA LeastNat ==
    ASSUME NEW S, S \subseteq Nat, S # {}
    PROVE  \E x \in S : \A y \in S : x <= y
<1>1. \E x \in S : \A y \in S : <<y, x>> \notin OpToRel(<, Nat)
  BY NatLessThanWellFounded, WFMin
<1>2. ASSUME NEW x \in S, NEW y \in S, <<y, x>> \notin OpToRel(<, Nat) PROVE x <= y
  <2>1. x \in Nat /\ y \in Nat
    OBVIOUS
  <2>2. ~ (y < x)
    BY <1>2, <2>1 DEF OpToRel
  <2> QED BY <2>1, <2>2
<1> QED BY <1>1, <1>2

LEMMA Induction ==
    ASSUME NEW n \in Nat, NEW T, 0 \in T,
           \A k \in 0 .. n - 1 : k \in T => k + 1 \in T
    PROVE  0 .. n \subseteq T
<1> DEFINE Missing == (0 .. n) \ T
<1> SUFFICES ASSUME Missing # {} PROVE FALSE
  OBVIOUS
<1>1. Missing \subseteq Nat
  OBVIOUS
<1>2. PICK x \in Missing : \A y \in Missing : x <= y
  <2> HIDE DEF Missing
  <2> QED BY <1>1, LeastNat
<1>3. x - 1 \in 0 .. n - 1 /\ x - 1 \notin Missing
  BY <1>2
<1> QED BY <1>2, <1>3

-----------------------------------------------------------------------------
(* readline: fgets is called until a piece ends with the line feed or the  *)
(* input is over.                                                          *)

\* fgets stops at the first line feed, at the end of the input or when its
\* buffer is full, and reads something of every input that is left.
LEMMA FgetsReads ==
    ASSUME NEW C, NEW input \in Seq(C), NEW n \in Int
    PROVE  \E m \in 0..Len(input) :
            /\ fgets(input, n) = SubSeq(input, 1, m)
            /\ m = 0 <=> input = <<>>
            /\ n >= 2 => m <= n - 1
            /\ \A j \in 1..(m - 1) : input[j] # "\n"
            /\ input # <<>> => m = n - 1 \/ m = Len(input) \/ input[m] = "\n"
<1> DEFINE Stop(k) == k = n - 1 \/ k = Len(input) \/ input[k] = "\n"
           stops == {k \in 1..Len(input) : Stop(k)}
           least == CHOOSE k \in stops : \A j \in stops : k <= j
<1>1. fgets(input, n) = IF stops = {} THEN <<>> ELSE SubSeq(input, 1, least)
  BY DEF fgets
<1>2. CASE input = <<>>
  <2>1. stops = {}
    BY <1>2
  <2>2. SubSeq(input, 1, 0) = <<>>
    BY <1>2
  <2> QED BY <1>1, <1>2, <2>1, <2>2
<1>3. CASE input # <<>>
  <2>1. Len(input) \in stops
    BY <1>3
  <2>2. \E k \in stops : \A j \in stops : k <= j
    <3>1. stops \subseteq Nat
      OBVIOUS
    <3> HIDE DEF stops
    <3> QED BY <2>1, <3>1, LeastNat
  <2>3. least \in stops /\ \A j \in stops : least <= j
    <3> HIDE DEF stops
    <3> QED BY <2>2
  <2>4. fgets(input, n) = SubSeq(input, 1, least)
    BY <1>1, <2>1
  <2> HIDE DEF least
  <2>5. /\ least \in 1..Len(input) /\ Stop(least)
        /\ \A j \in 1..(least - 1) : ~ Stop(j)
    BY <2>3
  <2>6. n >= 2 => least <= n - 1
    <3> SUFFICES ASSUME n >= 2, ~ least <= n - 1 PROVE FALSE
      BY <2>5
    <3>1. n - 1 \in 1..(least - 1)
      BY <2>5
    <3>2. Stop(n - 1)
      OBVIOUS
    <3> QED BY <2>5, <3>1, <3>2
  <2> QED BY <1>3, <2>4, <2>5, <2>6
<1> QED BY <1>2, <1>3

\* What readline takes of the input after l characters with a buffer of len.
Buffers(input, d) == [len : Nat, l : (Len(input) - d)..Len(input)]
Got(input, buf) == fgets(SubSeq(input, buf.l + 1, Len(input)), buf.len - buf.l)
End(input, buf) == buf.l + Len(Got(input, buf))
Grown(input, buf) == [len |-> 2 * buf.len, l |-> End(input, buf)]
Reads(f, input, d) ==
    f = [buf \in Buffers(input, d) |->
            IF Got(input, buf) = <<>> \/ Ends_line(Got(input, buf)) THEN End(input, buf)
            ELSE f[Grown(input, buf)]]

\* One call of fgets, seen from the input.
LEMMA GotIs ==
    ASSUME NEW C, NEW input \in Seq(C), NEW len \in Nat, NEW l \in 0..Len(input)
    PROVE  LET buf == [len |-> len, l |-> l]
               end == End(input, buf)
           IN /\ end \in l..Len(input)
              /\ Got(input, buf) = SubSeq(input, l + 1, end)
              /\ Got(input, buf) \in Seq(C)
              /\ Got(input, buf) = <<>> <=> end = l
              /\ end = l <=> l = Len(input)
              /\ Ends_line(Got(input, buf)) <=> end # l /\ input[end] = "\n"
              /\ len - l >= 2 => end <= len - 1
              /\ \A j \in (l + 1)..(end - 1) : input[j] # "\n"
              /\ end # l =>
                    end = len - 1 \/ end = Len(input) \/ input[end] = "\n"
<1> DEFINE buf == [len |-> len, l |-> l]
           rest == SubSeq(input, l + 1, Len(input))
           n == len - l
<1>1. /\ rest \in Seq(C) /\ Len(rest) = Len(input) - l
      /\ \A j \in 1..Len(rest) : rest[j] = input[l + j]
  BY SubSeqProperties
<1>2. PICK m \in 0..Len(rest) :
            /\ fgets(rest, n) = SubSeq(rest, 1, m)
            /\ m = 0 <=> rest = <<>>
            /\ n >= 2 => m <= n - 1
            /\ \A j \in 1..(m - 1) : rest[j] # "\n"
            /\ rest # <<>> => m = n - 1 \/ m = Len(rest) \/ rest[m] = "\n"
  <2> HIDE DEF rest
  <2>1. n \in Int
    OBVIOUS
  <2> HIDE DEF n
  <2> QED BY <1>1, <2>1, FgetsReads
<1>3. Got(input, buf) = SubSeq(rest, 1, m)
  BY <1>2 DEF Got
<1>4. /\ SubSeq(rest, 1, m) = SubSeq(input, l + 1, l + m)
      /\ SubSeq(rest, 1, m) \in Seq(C)
      /\ Len(SubSeq(rest, 1, m)) = m
      /\ m > 0 => SubSeq(rest, 1, m)[m] = rest[m]
  <2>1. /\ SubSeq(rest, 1, m) \in Seq(C)
        /\ Len(SubSeq(rest, 1, m)) = m
        /\ \A j \in 1..m : SubSeq(rest, 1, m)[j] = rest[j]
    <3> HIDE DEF rest
    <3> QED BY <1>1, <1>2, SubSeqProperties
  <2>2. l + m <= Len(input)
    BY <1>1, <1>2
  <2>3. /\ SubSeq(input, l + 1, l + m) \in Seq(C)
        /\ Len(SubSeq(input, l + 1, l + m)) = m
        /\ \A j \in 1..m : SubSeq(input, l + 1, l + m)[j] = input[l + j]
    BY <2>2, SubSeqProperties
  <2>4. \A j \in 1..m : rest[j] = input[l + j]
    BY <1>1
  <2> HIDE DEF rest
  <2> QED BY <2>1, <2>3, <2>4, SeqEqual
<1>5. rest = <<>> <=> l = Len(input)
  <2> HIDE DEF rest
  <2> QED BY <1>1
<1> HIDE DEF rest
<1>6. End(input, buf) = l + m /\ buf.l = l
  BY <1>3, <1>4 DEF End
<1>7. Ends_line(Got(input, buf)) <=> m # 0 /\ input[l + m] = "\n"
  <2>1. Got(input, buf) = <<>> <=> m = 0
    BY <1>3, <1>4
  <2>2. m # 0 => Last(Got(input, buf)) = input[l + m]
    BY <1>1, <1>3, <1>4 DEF Last
  <2> QED BY <2>1, <2>2 DEF Ends_line
<1>8. \A j \in (l + 1)..(l + m - 1) : input[j] # "\n"
  <2> SUFFICES ASSUME NEW j \in (l + 1)..(l + m - 1) PROVE input[j] # "\n"
    OBVIOUS
  <2>1. j - l \in 1..(m - 1) /\ j - l \in 1..Len(rest) /\ l + (j - l) = j
    BY <1>1, <1>2
  <2> QED BY <1>1, <1>2, <2>1
<1>9. m # 0 => l + m = len - 1 \/ l + m = Len(input) \/ input[l + m] = "\n"
  BY <1>1, <1>2, <1>5
<1>10. Got(input, buf) = <<>> <=> m = 0
  BY <1>3, <1>4
<1>11. m = 0 <=> l = Len(input)
  BY <1>2, <1>5
<1>12. len - l >= 2 => l + m <= len - 1
  BY <1>2
<1>13. l + m \in l..Len(input)
  BY <1>1, <1>2
<1>14. Got(input, buf) = SubSeq(input, l + 1, l + m) /\ Got(input, buf) \in Seq(C)
  BY <1>3, <1>4
<1> DEFINE end == End(input, buf)
<1> HIDE DEF buf
<1>15. /\ end \in l..Len(input)
       /\ Got(input, buf) = SubSeq(input, l + 1, end)
       /\ Got(input, buf) \in Seq(C)
       /\ Got(input, buf) = <<>> <=> end = l
       /\ end = l <=> l = Len(input)
  BY <1>6, <1>10, <1>11, <1>13, <1>14
<1>16. /\ Ends_line(Got(input, buf)) <=> end # l /\ input[end] = "\n"
       /\ len - l >= 2 => end <= len - 1
       /\ end # l => end = len - 1 \/ end = Len(input) \/ input[end] = "\n"
  BY <1>6, <1>7, <1>9, <1>12
<1>17. \A j \in (l + 1)..(end - 1) : input[j] # "\n"
  BY <1>6, <1>8
<1> USE DEF buf
<1> HIDE DEF end
<1> QED BY <1>15, <1>16, <1>17 DEF end

LEMMA GrownIs ==
    ASSUME NEW C, NEW input \in Seq(C), NEW d \in 0..Len(input), NEW buf \in Buffers(input, d),
           ~ (Got(input, buf) = <<>> \/ Ends_line(Got(input, buf)))
    PROVE  /\ Grown(input, buf) \in Buffers(input, d)
           /\ Grown(input, buf).l > buf.l
<1>1. /\ buf.len \in Nat /\ buf.l \in 0..Len(input) /\ buf.l >= Len(input) - d
      /\ buf = [len |-> buf.len, l |-> buf.l]
  BY DEF Buffers
<1>2. End(input, buf) \in buf.l..Len(input) /\ End(input, buf) # buf.l
  BY <1>1, GotIs
<1> QED BY <1>1, <1>2 DEF Grown, Buffers

\* The recursive function of Taken exists.
LEMMA ReadsExists ==
    ASSUME NEW C, NEW input \in Seq(C)
    PROVE  \E f : Reads(f, input, Len(input))
<1> DEFINE n == Len(input)
           T == {d \in 0..n : \E f : Reads(f, input, d)}
           stop(buf) == Got(input, buf) = <<>> \/ Ends_line(Got(input, buf))
<1>0. n \in Nat
  OBVIOUS
<1> HIDE DEF n
<1>1. 0 \in T
  <2> DEFINE f == [buf \in Buffers(input, 0) |-> End(input, buf)]
  <2>1. ASSUME NEW buf \in Buffers(input, 0) PROVE stop(buf)
    <3>1. /\ buf.len \in Nat /\ buf.l = Len(input)
          /\ buf = [len |-> buf.len, l |-> buf.l]
      BY DEF Buffers
    <3>2. Got(input, [len |-> buf.len, l |-> buf.l]) = <<>>
      BY <3>1, GotIs
    <3> QED BY <3>1, <3>2
  <2>2. Reads(f, input, 0)
    <3> HIDE DEF stop
    <3>1. \A buf \in Buffers(input, 0) :
            (IF stop(buf) THEN End(input, buf) ELSE f[Grown(input, buf)]) = End(input, buf)
      BY <2>1
    <3>2. f = [buf \in Buffers(input, 0) |->
                IF stop(buf) THEN End(input, buf) ELSE f[Grown(input, buf)]]
      BY <3>1
    <3> QED BY <3>2 DEF Reads, stop
  <2> QED BY <1>0, <2>2
<1>2. ASSUME NEW d \in 0..(n - 1), d \in T PROVE d + 1 \in T
  <2>1. PICK f : Reads(f, input, d)
    BY <1>2
  <2>2. d \in 0..Len(input) /\ d + 1 \in 0..Len(input)
    BY <1>0 DEF n
  <2> DEFINE g == [buf \in Buffers(input, d + 1) |->
                    IF buf \in Buffers(input, d) THEN f[buf]
                    ELSE IF stop(buf) THEN End(input, buf) ELSE f[Grown(input, buf)]]
  <2>3. ASSUME NEW buf \in Buffers(input, d + 1)
        PROVE  g[buf] = IF stop(buf) THEN End(input, buf) ELSE g[Grown(input, buf)]
    <3>1. ~ stop(buf) => Grown(input, buf) \in Buffers(input, d)
      <4> SUFFICES ASSUME ~ stop(buf) PROVE Grown(input, buf) \in Buffers(input, d)
        OBVIOUS
      <4>1. Grown(input, buf) \in Buffers(input, d + 1) /\ Grown(input, buf).l > buf.l
        BY <2>2, GrownIs
      <4>2. buf.l \in Int /\ buf.l >= Len(input) - (d + 1)
        BY <2>2 DEF Buffers
      <4> QED BY <2>2, <4>1, <4>2 DEF Buffers
    <3>2. Buffers(input, d) \subseteq Buffers(input, d + 1)
      BY <2>2 DEF Buffers
    <3> HIDE DEF stop
    <3>3. ~ stop(buf) => g[Grown(input, buf)] = f[Grown(input, buf)]
      BY <3>1, <3>2
    <3>4. CASE buf \in Buffers(input, d)
      <4>1. f[buf] = IF stop(buf) THEN End(input, buf) ELSE f[Grown(input, buf)]
        BY <2>1, <3>4 DEF Reads, stop
      <4> QED BY <3>3, <3>4, <4>1
    <3>5. CASE buf \notin Buffers(input, d)
      <4>1. g[buf] = IF stop(buf) THEN End(input, buf) ELSE f[Grown(input, buf)]
        BY <3>5
      <4> QED BY <3>3, <4>1
    <3> QED BY <3>4, <3>5
  <2>4. Reads(g, input, d + 1)
    <3>1. g = [buf \in Buffers(input, d + 1) |-> g[buf]]
      OBVIOUS
    <3> HIDE DEF g
    <3> QED BY <2>3, <3>1 DEF Reads
  <2> HIDE DEF g, stop
  <2> QED BY <2>2, <2>4 DEF n
<1>3. 0..n \subseteq T
  <2> HIDE DEF T
  <2> QED BY <1>0, <1>1, <1>2, Induction
<1> QED BY <1>0, <1>3 DEF n

\* The first line, with its line feed, or all that is left: none of it is
\* lost where the buffer grows.
LEMMA TakenIs ==
    ASSUME NEW C, NEW input \in Seq(C)
    PROVE  /\ Taken(input) \in 0..Len(input)
           /\ \A j \in 1..(Taken(input) - 1) : input[j] # "\n"
           /\ Taken(input) = 0 <=> input = <<>>
           /\ input # <<>> => Taken(input) = Len(input) \/ input[Taken(input)] = "\n"
<1> DEFINE n == Len(input)
           more == CHOOSE f : Reads(f, input, n)
           stop(buf) == Got(input, buf) = <<>> \/ Ends_line(Got(input, buf))
           Sound(buf) == /\ more[buf] \in buf.l..n
                         /\ \A j \in (buf.l + 1)..(more[buf] - 1) : input[j] # "\n"
                         /\ more[buf] = buf.l => buf.l = n
                         /\ more[buf] # buf.l => more[buf] = n \/ input[more[buf]] = "\n"
           T == {d \in 0..n : \A buf \in Buffers(input, d) :
                                buf.len - buf.l >= 2 => Sound(buf)}
<1>0. n \in Nat
  OBVIOUS
<1>1. Reads(more, input, n)
  BY ReadsExists
<1>2. Taken(input) = more[[len |-> BufLen, l |-> 0]]
  <2>1. Buffers(input, n) = [len : Nat, l : 0..Len(input)]
    <3>1. Len(input) - Len(input) = 0
      OBVIOUS
    <3> QED BY <3>1 DEF Buffers
  <2> QED BY <2>1 DEF Taken, Reads, Got, End, Grown
<1> HIDE DEF more, n
<1>3. ASSUME NEW buf \in Buffers(input, n)
      PROVE  more[buf] = IF stop(buf) THEN End(input, buf) ELSE more[Grown(input, buf)]
  BY <1>1 DEF Reads
<1>4. ASSUME NEW d \in 0..n, NEW buf \in Buffers(input, d)
      PROVE  buf \in Buffers(input, n)
  BY <1>0 DEF Buffers, n
<1>5. ASSUME NEW d \in 0..n, NEW buf \in Buffers(input, d)
      PROVE  /\ buf.len \in Nat /\ buf.l \in 0..n /\ buf.l >= n - d
             /\ buf = [len |-> buf.len, l |-> buf.l]
  BY <1>0 DEF Buffers, n
<1>6. ASSUME NEW d \in 0..n, NEW buf \in Buffers(input, d), stop(buf)
      PROVE  Sound(buf)
  <2> DEFINE end == End(input, buf)
  <2>1. more[buf] = end
    BY <1>3, <1>4, <1>6
  <2>2. /\ end \in buf.l..Len(input)
        /\ Got(input, buf) = <<>> <=> end = buf.l
        /\ end = buf.l <=> buf.l = Len(input)
        /\ Ends_line(Got(input, buf)) <=> end # buf.l /\ input[end] = "\n"
        /\ \A j \in (buf.l + 1)..(end - 1) : input[j] # "\n"
    BY <1>5, GotIs DEF n
  <2> HIDE DEF end
  <2> QED BY <1>6, <2>1, <2>2 DEF n
<1>7. 0 \in T
  <2> SUFFICES ASSUME NEW buf \in Buffers(input, 0) PROVE Sound(buf)
    BY <1>0
  <2>1. 0 \in 0..n
    BY <1>0
  <2>2. stop(buf)
    <3>1. /\ buf.len \in Nat /\ buf.l = Len(input) /\ buf.l \in 0..Len(input)
          /\ buf = [len |-> buf.len, l |-> buf.l]
      BY <1>0, <1>5, <2>1 DEF n
    <3>2. Got(input, [len |-> buf.len, l |-> buf.l]) = <<>>
      BY <3>1, GotIs
    <3> QED BY <3>1, <3>2
  <2> HIDE DEF stop, Sound
  <2> QED BY <1>6, <2>1, <2>2
<1>8. ASSUME NEW d \in 0..(n - 1), d \in T PROVE d + 1 \in T
  <2>0. d + 1 \in 0..n /\ d \in 0..n
    BY <1>0
  <2> SUFFICES ASSUME NEW buf \in Buffers(input, d + 1), buf.len - buf.l >= 2
               PROVE  Sound(buf)
    BY <2>0
  <2>1. CASE stop(buf)
    <3> HIDE DEF stop, Sound
    <3> QED BY <1>6, <2>0, <2>1
  <2>2. CASE ~ stop(buf)
    <3> DEFINE end == End(input, buf)
    <3>1. /\ buf.len \in Nat /\ buf.l \in 0..n /\ buf.l >= n - (d + 1)
      BY <1>5, <2>0
    <3>2. /\ end \in buf.l..Len(input)
          /\ Got(input, buf) = <<>> <=> end = buf.l
          /\ Ends_line(Got(input, buf)) <=> end # buf.l /\ input[end] = "\n"
          /\ \A j \in (buf.l + 1)..(end - 1) : input[j] # "\n"
          /\ end <= buf.len - 1
      BY <1>5, <2>0, GotIs DEF n
    <3>3. more[buf] = more[Grown(input, buf)]
      BY <1>3, <1>4, <2>0, <2>2
    <3>4. Grown(input, buf) = [len |-> 2 * buf.len, l |-> end]
      BY DEF Grown
    <3>5. end # buf.l /\ input[end] # "\n"
      BY <2>2, <3>2
    <3> HIDE DEF end
    <3>6. Grown(input, buf) \in Buffers(input, d)
      BY <1>0, <3>1, <3>2, <3>4, <3>5 DEF Buffers, n
    <3>7. 2 * buf.len - end >= 2
      BY <3>1, <3>2, <3>5, <1>0
    <3>8. Sound(Grown(input, buf))
      <4> HIDE DEF Sound
      <4> QED BY <1>8, <3>4, <3>6, <3>7
    <3>9. /\ more[buf] \in end..n
          /\ \A j \in (end + 1)..(more[buf] - 1) : input[j] # "\n"
          /\ more[buf] = end => end = n
          /\ more[buf] # end => more[buf] = n \/ input[more[buf]] = "\n"
      BY <3>3, <3>4, <3>8
    <3>10. \A j \in (buf.l + 1)..(more[buf] - 1) : input[j] # "\n"
      <4> SUFFICES ASSUME NEW j \in (buf.l + 1)..(more[buf] - 1) PROVE input[j] # "\n"
        OBVIOUS
      <4>1. j \in (buf.l + 1)..(end - 1) \/ j = end \/ j \in (end + 1)..(more[buf] - 1)
        BY <1>0, <3>1, <3>2, <3>9 DEF n
      <4> QED BY <3>2, <3>5, <3>9, <4>1
    <3> QED BY <1>0, <3>1, <3>2, <3>5, <3>9, <3>10 DEF n
  <2> QED BY <2>1, <2>2
<1>9. n \in T
  <2> HIDE DEF T
  <2>1. 0..n \subseteq T
    BY <1>0, <1>7, <1>8, Induction
  <2> QED BY <1>0, <2>1
<1> DEFINE first == [len |-> BufLen, l |-> 0]
<1>10. first \in Buffers(input, n) /\ first.len - first.l >= 2
  BY <1>0, BufLenAssumption DEF Buffers, n
<1>11. Sound(first)
  <2> HIDE DEF first, Sound
  <2> QED BY <1>9, <1>10
<1>12. first.l = 0 /\ more[first] = Taken(input)
  BY <1>2
<1> HIDE DEF first
<1> QED BY <1>0, <1>11, <1>12 DEF n

\* readline returns the first line whatever its length, and leaves the rest.
LEMMA LineIsRead ==
    ASSUME NEW C, NEW input \in Seq(C)
    PROVE  ReadsOneLine(input)
<1> DEFINE n == Len(input)
           t == Taken(input)
           read == SubSeq(input, 1, t)
           rest == SubSeq(input, t + 1, n)
           line == IF Ends_line(read) THEN Front(read) ELSE read
<1>1. /\ n \in Nat /\ t \in 0..n
      /\ \A j \in 1..(t - 1) : input[j] # "\n"
      /\ t = 0 <=> input = <<>>
      /\ input # <<>> => t = n \/ input[t] = "\n"
  BY TakenIs
<1>2. /\ readline(input).null <=> t = 0
      /\ readline(input).line = line
      /\ readline(input).rest = rest
  BY DEF readline
<1> HIDE DEF t
<1>3. /\ read \in Seq(C) /\ Len(read) = t
      /\ \A j \in 1..t : read[j] = input[j]
  BY <1>1, SubSeqProperties
<1>4. input = read \o rest
  <2>1. SubSeq(input, 1, t) \o SubSeq(input, t + 1, n) = SubSeq(input, 1, n)
    <3>1. 1 \in 1..Len(input) + 1 /\ t \in 1 - 1..Len(input) /\ n \in t..Len(input)
      BY <1>1
    <3> HIDE DEF n
    <3> QED BY <3>1, ConcatAdjacentSubSeq
  <2>2. SubSeq(input, 1, n) = input
    BY SubSeqFull
  <2> QED BY <2>1, <2>2
<1>5. Ends_line(read) <=> t > 0 /\ input[t] = "\n"
  <2>1. read = <<>> <=> t = 0
    <3> HIDE DEF read
    <3> QED BY <1>1, <1>3
  <2>2. t > 0 => Last(read) = input[t]
    <3> HIDE DEF read
    <3> QED BY <1>1, <1>3 DEF Last
  <2> QED BY <1>1, <2>1, <2>2 DEF Ends_line
<1> HIDE DEF rest, read, n
<1>6. ASSUME t > 0, input[t] = "\n"
      PROVE  /\ line = Front(read) /\ Front(read) \in Seq(C)
             /\ Len(Front(read)) = t - 1
             /\ \A j \in 1..(t - 1) : Front(read)[j] = input[j]
             /\ read = Append(Front(read), "\n")
  <2>1. line = Front(read)
    BY <1>5, <1>6
  <2>2. /\ Front(read) = SubSeq(read, 1, t - 1)
        /\ Front(read) \in Seq(C) /\ Len(Front(read)) = t - 1
        /\ \A j \in 1..(t - 1) : Front(read)[j] = read[j]
    BY <1>1, <1>3, <1>6, SubSeqProperties DEF Front
  <2>3. /\ Append(Front(read), "\n") \in Seq(C)
        /\ Len(Append(Front(read), "\n")) = t
        /\ \A j \in 1..(t - 1) : Append(Front(read), "\n")[j] = read[j]
        /\ Append(Front(read), "\n")[t] = "\n"
    <3>0. "\n" \in C
      BY <1>1, <1>6, ElementOfSeq DEF n
    <3>1. Len(Front(read)) + 1 = t /\ t \in Int
      BY <1>1, <2>2
    <3> DEFINE fr == Front(read)
    <3>2. fr \in Seq(C)
      BY <2>2
    <3>3. /\ Append(fr, "\n") \in Seq(C)
          /\ Len(Append(fr, "\n")) = Len(fr) + 1
          /\ \A j \in 1..Len(fr) : Append(fr, "\n")[j] = fr[j]
          /\ Append(fr, "\n")[Len(fr) + 1] = "\n"
      <4> HIDE DEF fr
      <4> QED BY <3>0, <3>1, <3>2, AppendProperties
    <3> QED BY <2>2, <3>1, <3>3
  <2>4. \A j \in 1..t : read[j] = Append(Front(read), "\n")[j]
    BY <1>1, <1>3, <1>6, <2>3
  <2>5. read = Append(Front(read), "\n")
    BY <1>3, <2>3, <2>4, SeqEqual
  <2> QED BY <1>1, <1>3, <2>1, <2>2, <2>5
<1>7. CASE t > 0 /\ input[t] = "\n"
  <2>1. input = Append(line, "\n") \o rest
    BY <1>4, <1>6, <1>7
  <2>2. "\n" \notin Range(line)
    <3>1. \A j \in DOMAIN line : line[j] # "\n"
      BY <1>1, <1>6, <1>7
    <3> HIDE DEF line
    <3> QED BY <3>1 DEF Range
  <2> HIDE DEF line
  <2> QED BY <1>1, <1>2, <2>1, <2>2 DEF ReadsOneLine
<1>8. CASE ~ (t > 0 /\ input[t] = "\n")
  <2>1. line = read /\ t = n
    BY <1>1, <1>5, <1>8 DEF n
  <2>2. \A j \in 1..n : input[j] # "\n"
    BY <1>1, <1>8, <2>1
  <2>3. "\n" \notin Range(read) /\ "\n" \notin Range(input)
    BY <1>1, <1>3, <2>1, <2>2 DEF Range, n
  <2> HIDE DEF line
  <2> QED BY <1>1, <1>2, <1>4, <2>1, <2>3 DEF ReadsOneLine
<1> QED BY <1>7, <1>8

-----------------------------------------------------------------------------
(* split_in_words, from a character on.                                    *)

SplitsFrom(f, line, n) ==
    f = [k \in (Len(line) + 1 - n)..(Len(line) + 1) |->
            IF k > Len(line) THEN <<>>
            ELSE IF line[k] = Blank THEN f[k + 1]
            ELSE IF line[k] \in Operators \cup {"&"}
            THEN <<[from |-> k, to |-> k, op |-> line[k]]>> \o f[k + 1]
            ELSE <<[from |-> k, to |-> WordEnd(line, k), op |-> "word"]>>
                    \o f[WordEnd(line, k) + 1]]

\* A word goes on up to a blank, an operator other than '&' or the end.
LEMMA WordEnds ==
    ASSUME NEW C, NEW line \in Seq(C), NEW k \in 1..Len(line)
    PROVE  /\ WordEnd(line, k) \in k..Len(line)
           /\ WordEnd(line, k) = Len(line) \/ line[WordEnd(line, k) + 1] \in Stops
           /\ \A j \in k..(WordEnd(line, k) - 1) : line[j + 1] \notin Stops
<1> DEFINE n == Len(line)
           Ends(e) == e = n \/ line[e + 1] \in Stops
           T == {e \in k..n : Ends(e)}
<1>0. n \in Nat /\ k \in Nat
  OBVIOUS
<1> HIDE DEF n
<1>1. T \subseteq Nat /\ n \in T
  BY <1>0 DEF n
<1>2. PICK e \in T : \A j \in T : e <= j
  <2> HIDE DEF T
  <2> QED BY <1>1, LeastNat
<1>3. \A j \in k..(e - 1) : ~ Ends(j)
  BY <1>0, <1>2
<1>4. \E x \in k..n : /\ x = n \/ line[x + 1] \in Stops
                      /\ \A j \in k..(x - 1) : line[j + 1] \notin Stops
  BY <1>2, <1>3
<1> QED BY <1>4 DEF WordEnd, n

LEMMA SplitsFromExists ==
    ASSUME NEW C, NEW line \in Seq(C)
    PROVE  \E f : SplitsFrom(f, line, Len(line))
<1> DEFINE n == Len(line)
           T == {d \in 0..n : \E f : SplitsFrom(f, line, d)}
<1>0. n \in Nat
  OBVIOUS
<1>1. 0 \in T
  <2> DEFINE f == [k \in (n + 1)..(n + 1) |-> <<>>]
  <2>1. SplitsFrom(f, line, 0)
    <3>1. \A k \in (n + 1)..(n + 1) : k > n
      BY <1>0
    <3>2. n + 1 - 0 = n + 1
      BY <1>0
    <3> QED BY <3>1, <3>2 DEF SplitsFrom
  <2> QED BY <1>0, <2>1
<1>2. ASSUME NEW d \in 0..(n - 1), d \in T PROVE d + 1 \in T
  <2>1. PICK f : SplitsFrom(f, line, d)
    BY <1>2
  <2> DEFINE new == n - d
             rest(h, k) == IF k > n THEN <<>>
                           ELSE IF line[k] = Blank THEN h[k + 1]
                           ELSE IF line[k] \in Operators \cup {"&"}
                           THEN <<[from |-> k, to |-> k, op |-> line[k]]>> \o h[k + 1]
                           ELSE <<[from |-> k, to |-> WordEnd(line, k), op |-> "word"]>>
                                   \o h[WordEnd(line, k) + 1]
             g == [k \in new..(n + 1) |-> IF k = new THEN rest(f, k) ELSE f[k]]
  <2>2. new \in 1..n /\ n + 1 - (d + 1) = new /\ n + 1 - d = new + 1
    BY <1>0
  <2> HIDE DEF n, new
  <2>3. f = [k \in (new + 1)..(n + 1) |-> rest(f, k)]
    BY <2>1, <2>2 DEF SplitsFrom, n
  <2>4. ASSUME NEW k \in new..(n + 1) PROVE g[k] = rest(g, k)
    <3>1. rest(f, k) = rest(g, k)
      <4>1. CASE k > n
        BY <4>1
      <4>2. CASE k <= n
        <5>1. k + 1 \in (new + 1)..(n + 1) /\ k + 1 # new /\ k \in 1..n
          BY <1>0, <2>2, <4>2
        <5>2. g[k + 1] = f[k + 1]
          BY <5>1, <2>2
        <5>3. WordEnd(line, k) \in k..n
          BY <5>1, WordEnds DEF n
        <5>4. WordEnd(line, k) + 1 \in (new + 1)..(n + 1) /\ WordEnd(line, k) + 1 # new
          BY <1>0, <2>2, <5>1, <5>3
        <5>5. g[WordEnd(line, k) + 1] = f[WordEnd(line, k) + 1]
          BY <5>4, <2>2
        <5> HIDE DEF g
        <5> QED BY <5>2, <5>5
      <4> QED BY <1>0, <2>2, <4>1, <4>2
    <3>2. CASE k = new
      <4> HIDE DEF rest
      <4>1. g[k] = rest(f, k)
        BY <3>2
      <4> QED BY <3>1, <4>1
    <3>3. CASE k # new
      <4>1. k \in (new + 1)..(n + 1)
        BY <1>0, <2>2, <3>3
      <4>2. f[k] = rest(f, k)
        <5> HIDE DEF rest
        <5> QED BY <2>3, <4>1
      <4> HIDE DEF rest
      <4>3. g[k] = f[k]
        BY <3>3
      <4> QED BY <3>1, <4>2, <4>3
    <3> QED BY <3>2, <3>3
  <2>5. SplitsFrom(g, line, d + 1)
    <3>1. g = [k \in new..(n + 1) |-> g[k]]
      OBVIOUS
    <3>2. g = [k \in new..(n + 1) |-> rest(g, k)]
      <4> HIDE DEF g, rest
      <4> QED BY <2>4, <3>1
    <3> HIDE DEF g
    <3> QED BY <2>2, <3>2 DEF SplitsFrom, n
  <2> HIDE DEF g
  <2> QED BY <1>0, <2>5 DEF n
<1>3. n \in T
  <2> HIDE DEF T, n
  <2>1. 0..n \subseteq T
    BY <1>0, <1>1, <1>2, Induction
  <2> QED BY <1>0, <2>1
<1> QED BY <1>3

WordRecords == [from : Nat, to : Nat, op : {"word", "&"} \cup Operators]

\* What a word shows of the line.
WordSound(line, r) ==
    IF Literal(r) THEN r.from = r.to /\ line[r.from] = r.op
    ELSE /\ line[r.from] # "&"
         /\ \A k \in r.from..r.to : line[k] \notin Operators
         /\ r.to < Len(line) => line[r.to + 1] \in Operators \cup {Blank}

\* ws are the words of the line from the character k on.
WordsFrom(line, k, ws) ==
    /\ ws \in Seq(WordRecords)
    /\ \A w \in 1..Len(ws) :
        /\ ws[w].from \in k..Len(line) /\ ws[w].to \in ws[w].from..Len(line)
        /\ WordSound(line, ws[w])
    /\ \A v, w \in 1..Len(ws) : v < w => ws[v].to < ws[w].from
    /\ \A c \in k..Len(line) :
        line[c] # Blank <=> \E w \in 1..Len(ws) : c \in ws[w].from..ws[w].to

LEMMA WordPut ==
    ASSUME NEW C, NEW line \in Seq(C), NEW k \in 1..Len(line), NEW r \in WordRecords, NEW ws,
           r.from = k, r.to \in k..Len(line), WordSound(line, r),
           \A c \in r.from..r.to : line[c] # Blank,
           WordsFrom(line, r.to + 1, ws)
    PROVE  WordsFrom(line, k, <<r>> \o ws)
<1> DEFINE n == Len(line)
           all == <<r>> \o ws
<1>0. n \in Nat /\ k \in 1..n /\ r.to \in k..n
  OBVIOUS
<1> HIDE DEF n
<1>1. /\ ws \in Seq(WordRecords)
      /\ \A w \in 1..Len(ws) :
          /\ ws[w].from \in (r.to + 1)..n /\ ws[w].to \in ws[w].from..n
          /\ WordSound(line, ws[w])
      /\ \A v, w \in 1..Len(ws) : v < w => ws[v].to < ws[w].from
      /\ \A c \in (r.to + 1)..n :
          line[c] # Blank <=> \E w \in 1..Len(ws) : c \in ws[w].from..ws[w].to
  BY DEF WordsFrom, n
<1>2. /\ all \in Seq(WordRecords) /\ Len(all) = Len(ws) + 1 /\ all[1] = r
      /\ \A w \in 1..Len(ws) : all[w + 1] = ws[w]
  <2>1. /\ <<r>> \in Seq(WordRecords) /\ Len(<<r>>) = 1 /\ <<r>>[1] = r
    OBVIOUS
  <2>2. /\ all \in Seq(WordRecords) /\ Len(all) = 1 + Len(ws)
        /\ \A j \in 1..(1 + Len(ws)) : all[j] = IF j <= 1 THEN <<r>>[j] ELSE ws[j - 1]
    <3> HIDE DEF all
    <3> QED BY <1>1, <2>1, ConcatProperties DEF all
  <2>3. Len(ws) \in Nat
    BY <1>1
  <2>4. \A w \in 1..Len(ws) : all[w + 1] = ws[w]
    <3> SUFFICES ASSUME NEW w \in 1..Len(ws) PROVE all[w + 1] = ws[w]
      OBVIOUS
    <3>1. w + 1 \in 1..(1 + Len(ws)) /\ ~ (w + 1 <= 1) /\ (w + 1) - 1 = w
      BY <2>3
    <3> HIDE DEF all
    <3> QED BY <2>2, <3>1
  <2> HIDE DEF all
  <2> QED BY <2>1, <2>2, <2>3, <2>4
<1> HIDE DEF all
<1>3. /\ Len(ws) \in Nat
      /\ \A w \in 1..Len(all) : w # 1 => w - 1 \in 1..Len(ws) /\ all[w] = ws[w - 1]
  <2>1. Len(ws) \in Nat
    BY <1>1
  <2> SUFFICES ASSUME NEW w \in 1..Len(all), w # 1
               PROVE  w - 1 \in 1..Len(ws) /\ all[w] = ws[w - 1]
    BY <2>1
  <2>2. w - 1 \in 1..Len(ws) /\ (w - 1) + 1 = w
    BY <1>2, <2>1
  <2> QED BY <1>2, <2>2
<1>4. ASSUME NEW w \in 1..Len(all)
      PROVE  /\ all[w].from \in k..n /\ all[w].to \in all[w].from..n
             /\ WordSound(line, all[w])
  <2>1. CASE w = 1
    BY <1>0, <1>2, <2>1
  <2>2. CASE w # 1
    <3> DEFINE u == w - 1
    <3>1. u \in 1..Len(ws) /\ all[w] = ws[u]
      BY <1>3, <2>2
    <3> HIDE DEF u
    <3>2. /\ ws[u].from \in (r.to + 1)..n /\ ws[u].to \in ws[u].from..n
          /\ WordSound(line, ws[u])
      BY <1>1, <3>1
    <3>3. \A c \in (r.to + 1)..n : c \in k..n
      BY <1>0
    <3> QED BY <3>1, <3>2, <3>3
  <2> QED BY <2>1, <2>2
<1>5. ASSUME NEW v \in 1..Len(all), NEW w \in 1..Len(all), v < w
      PROVE  all[v].to < all[w].from
  <2>1. w # 1 /\ w - 1 \in 1..Len(ws) /\ all[w] = ws[w - 1]
    BY <1>3, <1>5
  <2>2. CASE v = 1
    BY <1>0, <1>1, <1>2, <2>1, <2>2
  <2>3. CASE v # 1
    <3>1. v - 1 \in 1..Len(ws) /\ all[v] = ws[v - 1] /\ v - 1 < w - 1
      BY <1>3, <1>5, <2>3
    <3> QED BY <1>1, <2>1, <3>1
  <2> QED BY <2>2, <2>3
<1>6. ASSUME NEW c \in k..n
      PROVE  line[c] # Blank <=> \E w \in 1..Len(all) : c \in all[w].from..all[w].to
  <2>1. 1 \in 1..Len(all)
    BY <1>2, <1>3
  <2>2. CASE c <= r.to
    <3>1. c \in all[1].from..all[1].to
      BY <1>0, <1>2, <2>2
    <3>2. line[c] # Blank
      BY <1>0, <2>2
    <3> QED BY <2>1, <3>1, <3>2
  <2>3. CASE c > r.to
    <3>1. c \in (r.to + 1)..n
      BY <1>0, <2>3
    <3>2. ASSUME NEW w \in 1..Len(ws), c \in ws[w].from..ws[w].to
          PROVE  \E x \in 1..Len(all) : c \in all[x].from..all[x].to
      <4>1. w + 1 \in 1..Len(all) /\ all[w + 1] = ws[w]
        BY <1>2, <1>3
      <4> QED BY <3>2, <4>1
    <3>3. ASSUME NEW x \in 1..Len(all), c \in all[x].from..all[x].to
          PROVE  \E w \in 1..Len(ws) : c \in ws[w].from..ws[w].to
      <4>1. x # 1
        BY <1>0, <1>2, <2>3, <3>3
      <4> QED BY <1>3, <3>3, <4>1
    <3> QED BY <1>1, <3>1, <3>2, <3>3
  <2> QED BY <1>0, <2>2, <2>3
<1> QED BY <1>2, <1>4, <1>5, <1>6 DEF WordsFrom, all, n

LEMMA BlankSkipped ==
    ASSUME NEW C, NEW line \in Seq(C), NEW k \in 1..Len(line), NEW ws, line[k] = Blank,
           WordsFrom(line, k + 1, ws)
    PROVE  WordsFrom(line, k, ws)
<1>1. /\ ws \in Seq(WordRecords)
      /\ \A w \in 1..Len(ws) :
          /\ ws[w].from \in (k + 1)..Len(line) /\ ws[w].to \in ws[w].from..Len(line)
          /\ WordSound(line, ws[w])
      /\ \A v, w \in 1..Len(ws) : v < w => ws[v].to < ws[w].from
      /\ \A c \in (k + 1)..Len(line) :
          line[c] # Blank <=> \E w \in 1..Len(ws) : c \in ws[w].from..ws[w].to
  BY DEF WordsFrom
<1>2. \A w \in 1..Len(ws) : ws[w].from \in k..Len(line) /\ k \notin ws[w].from..ws[w].to
  BY <1>1
<1>3. \A c \in k..Len(line) : c = k \/ c \in (k + 1)..Len(line)
  OBVIOUS
<1> QED BY <1>1, <1>2, <1>3 DEF WordsFrom

\* split_in_words(line) from its first character on.
LEMMA LineIsSplit ==
    ASSUME NEW C, NEW line \in Seq(C)
    PROVE  WordsFrom(line, 1, split_in_words(line))
<1> DEFINE n == Len(line)
           from == CHOOSE f : SplitsFrom(f, line, n)
           T == {d \in 0..n : WordsFrom(line, n + 1 - d, from[n + 1 - d])}
<1>0. n \in Nat
  OBVIOUS
<1>1. SplitsFrom(from, line, n)
  BY SplitsFromExists
<1>2. split_in_words(line) = from[1]
  <2>1. Len(line) + 1 - Len(line) = 1
    BY <1>0
  <2> QED BY <2>1 DEF split_in_words, SplitsFrom
<1> HIDE DEF from, n
<1>3. ASSUME NEW k \in 1..(n + 1)
      PROVE  from[k] = IF k > n THEN <<>>
                       ELSE IF line[k] = Blank THEN from[k + 1]
                       ELSE IF line[k] \in Operators \cup {"&"}
                       THEN <<[from |-> k, to |-> k, op |-> line[k]]>> \o from[k + 1]
                       ELSE <<[from |-> k, to |-> WordEnd(line, k), op |-> "word"]>>
                               \o from[WordEnd(line, k) + 1]
  <2> DEFINE rest(j) ==
               IF j > n THEN <<>>
               ELSE IF line[j] = Blank THEN from[j + 1]
               ELSE IF line[j] \in Operators \cup {"&"}
               THEN <<[from |-> j, to |-> j, op |-> line[j]]>> \o from[j + 1]
               ELSE <<[from |-> j, to |-> WordEnd(line, j), op |-> "word"]>>
                       \o from[WordEnd(line, j) + 1]
  <2>1. Len(line) + 1 - n = 1
    BY <1>0 DEF n
  <2>2. from = [j \in (Len(line) + 1 - n)..(n + 1) |-> rest(j)]
    BY <1>1 DEF SplitsFrom, n
  <2>3. from = [j \in 1..(n + 1) |-> rest(j)]
    <3> HIDE DEF rest
    <3> QED BY <2>1, <2>2
  <2>4. from[k] = rest(k)
    <3> HIDE DEF rest
    <3> QED BY <2>3
  <2> QED BY <2>4
<1>4. WordsFrom(line, n + 1, from[n + 1])
  <2>1. from[n + 1] = <<>>
    <3>1. n + 1 \in 1..(n + 1) /\ n + 1 > n
      BY <1>0
    <3> DEFINE last == n + 1
    <3>2. last \in 1..(n + 1) /\ last > n
      BY <3>1
    <3> HIDE DEF last
    <3>3. from[last] = <<>>
      BY <1>3, <3>2
    <3> QED BY <3>3 DEF last
  <2>2. <<>> \in Seq(WordRecords) /\ Len(<<>>) = 0
    OBVIOUS
  <2> QED BY <1>0, <2>1, <2>2 DEF WordsFrom, n
<1>5. ASSUME NEW k \in 1..n, \A j \in (k + 1)..(n + 1) : WordsFrom(line, j, from[j])
      PROVE  WordsFrom(line, k, from[k])
  <2>0. k \in 1..(n + 1) /\ ~ (k > n) /\ k + 1 \in (k + 1)..(n + 1) /\ k \in 1..Len(line)
    BY <1>0 DEF n
  <2>1. WordsFrom(line, k + 1, from[k + 1])
    BY <1>5, <2>0
  <2>2. CASE line[k] = Blank
    <3>1. from[k] = from[k + 1]
      BY <1>3, <2>0, <2>2
    <3> QED BY <2>0, <2>1, <2>2, <3>1, BlankSkipped
  <2>3. CASE line[k] # Blank /\ line[k] \in Operators \cup {"&"}
    <3> DEFINE r == [from |-> k, to |-> k, op |-> line[k]]
    <3>1. from[k] = <<r>> \o from[k + 1]
      BY <1>3, <2>0, <2>3
    <3>2. r \in WordRecords /\ r.from = k /\ r.to = k
      BY <2>0, <2>3 DEF WordRecords
    <3>3. WordSound(line, r) /\ \A c \in r.from..r.to : line[c] # Blank
      BY <2>0, <2>3 DEF WordSound, Literal, Operators
    <3>4. k \in k..Len(line)
      BY <2>0
    <3> HIDE DEF r
    <3> QED BY <2>0, <2>1, <3>1, <3>2, <3>3, <3>4, WordPut
  <2>4. CASE line[k] # Blank /\ line[k] \notin Operators \cup {"&"}
    <3> DEFINE e == WordEnd(line, k)
               r == [from |-> k, to |-> e, op |-> "word"]
    <3>1. from[k] = <<r>> \o from[e + 1]
      BY <1>3, <2>0, <2>4
    <3>2. /\ e \in k..n
          /\ e = n \/ line[e + 1] \in Stops
          /\ \A j \in k..(e - 1) : line[j + 1] \notin Stops
      BY <2>0, WordEnds DEF n
    <3> HIDE DEF e
    <3>3. r \in WordRecords /\ r.from = k /\ r.to = e
      BY <1>0, <2>0, <3>2 DEF WordRecords
    <3>4. \A c \in k..e : line[c] \notin Operators /\ line[c] # Blank
      <4> SUFFICES ASSUME NEW c \in k..e, c # k
                   PROVE  line[c] \notin Operators /\ line[c] # Blank
        BY <2>4
      <4>1. c - 1 \in k..(e - 1) /\ (c - 1) + 1 = c
        BY <1>0, <3>2
      <4> QED BY <3>2, <4>1 DEF Stops
    <3>5. WordSound(line, r)
      BY <1>0, <2>4, <3>2, <3>4 DEF WordSound, Literal, Stops, n
    <3>6. WordsFrom(line, e + 1, from[e + 1])
      <4>1. e + 1 \in (k + 1)..(n + 1)
        BY <1>0, <3>2
      <4> QED BY <1>5, <4>1
    <3>7. e \in k..Len(line)
      BY <3>2 DEF n
    <3>8. \A c \in r.from..r.to : line[c] # Blank
      BY <3>4
    <3> HIDE DEF r
    <3> QED BY <2>0, <3>1, <3>3, <3>5, <3>6, <3>7, <3>8, WordPut
  <2> QED BY <2>2, <2>3, <2>4
<1> DEFINE U == {d \in 0..n : \A j \in (n + 1 - d)..(n + 1) : WordsFrom(line, j, from[j])}
<1>6. 0 \in U
  BY <1>0, <1>4
<1>7. ASSUME NEW d \in 0..(n - 1), d \in U PROVE d + 1 \in U
  <2>1. n - d \in 1..n /\ d + 1 \in 0..n
    BY <1>0
  <2>2. \A j \in (n - d + 1)..(n + 1) : WordsFrom(line, j, from[j])
    <3>1. n + 1 - d = n - d + 1
      BY <1>0
    <3> QED BY <1>7, <3>1
  <2>3. WordsFrom(line, n - d, from[n - d])
    BY <1>5, <2>1, <2>2
  <2>4. \A j \in (n + 1 - (d + 1))..(n + 1) : j = n - d \/ j \in (n - d + 1)..(n + 1)
    BY <1>0
  <2> QED BY <2>1, <2>2, <2>3, <2>4
<1>8. n \in U
  <2> HIDE DEF U
  <2>1. 0..n \subseteq U
    BY <1>0, <1>6, <1>7, Induction
  <2> QED BY <1>0, <2>1
<1>9. 1 \in (n + 1 - n)..(n + 1)
  BY <1>0
<1> QED BY <1>2, <1>8, <1>9

\* The words are the characters that are not blanks, in order, each once.
LEMMA LineSplitsInWords ==
    ASSUME NEW C, NEW line \in Seq(C)
    PROVE  SplitsInWords(line)
<1> DEFINE n == Len(line)
           words == split_in_words(line)
           holding(k) == {w \in DOMAIN words : k \in words[w].from..words[w].to}
<1>0. n \in Nat
  OBVIOUS
<1>1. /\ words \in Seq(WordRecords)
      /\ \A w \in 1..Len(words) :
          /\ words[w].from \in 1..n /\ words[w].to \in words[w].from..n
          /\ WordSound(line, words[w])
      /\ \A v, w \in 1..Len(words) : v < w => words[v].to < words[w].from
      /\ \A c \in 1..n :
          line[c] # Blank <=> \E w \in 1..Len(words) : c \in words[w].from..words[w].to
  BY LineIsSplit DEF WordsFrom
<1> HIDE DEF words, n
<1>2. DOMAIN words = 1..Len(words) /\ Len(words) \in Nat
  BY <1>1
<1>3. ASSUME NEW k \in 1..n
      PROVE  Cardinality(holding(k)) = IF line[k] = Blank THEN 0 ELSE 1
  <2>1. CASE line[k] = Blank
    <3>1. holding(k) = {}
      BY <1>1, <1>2, <2>1
    <3> QED BY <2>1, <3>1, FS_EmptySet
  <2>2. CASE line[k] # Blank
    <3>1. PICK w \in 1..Len(words) : k \in words[w].from..words[w].to
      BY <1>1, <2>2
    <3>2. ASSUME NEW v \in 1..Len(words), k \in words[v].from..words[v].to
          PROVE  v = w
      <4>1. CASE v < w
        <5>1. words[v].to < words[w].from
          BY <1>1, <4>1
        <5> QED BY <1>0, <1>1, <3>1, <3>2, <5>1
      <4>2. CASE w < v
        <5>1. words[w].to < words[v].from
          BY <1>1, <4>2
        <5> QED BY <1>0, <1>1, <3>1, <3>2, <5>1
      <4> QED BY <1>2, <4>1, <4>2
    <3>3. holding(k) = {w}
      BY <1>2, <3>1, <3>2
    <3> QED BY <2>2, <3>3, FS_Singleton
  <2> QED BY <2>1, <2>2
<1>4. ASSUME NEW w \in DOMAIN words
      PROVE  /\ w > 1 => words[w - 1].to < words[w].from
             /\ WordSound(line, words[w])
  <2>1. w \in 1..Len(words) /\ (w > 1 => w - 1 \in 1..Len(words) /\ w - 1 < w)
    BY <1>2
  <2> QED BY <1>1, <2>1
<1> QED BY <1>3, <1>4 DEF SplitsInWords, WordSound, words, n

-----------------------------------------------------------------------------
(* Concatenations: which elements they have, each once.                    *)

Joined(s, t) == s \o t
Flattens(f, ss, d) ==
    f = [k \in 1..d |-> IF k = 1 THEN ss[k] ELSE Joined(f[k - 1], ss[k])]

LEMMA FlattensAt ==
    ASSUME NEW f, NEW ss, NEW n \in Nat, Flattens(f, ss, n), NEW k \in 1..n
    PROVE  /\ k = 1 => f[k] = ss[k]
           /\ k # 1 => f[k] = Joined(f[k - 1], ss[k])
<1> DEFINE rest(j) == IF j = 1 THEN ss[j] ELSE Joined(f[j - 1], ss[j])
<1>1. f = [j \in 1..n |-> rest(j)]
  BY DEF Flattens
<1>2. f[k] = rest(k)
  <2> HIDE DEF rest
  <2> QED BY <1>1
<1> QED BY <1>2

LEMMA FlattensExists ==
    ASSUME NEW ss, NEW n \in Nat
    PROVE  \E f : Flattens(f, ss, n)
<1> DEFINE T == {d \in 0..n : \E f : Flattens(f, ss, d)}
<1>1. 0 \in T
  <2>1. Flattens([k \in 1..0 |-> 0], ss, 0)
    BY DEF Flattens
  <2> QED BY <2>1
<1>2. ASSUME NEW d \in 0..(n - 1), d \in T PROVE d + 1 \in T
  <2>1. PICK f : Flattens(f, ss, d)
    BY <1>2
  <2> DEFINE rest(h, k) == IF k = 1 THEN ss[k] ELSE Joined(h[k - 1], ss[k])
             g == [k \in 1..(d + 1) |-> IF k = d + 1 THEN rest(f, k) ELSE f[k]]
  <2>2. f = [k \in 1..d |-> rest(f, k)]
    BY <2>1 DEF Flattens
  <2>3. ASSUME NEW k \in 1..(d + 1) PROVE g[k] = rest(g, k)
    <3>1. k # 1 => k - 1 \in 1..(d + 1) /\ k - 1 # d + 1
      OBVIOUS
    <3>2. k # 1 => g[k - 1] = f[k - 1]
      BY <3>1
    <3>3. k # d + 1 => k \in 1..d
      OBVIOUS
    <3>4. rest(f, k) = rest(g, k)
      <4> HIDE DEF g
      <4> QED BY <3>2
    <3>5. k # d + 1 => f[k] = rest(f, k)
      <4> HIDE DEF rest
      <4> QED BY <2>2, <3>3
    <3> HIDE DEF rest
    <3> QED BY <3>4, <3>5
  <2>4. Flattens(g, ss, d + 1)
    <3>1. g = [k \in 1..(d + 1) |-> g[k]]
      OBVIOUS
    <3> HIDE DEF g
    <3>2. g = [k \in 1..(d + 1) |-> rest(g, k)]
      <4> HIDE DEF rest
      <4> QED BY <2>3, <3>1
    <3> QED BY <3>2 DEF Flattens
  <2> HIDE DEF g
  <2> QED BY <2>4
<1>3. n \in T
  <2> HIDE DEF T
  <2>1. 0..n \subseteq T
    BY <1>1, <1>2, Induction
  <2> QED BY <2>1
<1> QED BY <1>3

LEMMA FlattenUnfold ==
    ASSUME NEW S, NEW ss \in Seq(Seq(S))
    PROVE  /\ ss = <<>> => FlattenSeq(ss) = <<>>
           /\ ss # <<>> => \E f : Flattens(f, ss, Len(ss)) /\ FlattenSeq(ss) = f[Len(ss)]
<1> DEFINE f == CHOOSE g : Flattens(g, ss, Len(ss))
<1>0. Len(ss) \in Nat
  OBVIOUS
<1>1. Flattens(f, ss, Len(ss))
  BY <1>0, FlattensExists
<1>2. FlattenSeq(ss) = IF Len(ss) = 0 THEN ss ELSE f[Len(ss)]
  BY DEF FlattenSeq, Flattens, Joined
<1> HIDE DEF f
<1> QED BY <1>1, <1>2

\* FlattenSeq, one sequence at a time.
LEMMA FlattenAppend ==
    ASSUME NEW S, NEW ss \in Seq(Seq(S)), NEW s \in Seq(S)
    PROVE  FlattenSeq(Append(ss, s)) = FlattenSeq(ss) \o s
<1> DEFINE n == Len(ss)
           tt == Append(ss, s)
<1>1. /\ tt \in Seq(Seq(S)) /\ tt # <<>> /\ Len(tt) = n + 1 /\ n \in Nat
      /\ \A k \in 1..n : tt[k] = ss[k]
      /\ tt[n + 1] = s
  BY AppendProperties
<1> HIDE DEF n, tt
<1>2. PICK g : Flattens(g, tt, n + 1) /\ FlattenSeq(tt) = g[n + 1]
  BY <1>1, FlattenUnfold
<1>3. n + 1 \in 1..(n + 1) /\ n + 1 - 1 = n /\ (n # 0 => n + 1 # 1)
  BY <1>1
<1>4. CASE n = 0
  <2>1. ss = <<>>
    BY <1>4 DEF n
  <2>2. FlattenSeq(ss) = <<>>
    BY <2>1, FlattenUnfold
  <2>3. g[1] = tt[1]
    BY <1>2, <1>4 DEF Flattens
  <2> QED BY <1>1, <1>2, <1>4, <2>2, <2>3, ConcatEmptySeq DEF tt
<1>5. CASE n # 0
  <2>1. ss # <<>>
    BY <1>5 DEF n
  <2>2. PICK f : Flattens(f, ss, n) /\ FlattenSeq(ss) = f[n]
    BY <2>1, FlattenUnfold DEF n
  <2> DEFINE T == {d \in 0..n : d # 0 => g[d] = f[d]}
  <2>3. 0 \in T
    BY <1>1
  <2>4. ASSUME NEW d \in 0..(n - 1), d \in T PROVE d + 1 \in T
    <3>1. d + 1 \in 1..n /\ d + 1 \in 1..(n + 1) /\ d + 1 - 1 = d /\ (d + 1 = 1 <=> d = 0)
      BY <1>1
    <3>2. /\ d + 1 = 1 => g[d + 1] = tt[d + 1]
          /\ d + 1 # 1 => g[d + 1] = Joined(g[(d + 1) - 1], tt[d + 1])
      <4> DEFINE m == n + 1
                 e == d + 1
      <4>1. m \in Nat /\ Flattens(g, tt, m) /\ e \in 1..m
        BY <1>1, <1>2, <3>1
      <4> HIDE DEF m, e
      <4>2. /\ e = 1 => g[e] = tt[e]
            /\ e # 1 => g[e] = Joined(g[e - 1], tt[e])
        BY <4>1, FlattensAt
      <4> QED BY <4>2 DEF e
    <3>3. /\ d + 1 = 1 => f[d + 1] = ss[d + 1]
          /\ d + 1 # 1 => f[d + 1] = Joined(f[(d + 1) - 1], ss[d + 1])
      BY <1>1, <2>2, <3>1, FlattensAt
    <3>4. tt[d + 1] = ss[d + 1] /\ (d # 0 => g[d] = f[d])
      BY <1>1, <2>4, <3>1
    <3>5. g[d + 1] = f[d + 1]
      BY <3>1, <3>2, <3>3, <3>4
    <3> QED BY <1>1, <3>1, <3>5
  <2>5. g[n] = f[n]
    <3> HIDE DEF T
    <3>1. 0..n \subseteq T
      BY <1>1, <2>3, <2>4, Induction
    <3>2. n \in T
      BY <1>1, <3>1
    <3> QED BY <1>5, <3>2 DEF T
  <2>6. n + 1 # 1 => g[n + 1] = Joined(g[(n + 1) - 1], tt[n + 1])
    BY <1>2, <1>3, FlattensAt
  <2>7. g[n + 1] = Joined(g[n], s)
    BY <1>1, <1>3, <1>5, <2>6
  <2>8. FlattenSeq(tt) = Joined(FlattenSeq(ss), s)
    BY <1>2, <2>2, <2>5, <2>7
  <2> QED BY <2>8 DEF tt, Joined
<1> QED BY <1>4, <1>5

LEMMA FlattenIsSeq ==
    ASSUME NEW S, NEW ss \in Seq(Seq(S))
    PROVE  FlattenSeq(ss) \in Seq(S)
<1>1. CASE ss = <<>>
  <2>1. FlattenSeq(ss) = <<>>
    BY <1>1, FlattenUnfold
  <2> QED BY <2>1
<1>2. CASE ss # <<>>
  <2>1. PICK f : Flattens(f, ss, Len(ss)) /\ FlattenSeq(ss) = f[Len(ss)]
    BY <1>2, FlattenUnfold
  <2> DEFINE n == Len(ss)
             T == {d \in 0..n : d # 0 => f[d] \in Seq(S)}
  <2>2. n \in Nat /\ n # 0
    BY <1>2
  <2> HIDE DEF n
  <2>3. 0 \in T
    BY <2>2
  <2>4. ASSUME NEW d \in 0..(n - 1), d \in T PROVE d + 1 \in T
    <3>1. d + 1 \in 1..n /\ d + 1 - 1 = d /\ (d + 1 = 1 <=> d = 0)
      BY <2>2
    <3>2. /\ d + 1 = 1 => f[d + 1] = ss[d + 1]
          /\ d + 1 # 1 => f[d + 1] = Joined(f[(d + 1) - 1], ss[d + 1])
      BY <2>1, <3>1, FlattensAt DEF n
    <3>3. ss[d + 1] \in Seq(S)
      BY <3>1 DEF n
    <3>4. d # 0 => Joined(f[d], ss[d + 1]) \in Seq(S)
      BY <2>4, <3>3, ConcatProperties DEF Joined
    <3>5. f[d + 1] \in Seq(S)
      BY <3>1, <3>2, <3>3, <3>4
    <3> QED BY <2>2, <3>1, <3>5
  <2>5. n \in T
    <3> HIDE DEF T
    <3>1. 0..n \subseteq T
      BY <2>2, <2>3, <2>4, Induction
    <3> QED BY <2>2, <3>1
  <2> QED BY <2>1, <2>2, <2>5 DEF n
<1> QED BY <1>1, <1>2

LEMMA InjectiveAppend ==
    ASSUME NEW S, NEW s \in Seq(S), NEW e \in S, IsInjective(s), e \notin Range(s)
    PROVE  IsInjective(Append(s, e)) /\ Range(Append(s, e)) = Range(s) \cup {e}
<1> DEFINE t == Append(s, e)
<1>1. /\ t \in Seq(S) /\ Len(t) = Len(s) + 1 /\ Len(s) \in Nat
      /\ \A k \in 1..Len(s) : t[k] = s[k]
      /\ t[Len(s) + 1] = e
  BY AppendProperties
<1> HIDE DEF t
<1>2. DOMAIN t = 1..(Len(s) + 1) /\ DOMAIN s = 1..Len(s)
  BY <1>1
<1>3. \A k \in DOMAIN t : k \in DOMAIN s \/ k = Len(s) + 1
  BY <1>1, <1>2
<1>4. \A k \in DOMAIN s : s[k] # e
  BY DEF Range
<1>5. ASSUME NEW j \in DOMAIN t, NEW k \in DOMAIN t, t[j] = t[k] PROVE j = k
  <2>1. CASE j \in DOMAIN s /\ k \in DOMAIN s
    BY <1>1, <1>2, <1>5, <2>1 DEF IsInjective
  <2>2. CASE j \in DOMAIN s /\ k = Len(s) + 1
    BY <1>1, <1>2, <1>4, <1>5, <2>2
  <2>3. CASE j = Len(s) + 1 /\ k \in DOMAIN s
    BY <1>1, <1>2, <1>4, <1>5, <2>3
  <2> QED BY <1>3, <2>1, <2>2, <2>3
<1>6. IsInjective(t)
  BY <1>5 DEF IsInjective
<1>7. Range(t) = Range(s) \cup {e}
  <2>1. Range(t) = {t[k] : k \in DOMAIN t} /\ Range(s) = {s[k] : k \in DOMAIN s}
    BY DEF Range
  <2>2. ASSUME NEW k \in DOMAIN t PROVE t[k] \in Range(s) \cup {e}
    BY <1>1, <1>2, <1>3, <2>1
  <2>3. ASSUME NEW k \in DOMAIN s PROVE k \in DOMAIN t /\ t[k] = s[k]
    BY <1>1, <1>2
  <2>4. Len(s) + 1 \in DOMAIN t
    BY <1>1, <1>2
  <2> QED BY <1>1, <2>1, <2>2, <2>3, <2>4
<1> QED BY <1>6, <1>7 DEF t

LEMMA InjectiveConcat ==
    ASSUME NEW S, NEW s \in Seq(S), NEW t \in Seq(S), IsInjective(s), IsInjective(t),
           Range(s) \cap Range(t) = {}
    PROVE  /\ IsInjective(s \o t)
           /\ Range(s \o t) = Range(s) \cup Range(t)
<1> DEFINE u == s \o t
<1>1. /\ u \in Seq(S) /\ Len(u) = Len(s) + Len(t)
      /\ \A k \in 1..(Len(s) + Len(t)) : u[k] = IF k <= Len(s) THEN s[k] ELSE t[k - Len(s)]
  BY ConcatProperties
<1>2. Range(u) = Range(s) \cup Range(t)
  BY RangeConcatenation
<1> HIDE DEF u
<1>3. /\ DOMAIN u = 1..(Len(s) + Len(t)) /\ DOMAIN s = 1..Len(s) /\ DOMAIN t = 1..Len(t)
      /\ Len(s) \in Nat /\ Len(t) \in Nat
  BY <1>1
<1>4. ASSUME NEW k \in DOMAIN u
      PROVE  \/ k \in DOMAIN s /\ u[k] = s[k]
             \/ k - Len(s) \in DOMAIN t /\ u[k] = t[k - Len(s)]
  BY <1>1, <1>3
<1>5. \A j \in DOMAIN s, k \in DOMAIN t : s[j] # t[k]
  BY DEF Range
<1>6. ASSUME NEW j \in DOMAIN u, NEW k \in DOMAIN u, u[j] = u[k] PROVE j = k
  <2>1. CASE j \in DOMAIN s /\ u[j] = s[j] /\ k \in DOMAIN s /\ u[k] = s[k]
    BY <1>6, <2>1 DEF IsInjective
  <2>2. CASE /\ j - Len(s) \in DOMAIN t /\ u[j] = t[j - Len(s)]
             /\ k - Len(s) \in DOMAIN t /\ u[k] = t[k - Len(s)]
    <3>1. j - Len(s) = k - Len(s)
      BY <1>6, <2>2 DEF IsInjective
    <3> QED BY <1>3, <3>1
  <2> QED BY <1>4, <1>5, <1>6, <2>1, <2>2
<1> QED BY <1>2, <1>6 DEF IsInjective, u

-----------------------------------------------------------------------------
(* readcmd: the words of the structure under construction, Owned, hold each*)
(* allocated word the loop has passed, once.                               *)

\* The words that follow the error, operators left out.
Frees(f, s, words, m) ==
    f = [k \in 0..m |->
            IF k = 0 THEN <<>>
            ELSE IF words[s.at + k].op \in Operators THEN f[k - 1]
            ELSE Append(f[k - 1], s.at + k)]

LEMMA FreesExists ==
    ASSUME NEW s, NEW words, NEW n \in Nat
    PROVE  \E f : Frees(f, s, words, n)
<1> DEFINE T == {d \in 0..n : \E f : Frees(f, s, words, d)}
           rest(h, k) == IF k = 0 THEN <<>>
                         ELSE IF words[s.at + k].op \in Operators THEN h[k - 1]
                         ELSE Append(h[k - 1], s.at + k)
<1>1. 0 \in T
  <2>1. Frees([k \in 0..0 |-> <<>>], s, words, 0)
    BY DEF Frees
  <2> QED BY <2>1
<1>2. ASSUME NEW d \in 0..(n - 1), d \in T PROVE d + 1 \in T
  <2>1. PICK f : Frees(f, s, words, d)
    BY <1>2
  <2> DEFINE g == [k \in 0..(d + 1) |-> IF k = d + 1 THEN rest(f, k) ELSE f[k]]
  <2>2. f = [k \in 0..d |-> rest(f, k)]
    BY <2>1 DEF Frees
  <2>3. ASSUME NEW k \in 0..(d + 1) PROVE g[k] = rest(g, k)
    <3>1. k # 0 => k - 1 \in 0..(d + 1) /\ k - 1 # d + 1
      OBVIOUS
    <3>2. k # 0 => g[k - 1] = f[k - 1]
      BY <3>1
    <3>3. k # d + 1 => k \in 0..d
      OBVIOUS
    <3>4. rest(f, k) = rest(g, k)
      <4> HIDE DEF g
      <4> QED BY <3>2
    <3>5. k # d + 1 => f[k] = rest(f, k)
      <4> HIDE DEF rest
      <4> QED BY <2>2, <3>3
    <3> HIDE DEF rest
    <3> QED BY <3>4, <3>5
  <2>4. Frees(g, s, words, d + 1)
    <3>1. g = [k \in 0..(d + 1) |-> g[k]]
      OBVIOUS
    <3> HIDE DEF g
    <3>2. g = [k \in 0..(d + 1) |-> rest(g, k)]
      <4> HIDE DEF rest
      <4> QED BY <2>3, <3>1
    <3> QED BY <3>2 DEF Frees
  <2> HIDE DEF g
  <2> QED BY <2>4
<1>3. n \in T
  <2> HIDE DEF T
  <2>1. 0..n \subseteq T
    BY <1>1, <1>2, Induction
  <2> QED BY <2>1
<1> QED BY <1>3

LEMMA FreeRestIs ==
    ASSUME NEW s, NEW words \in Seq(WordRecords), s.at \in 0..Len(words)
    PROVE  /\ FreeRest(s, words) \in Seq(Nat)
           /\ IsInjective(FreeRest(s, words))
           /\ Range(FreeRest(s, words)) =
                {j \in (s.at + 1)..Len(words) : words[j].op \notin Operators}
<1> DEFINE n == Len(words)
           left == s.at
           m == n - left
           f == CHOOSE g : Frees(g, s, words, m)
           Kept(k) == {j \in (left + 1)..(left + k) : words[j].op \notin Operators}
           Sound(k) == f[k] \in Seq(Nat) /\ IsInjective(f[k]) /\ Range(f[k]) = Kept(k)
           T == {k \in 0..m : Sound(k)}
<1>0. n \in Nat /\ left \in Nat /\ m \in Nat
  OBVIOUS
<1>1. Frees(f, s, words, m)
  BY <1>0, FreesExists
<1>2. FreeRest(s, words) = f[m]
  BY DEF FreeRest, Frees
<1> HIDE DEF f, m, n
<1>3. ASSUME NEW k \in 0..m
      PROVE  f[k] = IF k = 0 THEN <<>>
                    ELSE IF words[left + k].op \in Operators THEN f[k - 1]
                    ELSE Append(f[k - 1], left + k)
  <2> DEFINE rest(j) == IF j = 0 THEN <<>>
                        ELSE IF words[s.at + j].op \in Operators THEN f[j - 1]
                        ELSE Append(f[j - 1], s.at + j)
  <2>1. f = [j \in 0..m |-> rest(j)]
    BY <1>1 DEF Frees
  <2>2. f[k] = rest(k)
    <3> HIDE DEF rest
    <3> QED BY <2>1
  <2> QED BY <2>2
<1> HIDE DEF left
<1>4. 0 \in T
  <2>1. f[0] = <<>>
    <3> DEFINE z == 0
    <3>1. z \in 0..m /\ z = 0
      BY <1>0
    <3> HIDE DEF z
    <3>2. f[z] = <<>>
      BY <1>3, <3>1
    <3> QED BY <3>1, <3>2
  <2>2. Kept(0) = {}
    BY <1>0
  <2>3. /\ <<>> \in Seq(Nat)
        /\ IsInjective(<<>>)
        /\ Range(<<>>) = {}
    BY DEF IsInjective, Range
  <2> HIDE DEF Kept
  <2>4. Sound(0)
    BY <2>1, <2>2, <2>3
  <2> HIDE DEF Sound
  <2> QED BY <1>0, <2>4
<1>5. ASSUME NEW k \in 0..(m - 1), k \in T PROVE k + 1 \in T
  <2> DEFINE e == left + (k + 1)
  <2>1. /\ k + 1 \in 0..m /\ k + 1 # 0 /\ (k + 1) - 1 = k
        /\ e \in Nat /\ \A j \in (left + 1)..(left + k) : j # e
        /\ (left + 1)..e = ((left + 1)..(left + k)) \cup {e}
    BY <1>0
  <2>2. f[k + 1] = IF words[e].op \in Operators THEN f[k] ELSE Append(f[k], e)
    <3> DEFINE l == k + 1
    <3>1. l \in 0..m /\ l # 0 /\ l - 1 = k /\ left + l = e
      BY <2>1
    <3> HIDE DEF l, e
    <3>2. f[l] = IF words[e].op \in Operators THEN f[k] ELSE Append(f[k], e)
      BY <1>3, <3>1
    <3> QED BY <3>2 DEF l
  <2>3. Kept(k + 1) = IF words[e].op \in Operators THEN Kept(k) ELSE Kept(k) \cup {e}
    <3> HIDE DEF e
    <3>1. Kept(k + 1) = {j \in (left + 1)..e : words[j].op \notin Operators}
      BY DEF e
    <3> QED BY <2>1, <3>1
  <2>4. e \notin Kept(k)
    BY <2>1
  <2>5. Sound(k)
    BY <1>5
  <2> HIDE DEF Kept, e
  <2>6. Sound(k + 1)
    <3>1. CASE words[e].op \in Operators
      BY <2>2, <2>3, <2>5, <3>1
    <3>2. CASE words[e].op \notin Operators
      <4>1. /\ Append(f[k], e) \in Seq(Nat)
            /\ IsInjective(Append(f[k], e))
            /\ Range(Append(f[k], e)) = Range(f[k]) \cup {e}
        BY <2>1, <2>4, <2>5, InjectiveAppend, AppendProperties
      <4> QED BY <2>2, <2>3, <2>5, <3>2, <4>1
    <3> QED BY <3>1, <3>2
  <2> HIDE DEF Sound
  <2> QED BY <2>1, <2>6
<1>6. m \in T
  <2> HIDE DEF T
  <2>1. 0..m \subseteq T
    BY <1>0, <1>4, <1>5, Induction
  <2> QED BY <1>0, <2>1
<1>7. left + m = n
  BY <1>0 DEF m
<1> QED BY <1>2, <1>6, <1>7 DEF left, n

\* The loop of readcmd.
Loops(f, words, m) ==
    f = [k \in 0..m |-> IF k = 0 THEN NewCmdline ELSE ReadWord(f[k - 1], k, words)]

LEMMA LoopsExists ==
    ASSUME NEW words, NEW n \in Nat
    PROVE  \E f : Loops(f, words, n)
<1> DEFINE T == {d \in 0..n : \E f : Loops(f, words, d)}
           rest(h, k) == IF k = 0 THEN NewCmdline ELSE ReadWord(h[k - 1], k, words)
<1>1. 0 \in T
  <2>1. Loops([k \in 0..0 |-> NewCmdline], words, 0)
    BY DEF Loops
  <2> QED BY <2>1
<1>2. ASSUME NEW d \in 0..(n - 1), d \in T PROVE d + 1 \in T
  <2>1. PICK f : Loops(f, words, d)
    BY <1>2
  <2> DEFINE g == [k \in 0..(d + 1) |-> IF k = d + 1 THEN rest(f, k) ELSE f[k]]
  <2>2. f = [k \in 0..d |-> rest(f, k)]
    BY <2>1 DEF Loops
  <2>3. ASSUME NEW k \in 0..(d + 1) PROVE g[k] = rest(g, k)
    <3>1. k # 0 => k - 1 \in 0..(d + 1) /\ k - 1 # d + 1
      OBVIOUS
    <3>2. k # 0 => g[k - 1] = f[k - 1]
      BY <3>1
    <3>3. k # d + 1 => k \in 0..d
      OBVIOUS
    <3>4. rest(f, k) = rest(g, k)
      <4> HIDE DEF g
      <4> QED BY <3>2
    <3>5. k # d + 1 => f[k] = rest(f, k)
      <4> HIDE DEF rest
      <4> QED BY <2>2, <3>3
    <3> HIDE DEF rest
    <3> QED BY <3>4, <3>5
  <2>4. Loops(g, words, d + 1)
    <3>1. g = [k \in 0..(d + 1) |-> g[k]]
      OBVIOUS
    <3> HIDE DEF g
    <3>2. g = [k \in 0..(d + 1) |-> rest(g, k)]
      <4> HIDE DEF rest
      <4> QED BY <2>3, <3>1
    <3> QED BY <3>2 DEF Loops
  <2> HIDE DEF g
  <2> QED BY <2>4
<1>3. n \in T
  <2> HIDE DEF T
  <2>1. 0..n \subseteq T
    BY <1>1, <1>2, Induction
  <2> QED BY <2>1
<1> QED BY <1>3

Cmdlines == [err : BOOLEAN, in : Nat, out : Nat, background : BOOLEAN, cmd : Seq(Nat),
             seq : Seq(Seq(Nat)), take : {"none", "in", "out"}, at : Nat]

\* The words of the commands of s, and all those s has.
LineOf(s) == FlattenSeq(s.seq) \o s.cmd
Held(s) == Range(LineOf(s)) \cup ({s.in, s.out} \ {0})

\* s has each allocated word up to the word m, once.
Holds(s, m, words) ==
    /\ IsInjective(LineOf(s)) /\ Range(LineOf(s)) \subseteq 1..m
    /\ s.in \in 0..m /\ s.in \notin Range(LineOf(s))
    /\ s.out \in 0..m /\ s.out \notin Range(LineOf(s))
    /\ s.in # 0 => s.in # s.out
    /\ \A j \in 1..m : words[j].op = "word" => j \in Held(s)
    /\ NamesItsFiles(words) => \A j \in Held(s) : words[j].op = "word"

\* s after v turns of the loop.
Turned(s, v, words) ==
    /\ s \in Cmdlines
    /\ s.err => s.at \in 0..v /\ Holds(s, s.at, words)
    /\ ~ s.err => Holds(s, v, words)
    /\ s.take # "none" => ~ s.err /\ v \in DOMAIN words /\ words[v].op \in {"<", ">"}
    /\ s.take = "in" => s.in = 0
    /\ s.take = "out" => s.out = 0

LEMMA LineOfIsSeq ==
    ASSUME NEW s \in Cmdlines
    PROVE  LineOf(s) \in Seq(Nat)
<1>1. s.seq \in Seq(Seq(Nat)) /\ s.cmd \in Seq(Nat)
  BY DEF Cmdlines
<1> QED BY <1>1, FlattenIsSeq, ConcatProperties DEF LineOf

\* A word that is no name and is not kept.
LEMMA HoldsMore ==
    ASSUME NEW words, NEW s, NEW t, NEW m \in Nat, Holds(s, m, words),
           LineOf(t) = LineOf(s), t.in = s.in, t.out = s.out, words[m + 1].op # "word"
    PROVE  Holds(t, m + 1, words)
<1>1. \A j \in 1..(m + 1) : j = m + 1 \/ j \in 1..m
  OBVIOUS
<1>2. Held(t) = Held(s)
  BY DEF Held
<1>3. \A j \in 1..m : j \in 1..(m + 1)
  OBVIOUS
<1>4. \A j \in 0..m : j \in 0..(m + 1)
  OBVIOUS
<1> QED BY <1>1, <1>2, <1>3, <1>4 DEF Holds

\* The name of a file.
LEMMA HoldsFile ==
    ASSUME NEW words, NEW s, NEW t, NEW m \in Nat, Holds(s, m, words),
           LineOf(t) = LineOf(s),
           \/ s.in = 0 /\ t.in = m + 1 /\ t.out = s.out
           \/ s.out = 0 /\ t.out = m + 1 /\ t.in = s.in,
           NamesItsFiles(words) => words[m + 1].op = "word"
    PROVE  Holds(t, m + 1, words)
<1>1. \A j \in 1..(m + 1) : j = m + 1 \/ j \in 1..m
  OBVIOUS
<1>2. /\ \A j \in 1..m : j \in 1..(m + 1) /\ j # m + 1
      /\ \A j \in 0..m : j \in 0..(m + 1) /\ j # m + 1
      /\ m + 1 # 0 /\ m + 1 \in 0..(m + 1)
  OBVIOUS
<1>3. Held(t) = Held(s) \cup {m + 1}
  BY <1>2 DEF Held
<1>4. m + 1 \notin Range(LineOf(s))
  BY <1>2 DEF Holds
<1>5. /\ t.in \in 0..(m + 1) /\ t.in \notin Range(LineOf(t))
      /\ t.out \in 0..(m + 1) /\ t.out \notin Range(LineOf(t))
      /\ t.in # 0 => t.in # t.out
  BY <1>2, <1>4 DEF Holds
<1>6. \A j \in 1..(m + 1) : words[j].op = "word" => j \in Held(t)
  BY <1>1, <1>3 DEF Holds
<1>7. NamesItsFiles(words) => \A j \in Held(t) : words[j].op = "word"
  BY <1>3 DEF Holds
<1>8. IsInjective(LineOf(t)) /\ Range(LineOf(t)) \subseteq 1..(m + 1)
  BY <1>2 DEF Holds
<1> QED BY <1>5, <1>6, <1>7, <1>8 DEF Holds

\* A word of a command.
LEMMA HoldsWord ==
    ASSUME NEW words, NEW s \in Cmdlines, NEW t, NEW m \in Nat, Holds(s, m, words),
           LineOf(t) = Append(LineOf(s), m + 1), t.in = s.in, t.out = s.out,
           words[m + 1].op = "word"
    PROVE  Holds(t, m + 1, words)
<1>1. \A j \in 1..(m + 1) : j = m + 1 \/ j \in 1..m
  OBVIOUS
<1>2. /\ \A j \in 1..m : j \in 1..(m + 1) /\ j # m + 1
      /\ \A j \in 0..m : j \in 0..(m + 1) /\ j # m + 1
      /\ m + 1 # 0 /\ m + 1 \in 1..(m + 1) /\ m + 1 \in Nat
  OBVIOUS
<1>3. m + 1 \notin Range(LineOf(s)) /\ IsInjective(LineOf(s))
  BY <1>2 DEF Holds
<1>4. IsInjective(LineOf(t)) /\ Range(LineOf(t)) = Range(LineOf(s)) \cup {m + 1}
  <2>1. LineOf(s) \in Seq(Nat)
    BY LineOfIsSeq
  <2> QED BY <1>2, <1>3, <2>1, InjectiveAppend
<1>5. Held(t) = Held(s) \cup {m + 1}
  BY <1>4 DEF Held
<1>6. /\ t.in \in 0..(m + 1) /\ t.in \notin Range(LineOf(t))
      /\ t.out \in 0..(m + 1) /\ t.out \notin Range(LineOf(t))
      /\ t.in # 0 => t.in # t.out
  BY <1>2, <1>4 DEF Holds
<1>7. \A j \in 1..(m + 1) : words[j].op = "word" => j \in Held(t)
  BY <1>1, <1>5 DEF Holds
<1>8. NamesItsFiles(words) => \A j \in Held(t) : words[j].op = "word"
  BY <1>5 DEF Holds
<1>9. Range(LineOf(t)) \subseteq 1..(m + 1)
  BY <1>2, <1>4 DEF Holds
<1> QED BY <1>4, <1>6, <1>7, <1>8, <1>9 DEF Holds

\* The last command of the pipe so far moves into seq.
LEMMA CommandMoves ==
    ASSUME NEW s \in Cmdlines, NEW t, t.seq = Append(s.seq, s.cmd), t.cmd = <<>>
    PROVE  LineOf(t) = LineOf(s)
<1>1. s.seq \in Seq(Seq(Nat)) /\ s.cmd \in Seq(Nat)
  BY DEF Cmdlines
<1>2. LineOf(t) = LineOf(s) \o <<>>
  BY <1>1, FlattenAppend DEF LineOf
<1> QED BY <1>2, LineOfIsSeq, ConcatEmptySeq

LEMMA AppendInside ==
    ASSUME NEW S, NEW s \in Seq(S), NEW t \in Seq(S), NEW e \in S
    PROVE  s \o Append(t, e) = Append(s \o t, e)
<1>1. <<e>> \in Seq(S) /\ s \o t \in Seq(S)
  BY ConcatProperties
<1>2. Append(t, e) = t \o <<e>>
  BY <1>1, AppendIsConcat
<1>3. Append(s \o t, e) = (s \o t) \o <<e>>
  BY <1>1, AppendIsConcat
<1> QED BY <1>1, <1>2, <1>3, ConcatAssociative

LEMMA ErrorTurns ==
    ASSUME NEW words \in Seq(WordRecords), NEW v \in 1..Len(words), NEW s,
           Turned(s, v - 1, words), ~ s.err, s.take = "none", words[v].op # "word"
    PROVE  Turned(Error(s, v), v, words)
<1> DEFINE t == Error(s, v)
           m == v - 1
<1>0. m \in Nat /\ m + 1 = v /\ v \in 0..v /\ v \in Nat
  OBVIOUS
<1>1. s \in Cmdlines /\ Holds(s, m, words)
  BY DEF Turned
<1>2. /\ t.seq = s.seq /\ t.cmd = s.cmd /\ t.in = s.in /\ t.out = s.out
      /\ t.err = TRUE /\ t.at = v /\ t.take = "none"
  BY <1>1 DEF Error, Cmdlines
<1>3. t \in Cmdlines
  BY <1>0, <1>1 DEF Error, Cmdlines
<1> HIDE DEF t, m
<1>4. LineOf(t) = LineOf(s)
  BY <1>2 DEF LineOf
<1>5. words[m + 1].op # "word"
  BY <1>0
<1>6. Holds(t, m + 1, words)
  BY <1>0, <1>1, <1>2, <1>4, <1>5, HoldsMore
<1>7. Turned(t, v, words)
  BY <1>0, <1>2, <1>3, <1>6 DEF Turned
<1> QED BY <1>7 DEF t

LEMMA RedirectTurns ==
    ASSUME NEW words \in Seq(WordRecords), NEW v \in 1..Len(words), NEW s,
           Turned(s, v - 1, words), ~ s.err, s.take = "none", NEW which \in {"in", "out"},
           words[v].op \in {"<", ">"}
    PROVE  Turned(Redirect(s, v, Len(words), which), v, words)
<1> DEFINE t == [s EXCEPT !.take = which]
           m == v - 1
<1>0. m \in Nat /\ m + 1 = v /\ v \in DOMAIN words
  OBVIOUS
<1>1. s \in Cmdlines /\ Holds(s, m, words)
  BY DEF Turned
<1>2. CASE s[which] # 0 \/ v = Len(words)
  <2>1. Redirect(s, v, Len(words), which) = Error(s, v)
    BY <1>2 DEF Redirect
  <2> QED BY <2>1, ErrorTurns
<1>3. CASE s[which] = 0 /\ v # Len(words)
  <2>1. Redirect(s, v, Len(words), which) = t
    BY <1>3 DEF Redirect
  <2>2. /\ t.seq = s.seq /\ t.cmd = s.cmd /\ t.in = s.in /\ t.out = s.out
        /\ t.err = FALSE /\ t.take = which
    BY <1>1 DEF Cmdlines
  <2>3. t \in Cmdlines
    BY <1>1 DEF Cmdlines
  <2>4. (which = "in" => s.in = 0) /\ (which = "out" => s.out = 0)
    BY <1>3
  <2> HIDE DEF t, m
  <2>5. LineOf(t) = LineOf(s)
    BY <2>2 DEF LineOf
  <2>6. words[m + 1].op # "word"
    BY <1>0
  <2>7. Holds(t, m + 1, words)
    BY <1>0, <1>1, <2>2, <2>5, <2>6, HoldsMore
  <2>8. Turned(t, v, words)
    BY <1>0, <2>2, <2>3, <2>4, <2>7 DEF Turned
  <2> QED BY <2>1, <2>8
<1> QED BY <1>2, <1>3

\* One turn of the loop.
LEMMA WordTurns ==
    ASSUME NEW words \in Seq(WordRecords), NEW v \in 1..Len(words), NEW s,
           Turned(s, v - 1, words)
    PROVE  Turned(ReadWord(s, v, words), v, words)
<1> DEFINE m == v - 1
           t == ReadWord(s, v, words)
           op == words[v].op
<1>0. m \in Nat /\ m + 1 = v /\ v \in DOMAIN words /\ v \in Nat /\ m \in 0..v
      /\ \A k \in 0..m : k \in 0..v
  OBVIOUS
<1>1. s \in Cmdlines /\ s.take \in {"none", "in", "out"} /\ op \in {"word", "&"} \cup Operators
  <2>1. s \in Cmdlines
    BY DEF Turned
  <2>2. words[v] \in WordRecords
    BY <1>0
  <2>3. s.take \in {"none", "in", "out"}
    BY <2>1 DEF Cmdlines
  <2>4. op \in {"word", "&"} \cup Operators
    BY <2>2 DEF WordRecords
  <2> QED BY <2>1, <2>3, <2>4
<1>2. CASE s.err
  <2>1. t = s
    BY <1>2 DEF ReadWord
  <2>2. s.at \in 0..v /\ Holds(s, s.at, words) /\ s.take = "none"
    BY <1>0, <1>2 DEF Turned
  <2> HIDE DEF t, m, op
  <2>3. Turned(s, v, words)
    BY <1>1, <1>2, <2>2 DEF Turned
  <2> QED BY <2>1, <2>3 DEF t
<1>3. CASE ~ s.err /\ s.take # "none"
  <2>2. \/ s.take = "in" /\ t = [s EXCEPT !.in = v, !.take = "none"]
        \/ s.take = "out" /\ t = [s EXCEPT !.out = v, !.take = "none"]
    BY <1>1, <1>3 DEF ReadWord
  <2>3. /\ Holds(s, m, words) /\ m \in DOMAIN words /\ words[m].op \in {"<", ">"}
        /\ s.take = "in" => s.in = 0
        /\ s.take = "out" => s.out = 0
    BY <1>3 DEF Turned
  <2>4. NamesItsFiles(words) => op = "word"
    BY <1>0, <2>3 DEF NamesItsFiles
  <2> HIDE DEF t, m
  <2>5. /\ t.seq = s.seq /\ t.cmd = s.cmd /\ t.take = "none" /\ t.err = FALSE
        /\ t \in Cmdlines
        /\ \/ s.in = 0 /\ t.in = v /\ t.out = s.out
           \/ s.out = 0 /\ t.out = v /\ t.in = s.in
    <3>1. CASE s.take = "in" /\ t = [s EXCEPT !.in = v, !.take = "none"]
      BY <1>0, <1>1, <1>3, <2>3, <3>1 DEF Cmdlines
    <3>2. CASE s.take = "out" /\ t = [s EXCEPT !.out = v, !.take = "none"]
      BY <1>0, <1>1, <1>3, <2>3, <3>2 DEF Cmdlines
    <3> QED BY <2>2, <3>1, <3>2
  <2>6. LineOf(t) = LineOf(s)
    BY <2>5 DEF LineOf
  <2>7. Holds(t, m + 1, words)
    <3>1. \/ s.in = 0 /\ t.in = m + 1 /\ t.out = s.out
          \/ s.out = 0 /\ t.out = m + 1 /\ t.in = s.in
      BY <1>0, <2>5
    <3>2. NamesItsFiles(words) => words[m + 1].op = "word"
      BY <1>0, <2>4
    <3> QED BY <1>0, <2>3, <2>6, <3>1, <3>2, HoldsFile
  <2>8. Turned(t, v, words)
    BY <1>0, <2>5, <2>7 DEF Turned
  <2> QED BY <2>8 DEF t
<1>4. CASE ~ s.err /\ s.take = "none"
  <2>0. Holds(s, m, words)
    BY <1>4 DEF Turned
  <2>1. CASE op = "<"
    <3>1. t = Redirect(s, v, Len(words), "in")
      BY <1>4, <2>1 DEF ReadWord
    <3> QED BY <1>4, <2>1, <3>1, RedirectTurns
  <2>2. CASE op = ">"
    <3>1. t = Redirect(s, v, Len(words), "out")
      BY <1>4, <2>2 DEF ReadWord
    <3> QED BY <1>4, <2>2, <3>1, RedirectTurns
  <2>3. CASE op = "|" /\ s.cmd = <<>>
    <3>1. t = Error(s, v)
      BY <1>4, <2>3 DEF ReadWord
    <3> QED BY <1>4, <2>3, <3>1, ErrorTurns
  <2>4. CASE op = "|" /\ s.cmd # <<>>
    <3>1. t = [s EXCEPT !.seq = Append(@, s.cmd), !.cmd = <<>>]
      BY <1>4, <2>4 DEF ReadWord
    <3>2. s.seq \in Seq(Seq(Nat)) /\ s.cmd \in Seq(Nat)
      BY <1>1 DEF Cmdlines
    <3>3. Append(s.seq, s.cmd) \in Seq(Seq(Nat)) /\ <<>> \in Seq(Nat)
      BY <3>2, AppendProperties
    <3>4. /\ t.err = FALSE /\ t.take = "none" /\ t.in = s.in /\ t.out = s.out
          /\ t.seq = Append(s.seq, s.cmd) /\ t.cmd = <<>> /\ t \in Cmdlines
      BY <1>1, <1>4, <3>1, <3>3 DEF Cmdlines
    <3>5. words[m + 1].op # "word"
      BY <1>0, <2>4
    <3> HIDE DEF t, m
    <3>6. LineOf(t) = LineOf(s)
      BY <1>1, <3>4, CommandMoves
    <3>7. Holds(t, m + 1, words)
      BY <1>0, <2>0, <3>4, <3>5, <3>6, HoldsMore
    <3>8. Turned(t, v, words)
      BY <1>0, <3>4, <3>7 DEF Turned
    <3> QED BY <3>8 DEF t
  <2>5. CASE op = "&"
    <3>1. t = [s EXCEPT !.background = TRUE]
      BY <1>4, <2>5 DEF ReadWord
    <3>2. /\ t.err = FALSE /\ t.take = "none" /\ t \in Cmdlines
          /\ t.seq = s.seq /\ t.cmd = s.cmd /\ t.in = s.in /\ t.out = s.out
      BY <1>1, <1>4, <3>1 DEF Cmdlines
    <3>3. words[m + 1].op # "word"
      BY <1>0, <2>5
    <3> HIDE DEF t, m
    <3>4. LineOf(t) = LineOf(s)
      BY <3>2 DEF LineOf
    <3>5. Holds(t, m + 1, words)
      BY <1>0, <2>0, <3>2, <3>3, <3>4, HoldsMore
    <3>6. Turned(t, v, words)
      BY <1>0, <3>2, <3>5 DEF Turned
    <3> QED BY <3>6 DEF t
  <2>6. CASE op = "word"
    <3>1. t = [s EXCEPT !.cmd = Append(@, v)]
      BY <1>4, <2>6 DEF ReadWord
    <3>2. s.cmd \in Seq(Nat) /\ s.seq \in Seq(Seq(Nat)) /\ Append(s.cmd, v) \in Seq(Nat)
      BY <1>0, <1>1, AppendProperties DEF Cmdlines
    <3>3. /\ t.err = FALSE /\ t.take = "none" /\ t \in Cmdlines
          /\ t.seq = s.seq /\ t.cmd = Append(s.cmd, v) /\ t.in = s.in /\ t.out = s.out
      BY <1>1, <1>4, <3>1, <3>2 DEF Cmdlines
    <3> HIDE DEF t, m
    <3>4. LineOf(t) = Append(LineOf(s), v)
      <4> DEFINE front == FlattenSeq(s.seq)
      <4>1. front \in Seq(Nat)
        BY <3>2, FlattenIsSeq
      <4>2. LineOf(s) = front \o s.cmd /\ LineOf(t) = front \o Append(s.cmd, v)
        BY <3>3 DEF LineOf
      <4> HIDE DEF front
      <4> DEFINE c == s.cmd
      <4>3. v \in Nat /\ c \in Seq(Nat)
        BY <1>0, <3>2
      <4> HIDE DEF c
      <4>4. front \o Append(c, v) = Append(front \o c, v)
        BY <4>1, <4>3, AppendInside
      <4> QED BY <4>2, <4>4 DEF c
    <3>5. Holds(t, m + 1, words)
      BY <1>0, <1>1, <2>0, <2>6, <3>3, <3>4, HoldsWord
    <3>6. Turned(t, v, words)
      BY <1>0, <3>3, <3>5 DEF Turned
    <3> QED BY <3>6 DEF t
  <2> QED BY <1>1, <2>1, <2>2, <2>3, <2>4, <2>5, <2>6 DEF Operators
<1> QED BY <1>1, <1>2, <1>3, <1>4

\* The structure after the loop: it holds every allocated word it passed, once.
LEMMA LoopTurns ==
    ASSUME NEW words \in Seq(WordRecords)
    PROVE  \E s : Turned(s, Len(words), words) /\ ReadAll(words) = LastCommand(s, Len(words))
<1> DEFINE n == Len(words)
           f == CHOOSE g : Loops(g, words, n)
           T == {v \in 0..n : Turned(f[v], v, words)}
<1>0. n \in Nat
  OBVIOUS
<1>1. Loops(f, words, n)
  BY <1>0, LoopsExists
<1>2. ReadAll(words) = LastCommand(f[n], n)
  BY DEF ReadAll, Loops
<1> HIDE DEF f
<1>3. ASSUME NEW v \in 0..n
      PROVE  /\ v = 0 => f[v] = NewCmdline
             /\ v # 0 => f[v] = ReadWord(f[v - 1], v, words)
  <2> DEFINE rest(j) == IF j = 0 THEN NewCmdline ELSE ReadWord(f[j - 1], j, words)
  <2> HIDE DEF n
  <2>1. f = [j \in 0..n |-> rest(j)]
    BY <1>1 DEF Loops
  <2>2. f[v] = rest(v)
    <3> HIDE DEF rest
    <3> QED BY <2>1
  <2> HIDE DEF ReadWord, NewCmdline
  <2> QED BY <2>2
<1>4. 0 \in T
  <2> DEFINE s == f[0]
  <2>1. s = NewCmdline
    BY <1>0, <1>3
  <2>2. <<>> \in Seq(Nat) /\ <<>> \in Seq(Seq(Nat))
    OBVIOUS
  <2>3. /\ s \in Cmdlines /\ s.seq = <<>> /\ s.cmd = <<>> /\ s.in = 0 /\ s.out = 0
        /\ s.err = FALSE /\ s.take = "none"
    BY <2>1, <2>2 DEF NewCmdline, Cmdlines
  <2> HIDE DEF s
  <2>4. FlattenSeq(s.seq) = <<>>
    BY <2>2, <2>3, FlattenUnfold
  <2>5. LineOf(s) = <<>>
    BY <2>2, <2>3, <2>4, ConcatEmptySeq DEF LineOf
  <2>6. IsInjective(LineOf(s)) /\ Range(LineOf(s)) = {}
    BY <2>5 DEF IsInjective, Range
  <2>7. Held(s) = {}
    BY <2>3, <2>6 DEF Held
  <2>8. Holds(s, 0, words)
    BY <2>3, <2>6, <2>7 DEF Holds
  <2>9. Turned(s, 0, words)
    BY <2>3, <2>8 DEF Turned
  <2> QED BY <1>0, <2>9 DEF s
<1>5. ASSUME NEW d \in 0..(n - 1), d \in T PROVE d + 1 \in T
  <2> DEFINE v == d + 1
  <2>1. v \in 1..n /\ v \in 0..n /\ v # 0 /\ v - 1 = d
    BY <1>0
  <2>2. Turned(f[d], d, words)
    BY <1>5
  <2> HIDE DEF v
  <2>3. f[v] = ReadWord(f[d], v, words)
    BY <1>3, <2>1
  <2>4. Turned(f[d], v - 1, words)
    BY <2>1, <2>2
  <2>5. Turned(f[v], v, words)
    BY <2>1, <2>3, <2>4, WordTurns
  <2>6. v \in T
    BY <2>1, <2>5
  <2> QED BY <2>6 DEF v
<1>6. n \in T
  <2> HIDE DEF T, n
  <2>1. 0..n \subseteq T
    BY <1>0, <1>4, <1>5, Induction
  <2> QED BY <1>0, <2>1
<1>7. Turned(f[n], n, words)
  BY <1>6
<1> QED BY <1>2, <1>7

LEMMA ReadAllHolds ==
    ASSUME NEW words \in Seq(WordRecords)
    PROVE  LET s == ReadAll(words) IN
           /\ s \in Cmdlines
           /\ s.err => s.at \in 0..Len(words) /\ Holds(s, s.at, words)
           /\ ~ s.err => s.cmd = <<>> /\ Holds(s, Len(words), words)
<1> DEFINE n == Len(words)
           t == ReadAll(words)
<1>0. n \in Nat
  OBVIOUS
<1>1. PICK s : Turned(s, n, words) /\ t = LastCommand(s, n)
  BY LoopTurns
<1> HIDE DEF t, n
<1>2. s \in Cmdlines
  BY <1>1 DEF Turned
<1>3. /\ t \in Cmdlines
      /\ t.err => t.at \in 0..n /\ Holds(t, t.at, words)
      /\ ~ t.err => t.cmd = <<>> /\ Holds(t, n, words)
  <2>1. CASE s.err
    <3>1. t = s
      BY <1>1, <2>1 DEF LastCommand
    <3> QED BY <1>1, <1>2, <2>1, <3>1 DEF Turned
  <2>2. CASE ~ s.err /\ s.cmd # <<>>
    <3>1. t = [s EXCEPT !.seq = Append(@, s.cmd), !.cmd = <<>>]
      BY <1>1, <2>2 DEF LastCommand
    <3>2. s.seq \in Seq(Seq(Nat)) /\ s.cmd \in Seq(Nat)
      BY <1>2 DEF Cmdlines
    <3>3. Append(s.seq, s.cmd) \in Seq(Seq(Nat)) /\ <<>> \in Seq(Nat)
      BY <3>2, AppendProperties
    <3>4. /\ t.err = FALSE /\ t.in = s.in /\ t.out = s.out
          /\ t.seq = Append(s.seq, s.cmd) /\ t.cmd = <<>> /\ t \in Cmdlines
      BY <1>2, <2>2, <3>1, <3>3 DEF Cmdlines
    <3>5. LineOf(t) = LineOf(s)
      BY <1>2, <3>4, CommandMoves
    <3>6. Held(t) = Held(s)
      BY <3>4, <3>5 DEF Held
    <3>7. Holds(s, n, words)
      BY <1>1, <2>2 DEF Turned
    <3>8. Holds(t, n, words)
      BY <3>4, <3>5, <3>6, <3>7 DEF Holds
    <3> QED BY <3>4, <3>8
  <2>3. CASE ~ s.err /\ s.cmd = <<>> /\ s.seq # <<>>
    <3>1. t = Error(s, n)
      BY <1>1, <2>3 DEF LastCommand
    <3>2. /\ t.seq = s.seq /\ t.cmd = s.cmd /\ t.in = s.in /\ t.out = s.out
          /\ t.err = TRUE /\ t.at = n /\ t \in Cmdlines
      BY <1>0, <1>2, <3>1 DEF Error, Cmdlines
    <3>3. LineOf(t) = LineOf(s)
      BY <3>2 DEF LineOf
    <3>4. Held(t) = Held(s)
      BY <3>2, <3>3 DEF Held
    <3>5. Holds(s, n, words)
      BY <1>1, <2>3 DEF Turned
    <3>6. Holds(t, n, words)
      BY <3>2, <3>3, <3>4, <3>5 DEF Holds
    <3> QED BY <1>0, <3>2, <3>6
  <2>4. CASE ~ s.err /\ s.cmd = <<>> /\ s.seq = <<>>
    <3>1. t = s
      BY <1>1, <2>4 DEF LastCommand
    <3> QED BY <1>1, <1>2, <2>4, <3>1 DEF Turned
  <2> QED BY <2>1, <2>2, <2>3, <2>4
<1> QED BY <1>3 DEF t, n

\* The files, then the words of the commands.
LEMMA FilesHeld ==
    ASSUME NEW s \in Cmdlines, NEW m \in Nat, NEW words, Holds(s, m, words)
    PROVE  /\ Files(s) \in Seq(Nat)
           /\ IsInjective(Files(s))
           /\ Range(Files(s)) = {s.in, s.out} \ {0}
<1> DEFINE one(w) == IF w = 0 THEN <<>> ELSE <<w>>
<1>1. ASSUME NEW w \in Nat
      PROVE  one(w) \in Seq(Nat) /\ IsInjective(one(w)) /\ Range(one(w)) = {w} \ {0}
  <2>1. CASE w = 0
    <3>1. one(w) = <<>>
      BY <2>1
    <3> HIDE DEF one
    <3>2. IsInjective(<<>>) /\ Range(<<>>) = {} /\ <<>> \in Seq(Nat)
      BY DEF IsInjective, Range
    <3> QED BY <2>1, <3>1, <3>2
  <2>2. CASE w # 0
    <3>1. one(w) = <<w>>
      BY <2>2
    <3> HIDE DEF one
    <3>2. <<w>> \in Seq(Nat) /\ DOMAIN <<w>> = {1} /\ <<w>>[1] = w
      OBVIOUS
    <3>3. IsInjective(<<w>>) /\ Range(<<w>>) = {w}
      BY <3>2 DEF IsInjective, Range
    <3> QED BY <2>2, <3>1, <3>2, <3>3
  <2> QED BY <2>1, <2>2
<1>2. s.in \in Nat /\ s.out \in Nat /\ (s.in # 0 => s.in # s.out)
  BY DEF Holds, Cmdlines
<1>3. Files(s) = one(s.in) \o one(s.out)
  BY DEF Files
<1> HIDE DEF one
<1>4. /\ one(s.in) \in Seq(Nat) /\ one(s.out) \in Seq(Nat)
      /\ IsInjective(one(s.in)) /\ IsInjective(one(s.out))
      /\ Range(one(s.in)) = {s.in} \ {0} /\ Range(one(s.out)) = {s.out} \ {0}
  BY <1>1, <1>2
<1>5. Range(one(s.in)) \cap Range(one(s.out)) = {}
  BY <1>2, <1>4
<1>6. IsInjective(one(s.in) \o one(s.out))
      /\ Range(one(s.in) \o one(s.out)) = Range(one(s.in)) \cup Range(one(s.out))
  BY <1>4, <1>5, InjectiveConcat
<1>7. one(s.in) \o one(s.out) \in Seq(Nat)
  BY <1>4, ConcatProperties
<1> QED BY <1>3, <1>4, <1>6, <1>7

LEMMA JoinedInOrder ==
    ASSUME NEW S, NEW s \in Seq(S), NEW t \in Seq(S), NEW u \in Seq(S)
    PROVE  Joined(Joined(s, t), u) = Joined(s, Joined(t, u))
<1>1. (s \o t) \o u = s \o (t \o u)
  BY ConcatAssociative
<1> QED BY <1>1 DEF Joined

\* What is owned in the end: nothing twice, every allocated word, and nothing
\* else when the line names its files.
LEMMA OwnedOnce ==
    ASSUME NEW words \in Seq(WordRecords)
    PROVE  LET r == readcmd(words)
               owned == freecmd(r.s) \o r.freed
           IN /\ IsInjective(owned)
              /\ Range(owned) \subseteq DOMAIN words
              /\ \A w \in DOMAIN words : words[w].op = "word" => w \in Range(owned)
              /\ r.s.err \/ r.freed = <<>>
              /\ NamesItsFiles(words) => \A w \in Range(owned) : words[w].op = "word"
<1> DEFINE n == Len(words)
           s == ReadAll(words)
           r == readcmd(words)
           owned == freecmd(r.s) \o r.freed
           flat == FlattenSeq(s.seq)
<1>0. n \in Nat /\ DOMAIN words = 1..n /\ \A w \in 1..n : words[w] \in WordRecords
  OBVIOUS
<1>1. /\ s \in Cmdlines
      /\ s.err => s.at \in 0..n /\ Holds(s, s.at, words)
      /\ ~ s.err => s.cmd = <<>> /\ Holds(s, n, words)
  BY ReadAllHolds
<1>2. r = IF ~ s.err THEN [s |-> s, freed |-> <<>>]
          ELSE [s |-> [s EXCEPT !.in = 0, !.out = 0, !.seq = <<>>, !.cmd = <<>>],
                freed |-> FreeRest(s, words) \o flat \o s.cmd \o Files(s)]
  BY DEF readcmd
<1> HIDE DEF s, r, n
<1>3. s.seq \in Seq(Seq(Nat)) /\ s.cmd \in Seq(Nat) /\ s.at \in Nat
  BY <1>1 DEF Cmdlines
<1>4. flat \in Seq(Nat) /\ LineOf(s) \in Seq(Nat) /\ LineOf(s) = flat \o s.cmd
  BY <1>1, <1>3, FlattenIsSeq, LineOfIsSeq DEF LineOf
<1> HIDE DEF flat
<1>5. CASE ~ s.err
  <2>1. r.s = s /\ r.freed = <<>> /\ Holds(s, n, words) /\ s.cmd = <<>>
    BY <1>1, <1>2, <1>5
  <2>2. LineOf(s) = flat
    BY <1>4, <2>1, ConcatEmptySeq
  <2>3. /\ Files(s) \in Seq(Nat) /\ IsInjective(Files(s))
        /\ Range(Files(s)) = {s.in, s.out} \ {0}
    BY <1>0, <1>1, <2>1, FilesHeld
  <2>4. owned = Files(s) \o LineOf(s)
    <3>1. freecmd(s) = Files(s) \o LineOf(s)
      BY <2>2 DEF freecmd, flat
    <3>2. Files(s) \o LineOf(s) \in Seq(Nat)
      BY <1>4, <2>3, ConcatProperties
    <3>3. owned = (Files(s) \o LineOf(s)) \o <<>>
      BY <2>1, <3>1
    <3> QED BY <3>2, <3>3, ConcatEmptySeq
  <2> HIDE DEF owned
  <2>5. Range(Files(s)) \cap Range(LineOf(s)) = {} /\ IsInjective(LineOf(s))
    BY <2>1, <2>3 DEF Holds
  <2>6. IsInjective(owned) /\ Range(owned) = Range(Files(s)) \cup Range(LineOf(s))
    <3> DEFINE a == Files(s)
               b == LineOf(s)
    <3>1. /\ a \in Seq(Nat) /\ b \in Seq(Nat) /\ IsInjective(a) /\ IsInjective(b)
          /\ Range(a) \cap Range(b) = {} /\ owned = a \o b
      BY <1>4, <2>3, <2>4, <2>5
    <3> HIDE DEF a, b
    <3>2. IsInjective(a \o b) /\ Range(a \o b) = Range(a) \cup Range(b)
      BY <3>1, InjectiveConcat
    <3>3. IsInjective(owned) /\ Range(owned) = Range(a) \cup Range(b)
      BY <3>1, <3>2
    <3> QED BY <3>3 DEF a, b
  <2>7. Range(owned) = Held(s)
    BY <2>3, <2>6 DEF Held
  <2>8. Held(s) \subseteq 1..n
    <3>1. \A w \in 0..n : w # 0 => w \in 1..n
      OBVIOUS
    <3> QED BY <2>1, <3>1 DEF Holds, Held
  <2>9. /\ \A w \in 1..n : words[w].op = "word" => w \in Held(s)
        /\ NamesItsFiles(words) => \A w \in Held(s) : words[w].op = "word"
    BY <2>1 DEF Holds
  <2> QED BY <1>0, <2>1, <2>6, <2>7, <2>8, <2>9 DEF owned, r
<1>6. CASE s.err
  <2> DEFINE rest == FreeRest(s, words)
             back == (s.at + 1)..n
  <2>1. /\ r.s = [s EXCEPT !.in = 0, !.out = 0, !.seq = <<>>, !.cmd = <<>>]
        /\ r.freed = ((rest \o flat) \o s.cmd) \o Files(s)
        /\ Holds(s, s.at, words) /\ s.at \in 0..n
    BY <1>1, <1>2, <1>6
  <2>2. r.s.in = 0 /\ r.s.out = 0 /\ r.s.seq = <<>> /\ r.s.err
    <3> HIDE DEF rest
    <3> QED BY <1>1, <1>6, <2>1 DEF Cmdlines
  <2>3. /\ Files(s) \in Seq(Nat) /\ IsInjective(Files(s))
        /\ Range(Files(s)) = {s.in, s.out} \ {0}
    BY <1>1, <1>3, <2>1, FilesHeld
  <2>4. /\ rest \in Seq(Nat) /\ IsInjective(rest)
        /\ Range(rest) = {j \in back : words[j].op \notin Operators}
    BY <2>1, FreeRestIs DEF n
  <2> HIDE DEF rest
  <2>5. freecmd(r.s) = <<>>
    <3>1. <<>> \in Seq(Nat) /\ <<>> \in Seq(Seq(Nat))
      OBVIOUS
    <3>2. <<>> \o <<>> = <<>>
      BY <3>1, ConcatEmptySeq
    <3>3. FlattenSeq(r.s.seq) = <<>>
      <4>1. r.s.seq = <<>> /\ r.s.seq \in Seq(Seq(Nat))
        BY <2>2, <3>1
      <4> QED BY <4>1, FlattenUnfold
    <3>4. Files(r.s) = <<>> \o <<>>
      BY <2>2 DEF Files
    <3> QED BY <3>2, <3>3, <3>4 DEF freecmd
  <2>6. owned = (rest \o LineOf(s)) \o Files(s)
    <3>1. (rest \o flat) \o s.cmd = rest \o LineOf(s)
      <4>1. (rest \o flat) \o s.cmd = rest \o (flat \o s.cmd)
        <5> DEFINE c == s.cmd
        <5>1. rest \in Seq(Nat) /\ flat \in Seq(Nat) /\ c \in Seq(Nat)
          BY <1>3, <1>4, <2>4
        <5> HIDE DEF c
        <5>2. Joined(Joined(rest, flat), c) = Joined(rest, Joined(flat, c))
          BY <5>1, JoinedInOrder
        <5> QED BY <5>2 DEF c, Joined
      <4> QED BY <1>4, <4>1
    <3>2. rest \o LineOf(s) \in Seq(Nat)
      BY <1>4, <2>4, ConcatProperties
    <3>3. (rest \o LineOf(s)) \o Files(s) \in Seq(Nat)
      BY <2>3, <3>2, ConcatProperties
    <3>4. owned = <<>> \o ((rest \o LineOf(s)) \o Files(s))
      BY <2>1, <2>5, <3>1
    <3> QED BY <3>3, <3>4, ConcatEmptySeq
  <2> HIDE DEF owned
  <2>7. /\ IsInjective(LineOf(s)) /\ Range(LineOf(s)) \subseteq 1..s.at
        /\ Range(Files(s)) \subseteq 1..s.at
        /\ Range(Files(s)) \cap Range(LineOf(s)) = {}
    <3>1. \A w \in 0..s.at : w # 0 => w \in 1..s.at
      BY <1>3
    <3> QED BY <2>1, <2>3, <3>1 DEF Holds
  <2>8. /\ \A w \in 1..n : w \in 1..s.at \/ w \in back
        /\ \A w \in 1..s.at : w \notin back
        /\ 1..s.at \subseteq 1..n /\ back \subseteq 1..n
    BY <1>0, <2>1
  <2> HIDE DEF back
  <2>9. /\ IsInjective(rest \o LineOf(s))
        /\ Range(rest \o LineOf(s)) = Range(rest) \cup Range(LineOf(s))
        /\ rest \o LineOf(s) \in Seq(Nat)
    <3>1. Range(rest) \cap Range(LineOf(s)) = {}
      BY <2>4, <2>7, <2>8
    <3> DEFINE b == LineOf(s)
    <3>2. /\ rest \in Seq(Nat) /\ b \in Seq(Nat) /\ IsInjective(rest) /\ IsInjective(b)
          /\ Range(rest) \cap Range(b) = {}
      BY <1>4, <2>4, <2>7, <3>1
    <3> HIDE DEF b
    <3>3. /\ IsInjective(rest \o b) /\ Range(rest \o b) = Range(rest) \cup Range(b)
          /\ rest \o b \in Seq(Nat)
      BY <3>2, InjectiveConcat, ConcatProperties
    <3> QED BY <3>3 DEF b
  <2>10. /\ IsInjective(owned)
         /\ Range(owned) = Range(rest \o LineOf(s)) \cup Range(Files(s))
    <3>1. Range(rest \o LineOf(s)) \cap Range(Files(s)) = {}
      BY <2>4, <2>7, <2>8, <2>9
    <3> DEFINE a == rest \o LineOf(s)
               b == Files(s)
    <3>2. /\ a \in Seq(Nat) /\ b \in Seq(Nat) /\ IsInjective(a) /\ IsInjective(b)
          /\ Range(a) \cap Range(b) = {} /\ owned = a \o b
      BY <2>3, <2>6, <2>9, <3>1
    <3> HIDE DEF a, b
    <3>3. IsInjective(a \o b) /\ Range(a \o b) = Range(a) \cup Range(b)
      BY <3>2, InjectiveConcat
    <3>4. IsInjective(owned) /\ Range(owned) = Range(a) \cup Range(b)
      BY <3>2, <3>3
    <3> QED BY <3>4 DEF a, b
  <2>11. Range(owned) = Range(rest) \cup Held(s)
    BY <2>3, <2>9, <2>10 DEF Held
  <2>12. Range(owned) \subseteq 1..n
    BY <2>4, <2>7, <2>8, <2>9, <2>10
  <2>13. ASSUME NEW w \in 1..n, words[w].op = "word" PROVE w \in Range(owned)
    <3>1. CASE w \in 1..s.at
      BY <2>1, <2>11, <2>13, <3>1 DEF Holds
    <3>2. CASE w \in back
      BY <2>4, <2>11, <2>13, <3>2 DEF Operators
    <3> QED BY <2>8, <3>1, <3>2
  <2>14. ASSUME NamesItsFiles(words), NEW w \in Range(owned) PROVE words[w].op = "word"
    <3>1. CASE w \in Held(s)
      BY <2>1, <2>14, <3>1 DEF Holds
    <3>2. CASE w \in Range(rest)
      <4>1. w \in 1..n /\ words[w].op \notin Operators
        BY <2>4, <2>8, <3>2
      <4>2. words[w] \in WordRecords
        BY <1>0, <4>1
      <4>3. words[w].op # "&"
        BY <1>0, <2>14, <4>1 DEF NamesItsFiles
      <4> QED BY <4>1, <4>2, <4>3 DEF WordRecords
    <3> QED BY <2>11, <2>14, <3>1, <3>2
  <2> QED BY <1>0, <2>2, <2>10, <2>12, <2>13, <2>14 DEF owned, r
<1> QED BY <1>5, <1>6

\* Every allocated word of a line has one owner.
LEMMA LineOwnsWords ==
    ASSUME NEW C, NEW line \in Seq(C)
    PROVE  OwnsWords(line)
<1> DEFINE words == split_in_words(line)
           r == readcmd(words)
           owned == freecmd(r.s) \o r.freed
<1>1. words \in Seq(WordRecords)
  BY LineIsSplit DEF WordsFrom
<1> HIDE DEF words
<1>2. /\ IsInjective(owned)
      /\ Range(owned) \subseteq DOMAIN words
      /\ \A w \in DOMAIN words : words[w].op = "word" => w \in Range(owned)
      /\ r.s.err \/ r.freed = <<>>
      /\ NamesItsFiles(words) => \A w \in Range(owned) : words[w].op = "word"
  BY <1>1, OwnedOnce
<1> HIDE DEF owned, r
<1>3. {w \in DOMAIN words : ~ Literal(words[w])} \subseteq Range(owned)
  BY <1>2 DEF Literal
<1>4. NamesItsFiles(words) => ~ FreesLiteral(owned, words)
  BY <1>2 DEF FreesLiteral, Literal, Range
<1> QED BY <1>2, <1>3, <1>4 DEF OwnsWords, owned, r, words

-----------------------------------------------------------------------------
(* The lines of the two shells.                                            *)

LEMMA ShellLines ==
    ShellInit => typedLine \in Seq(STRING)
BY DEF ShellInit

LEMMA ShellLineStep ==
    ASSUME typedLine \in Seq(STRING), [ShellNext]_shellVars
    PROVE  typedLine' \in Seq(STRING)
<1>1. CASE UNCHANGED shellVars
  BY <1>1 DEF shellVars, lineVars
<1>2. CASE ReadLine
  <2>1. PICK line \in IF nlines = 0 THEN FirstLines ELSE NextLines : typedLine' = line
    BY <1>2 DEF ReadLine
  <2> QED BY <2>1, LinesAssumption
<1>3. CASE EndOfInput \/ Work
  <2>1. CASE \/ EndOfInput \/ Increment \/ Realloc \/ OpenTubes
             \/ ExitCommand \/ Fork_command \/ CloseWritingEnd
    BY <2>1 DEF EndOfInput, Increment, Realloc, OpenTubes, ExitCommand, Fork_command,
                CloseWritingEnd, lineVars
  <2>2. CASE LeaveLoop \/ WaitChild_tst \/ LeaveWaits
    BY <2>2 DEF LeaveLoop, WaitChild_tst, LeaveWaits, lineVars
  <2>3. CASE InitJob \/ StartWait
    <3>1. typedLine' = <<>>
      BY <2>3 DEF InitJob, StartWait
    <3> QED BY <3>1
  <2> QED BY <1>3, <2>1, <2>2, <2>3 DEF Work
<1>4. CASE handler_child \/ (\E k \in Kid : KidSteps(k)) \/ CtrlC_key \/ CtrlZ_key
  BY <1>4 DEF handler_child, KidSteps, Exec, CommandEnds, CtrlC_key, CtrlZ_key, Strike, lineVars
<1> QED BY <1>1, <1>2, <1>3, <1>4 DEF ShellNext

\* Whatever lines are typed and however long, the line that the shell acts on
\* is read whole (readcmd.c:39-61) and split in its words (:65-126).
THEOREM LineWordsHold == ShellSpec => []LineWords
<1>1. ShellInit => typedLine \in Seq(STRING)
  BY ShellLines
<1>2. typedLine \in Seq(STRING) /\ [ShellNext]_shellVars => (typedLine \in Seq(STRING))'
  BY ShellLineStep
<1>3. typedLine \in Seq(STRING) => LineWords
  <2> SUFFICES ASSUME typedLine \in Seq(STRING) PROVE LineWords
    OBVIOUS
  <2> DEFINE C == STRING \cup {"\n"}
             input == Append(typedLine, "\n")
  <2>1. input \in Seq(C)
    <3>1. typedLine \in Seq(C)
      BY SeqMonotonic
    <3> QED BY <3>1, AppendProperties
  <2>2. ReadsOneLine(input)
    <3> HIDE DEF input, C
    <3> QED BY <2>1, LineIsRead
  <2>3. SplitsInWords(typedLine)
    BY LineSplitsInWords
  <2> QED BY <2>2, <2>3 DEF LineWords
<1> QED BY <1>1, <1>2, <1>3, PTL DEF ShellSpec

\* Whatever lines are typed, readcmd and freecmd have each allocated word
\* once, on every path, the errors included (readcmd.c:129-281).
THEOREM WordsOwnedOnceHolds == ShellSpec => []WordsOwnedOnce
<1>1. ShellInit => typedLine \in Seq(STRING)
  BY ShellLines
<1>2. typedLine \in Seq(STRING) /\ [ShellNext]_shellVars => (typedLine \in Seq(STRING))'
  BY ShellLineStep
<1>3. typedLine \in Seq(STRING) => WordsOwnedOnce
  BY LineOwnsWords DEF WordsOwnedOnce
<1> QED BY <1>1, <1>2, <1>3, PTL DEF ShellSpec

-----------------------------------------------------------------------------
(* The prompt of the FTP client.                                           *)

Codes == {"EXIT", "LS", "GET", "RM", "RMR"}
Requested == [code : Codes, arg : Seq(STRING)]

LEMMA ParsedIs ==
    ASSUME NEW line \in Seq(STRING)
    PROVE  cmd_parsed(line) \in Seq(Seq(STRING))
<1> DEFINE words == split_in_words(line)
           text == cmd_parsed(line)
<1>1. /\ words \in Seq(WordRecords)
      /\ \A w \in 1..Len(words) :
            words[w].from \in 1..Len(line) /\ words[w].to \in words[w].from..Len(line)
  BY LineIsSplit DEF WordsFrom
<1>2. text = [w \in DOMAIN words |-> SubSeq(line, words[w].from, words[w].to)]
  BY DEF cmd_parsed
<1> HIDE DEF words, text
<1>3. DOMAIN words = 1..Len(words) /\ Len(words) \in Nat
  BY <1>1
<1>4. ASSUME NEW w \in 1..Len(words)
      PROVE  SubSeq(line, words[w].from, words[w].to) \in Seq(STRING)
  <2> DEFINE a == words[w].from
             b == words[w].to
  <2>1. a \in 1..Len(line) /\ b \in a..Len(line) /\ Len(line) \in Nat
    BY <1>1
  <2> HIDE DEF a, b
  <2>2. \A j \in a..b : line[j] \in STRING
    BY <2>1
  <2>3. SubSeq(line, a, b) \in Seq(STRING)
    BY <2>1, <2>2, SubSeqProperties
  <2> QED BY <2>3 DEF a, b
<1>5. text \in [1..Len(words) -> Seq(STRING)]
  BY <1>2, <1>3, <1>4
<1> QED BY <1>3, <1>5 DEF text

\* A sequence of the elements of a set that has one, or none.
LEMMA NoneInOrder == SetToSeq({}) = <<>>
<1> DEFINE P(f) == f \in [1..Cardinality({}) -> {}] /\ IsInjective(f)
<1>1. Cardinality({}) = 0
  BY FS_EmptySet
<1>2. P(<<>>)
  BY <1>1 DEF IsInjective
<1>3. P(SetToSeq({}))
  BY <1>2 DEF SetToSeq
<1> QED BY <1>1, <1>3

LEMMA OneInOrder ==
    ASSUME NEW r
    PROVE  SetToSeq({r}) = <<r>>
<1> DEFINE P(f) == f \in [1..Cardinality({r}) -> {r}] /\ IsInjective(f)
<1>1. Cardinality({r}) = 1
  BY FS_Singleton
<1>2. P([k \in 1..1 |-> r])
  BY <1>1 DEF IsInjective
<1>3. P(SetToSeq({r}))
  BY <1>2 DEF SetToSeq
<1>4. SetToSeq({r}) \in [1..1 -> {r}]
  BY <1>1, <1>3
<1> QED BY <1>4

\* What a line says is what the switch writes for it.
LEMMA WantedIs ==
    ASSUME NEW line \in Seq(STRING)
    PROVE  LET words == cmd_parsed(line)
               code == cmd_to_int(words[1])
           IN /\ Wanted(line) \in Seq(Requested)
              /\ words = <<>> => Wanted(line) = <<>>
              /\ words # <<>> /\ code = "EXIT" =>
                    Wanted(line) = <<[code |-> "EXIT", arg |-> <<>>]>>
              /\ words # <<>> /\ code = "HOST" => Wanted(line) = <<>>
              /\ words # <<>> /\ code \notin {"EXIT", "HOST"} => Wanted(line) = Requests(words)
<1> DEFINE words == cmd_parsed(line)
           one == words[1]
           flag == Len(words) > 2 /\ words[2] = <<"-">>
           code == cmd_to_int(one)
           x == [name |-> <<"x">>, code |-> "EXIT", needs |-> 0]
           l == [name |-> <<"l">>, code |-> "LS", needs |-> 0]
           g == [name |-> <<"g">>, code |-> "GET", needs |-> 1]
           r == [name |-> <<"r">>, code |-> IF flag THEN "RMR" ELSE "RM",
                 needs |-> IF flag THEN 2 ELSE 1]
           wants == {w \in {x, l, g, r} : words # <<>> /\ w.name = one /\ w.needs < Len(words)}
           asked(w) == [code |-> w.code, arg |-> IF w.needs = 0 THEN <<>> ELSE words[w.needs + 1]]
<1>1. Wanted(line) = SetToSeq({asked(w) : w \in wants})
  BY DEF Wanted
<1>2. words \in Seq(Seq(STRING)) /\ Len(words) \in Nat /\ (words # <<>> <=> 0 < Len(words))
  BY ParsedIs
<1>3. /\ code = CASE one = <<"x">> -> "EXIT" [] one = <<"l">> -> "LS" [] one = <<"g">> -> "GET"
                  [] one = <<"r">> -> "RM" [] one = <<"h">> -> "HOST" [] OTHER -> "ERROR"
      /\ Requests(words) =
            CASE code = "LS" -> <<[code |-> code, arg |-> <<>>]>>
              [] code = "GET" /\ Len(words) > 1 -> <<[code |-> code, arg |-> words[2]]>>
              [] code = "RM" /\ Len(words) > 1 ->
                    IF words[2] = <<"-">> /\ Len(words) > 2
                    THEN <<[code |-> "RMR", arg |-> words[3]]>>
                    ELSE <<[code |-> code, arg |-> words[2]]>>
              [] OTHER -> <<>>
  BY DEF cmd_to_int, Requests
<1>4. /\ <<"x">> # <<"l">> /\ <<"x">> # <<"g">> /\ <<"x">> # <<"r">> /\ <<"x">> # <<"h">>
      /\ <<"l">> # <<"g">> /\ <<"l">> # <<"r">> /\ <<"l">> # <<"h">>
      /\ <<"g">> # <<"r">> /\ <<"g">> # <<"h">> /\ <<"r">> # <<"h">>
  OBVIOUS
<1>5. /\ x.name = <<"x">> /\ x.code = "EXIT" /\ x.needs = 0
      /\ l.name = <<"l">> /\ l.code = "LS" /\ l.needs = 0
      /\ g.name = <<"g">> /\ g.code = "GET" /\ g.needs = 1
      /\ r.name = <<"r">>
      /\ flag => r.code = "RMR" /\ r.needs = 2
      /\ ~ flag => r.code = "RM" /\ r.needs = 1
      /\ r.code \in {"RM", "RMR"} /\ r.needs \in {1, 2}
  <2>1. x.name = <<"x">> /\ x.code = "EXIT" /\ x.needs = 0
    OBVIOUS
  <2>2. l.name = <<"l">> /\ l.code = "LS" /\ l.needs = 0
    OBVIOUS
  <2>3. g.name = <<"g">> /\ g.code = "GET" /\ g.needs = 1
    OBVIOUS
  <2>4. /\ r.name = <<"r">> /\ r.code = IF flag THEN "RMR" ELSE "RM"
        /\ r.needs = IF flag THEN 2 ELSE 1
    <3> DEFINE rmcode == IF flag THEN "RMR" ELSE "RM"
               rmneeds == IF flag THEN 2 ELSE 1
    <3>1. r = [name |-> <<"r">>, code |-> rmcode, needs |-> rmneeds]
      OBVIOUS
    <3> HIDE DEF r, rmcode, rmneeds
    <3>2. r.name = <<"r">> /\ r.code = rmcode /\ r.needs = rmneeds
      BY <3>1
    <3> QED BY <3>2 DEF rmcode, rmneeds
  <2> HIDE DEF x, l, g, r, flag
  <2> QED BY <2>1, <2>2, <2>3, <2>4
<1> HIDE DEF words, code, x, l, g, r
<1> USE <1>2, <1>4, <1>5
<1>6. ASSUME NEW a, Wanted(line) = <<a>>, a.code \in Codes, a.arg \in Seq(STRING),
             a = [code |-> a.code, arg |-> a.arg]
      PROVE  Wanted(line) \in Seq(Requested)
  BY <1>6 DEF Requested
<1>7. ASSUME wants = {} PROVE Wanted(line) = <<>> /\ Wanted(line) \in Seq(Requested)
  <2> HIDE DEF wants
  <2>1. {asked(w) : w \in wants} = {}
    BY <1>7
  <2> HIDE DEF asked
  <2>2. Wanted(line) = <<>>
    BY <1>1, <2>1, NoneInOrder
  <2> QED BY <2>2
<1>8. ASSUME NEW w \in {x, l, g, r}, wants = {w}
      PROVE  /\ Wanted(line) = <<asked(w)>>
             /\ Wanted(line) \in Seq(Requested)
  <2>1. {asked(v) : v \in wants} = {asked(w)}
    BY <1>8
  <2>2. Wanted(line) = <<asked(w)>>
    <3> HIDE DEF asked, wants
    <3> QED BY <1>1, <2>1, OneInOrder
  <2>3. w.code \in Codes
    BY DEF Codes
  <2>4. w.needs \in Nat /\ w.needs < Len(words)
    BY <1>8
  <2>5. asked(w).arg \in Seq(STRING)
    <3>1. CASE w.needs = 0
      BY <3>1
    <3>2. CASE w.needs # 0
      <4> DEFINE k == w.needs + 1
      <4>1. k \in 1..Len(words)
        BY <2>4, <3>2
      <4>2. asked(w).arg = words[k]
        BY <3>2
      <4> HIDE DEF k, asked
      <4>3. words[k] \in Seq(STRING)
        BY <4>1, ElementOfSeq
      <4> QED BY <4>2, <4>3
    <3> QED BY <3>1, <3>2
  <2> QED BY <1>6, <2>2, <2>3, <2>5
<1>9. CASE words = <<>>
  <2>1. wants = {}
    BY <1>9
  <2> QED BY <1>7, <1>9, <2>1 DEF words
<1>10. CASE words # <<>> /\ one = <<"x">>
  <2>1. wants = {x} /\ code = "EXIT"
    BY <1>3, <1>10
  <2>2. Wanted(line) = <<asked(x)>> /\ Wanted(line) \in Seq(Requested)
    BY <1>8, <2>1
  <2>3. asked(x) = [code |-> "EXIT", arg |-> <<>>]
    OBVIOUS
  <2> QED BY <1>10, <2>1, <2>2, <2>3 DEF words, code
<1>11. CASE words # <<>> /\ one = <<"l">>
  <2>1. wants = {l} /\ code = "LS"
    BY <1>3, <1>11
  <2>2. Wanted(line) = <<asked(l)>> /\ Wanted(line) \in Seq(Requested)
    BY <1>8, <2>1
  <2>3. asked(l) = [code |-> "LS", arg |-> <<>>]
    OBVIOUS
  <2>4. Requests(words) = <<asked(l)>>
    BY <1>3, <2>1, <2>3
  <2> QED BY <1>11, <2>1, <2>2, <2>4 DEF words, code
<1>12. CASE words # <<>> /\ one = <<"g">>
  <2>1. code = "GET"
    BY <1>3, <1>12
  <2>2. CASE Len(words) > 1
    <3>1. wants = {g}
      BY <1>12, <2>2
    <3>2. Wanted(line) = <<asked(g)>> /\ Wanted(line) \in Seq(Requested)
      BY <1>8, <3>1
    <3>3. asked(g) = [code |-> "GET", arg |-> words[2]]
      OBVIOUS
    <3>4. Requests(words) = <<asked(g)>>
      BY <1>3, <2>1, <2>2, <3>3
    <3> QED BY <1>12, <2>1, <3>2, <3>4 DEF words, code
  <2>3. CASE ~ (Len(words) > 1)
    <3>1. wants = {}
      BY <1>12, <2>3
    <3>2. Requests(words) = <<>>
      BY <1>3, <2>1, <2>3
    <3> QED BY <1>7, <1>12, <2>1, <3>1, <3>2 DEF words, code
  <2> QED BY <2>2, <2>3
<1>13. CASE words # <<>> /\ one = <<"r">>
  <2>1. code = "RM"
    BY <1>3, <1>13
  <2>2. CASE Len(words) > 1
    <3>1. wants = {r}
      BY <1>13, <2>2
    <3>2. Wanted(line) = <<asked(r)>> /\ Wanted(line) \in Seq(Requested)
      BY <1>8, <3>1
    <3>3. asked(r) = IF flag THEN [code |-> "RMR", arg |-> words[3]]
                     ELSE [code |-> "RM", arg |-> words[2]]
      OBVIOUS
    <3>4. Requests(words) = <<asked(r)>>
      BY <1>3, <2>1, <2>2, <3>3
    <3> QED BY <1>13, <2>1, <3>2, <3>4 DEF words, code
  <2>3. CASE ~ (Len(words) > 1)
    <3>1. wants = {}
      BY <1>13, <2>3
    <3>2. Requests(words) = <<>>
      BY <1>3, <2>1, <2>3
    <3> QED BY <1>7, <1>13, <2>1, <3>1, <3>2 DEF words, code
  <2> QED BY <2>2, <2>3
<1>14. CASE /\ words # <<>>
            /\ one # <<"x">> /\ one # <<"l">> /\ one # <<"g">> /\ one # <<"r">>
  <2>1. wants = {} /\ code \in {"HOST", "ERROR"}
    BY <1>3, <1>14
  <2>2. Requests(words) = <<>>
    BY <1>3, <2>1
  <2> QED BY <1>7, <1>14, <2>1, <2>2 DEF words, code
<1> QED BY <1>9, <1>10, <1>11, <1>12, <1>13, <1>14 DEF words, code

\* Where a line that follows a line feed, or nothing, starts.
LEMMA LineStartIs ==
    ASSUME NEW text, NEW k \in Nat, NEW p \in 0..(k - 1), p = 0 \/ text[p] = "\n",
           \A j \in (p + 1)..(k - 1) : text[j] # "\n"
    PROVE  LineStart(text, k) = p + 1
<1> DEFINE Starts(l) == /\ l = 1 \/ text[l - 1] = "\n"
                        /\ \A j \in l..(k - 1) : text[j] # "\n"
           s == LineStart(text, k)
<1>1. p + 1 \in 1..k /\ Starts(p + 1)
  <2>1. p + 1 \in 1..k /\ (p + 1) - 1 = p /\ (p = 0 => p + 1 = 1)
    OBVIOUS
  <2> QED BY <2>1
<1>2. s \in 1..k /\ Starts(s)
  <2> HIDE DEF s
  <2>1. s = CHOOSE l \in 1..k : Starts(l)
    BY DEF s, LineStart
  <2> HIDE DEF Starts
  <2> QED BY <1>1, <2>1
<1> HIDE DEF s
<1>3. ~ (s < p + 1)
  <2> SUFFICES ASSUME s < p + 1 PROVE FALSE
    OBVIOUS
  <2>1. p \in s..(k - 1) /\ p # 0
    BY <1>2
  <2> QED BY <1>2, <2>1
<1>4. ~ (s > p + 1)
  <2> SUFFICES ASSUME s > p + 1 PROVE FALSE
    OBVIOUS
  <2>1. s - 1 \in (p + 1)..(k - 1) /\ s # 1
    BY <1>2
  <2> QED BY <1>2, <2>1
<1> QED BY <1>2, <1>3, <1>4 DEF s

Asks(f, text, n) ==
    f = [k \in 0..n |->
            IF k = 0 THEN <<>>
            ELSE IF text[k] = "\n"
            THEN Joined(f[k - 1], Wanted(SubSeq(text, LineStart(text, k), k - 1)))
            ELSE f[k - 1]]

LEMMA AsksExists ==
    ASSUME NEW text, NEW n \in Nat
    PROVE  \E f : Asks(f, text, n)
<1> DEFINE T == {d \in 0..n : \E f : Asks(f, text, d)}
           rest(h, k) == IF k = 0 THEN <<>>
                         ELSE IF text[k] = "\n"
                         THEN Joined(h[k - 1], Wanted(SubSeq(text, LineStart(text, k), k - 1)))
                         ELSE h[k - 1]
<1>1. 0 \in T
  <2>1. Asks([k \in 0..0 |-> <<>>], text, 0)
    BY DEF Asks
  <2> QED BY <2>1
<1>2. ASSUME NEW d \in 0..(n - 1), d \in T PROVE d + 1 \in T
  <2>1. PICK f : Asks(f, text, d)
    BY <1>2
  <2> DEFINE g == [k \in 0..(d + 1) |-> IF k = d + 1 THEN rest(f, k) ELSE f[k]]
  <2>2. f = [k \in 0..d |-> rest(f, k)]
    BY <2>1 DEF Asks
  <2>3. ASSUME NEW k \in 0..(d + 1) PROVE g[k] = rest(g, k)
    <3>1. k # 0 => k - 1 \in 0..(d + 1) /\ k - 1 # d + 1
      OBVIOUS
    <3>2. k # 0 => g[k - 1] = f[k - 1]
      <4> HIDE DEF rest
      <4> QED BY <3>1
    <3>3. k # d + 1 => k \in 0..d
      OBVIOUS
    <3>4. rest(f, k) = rest(g, k)
      <4> HIDE DEF g
      <4> QED BY <3>2
    <3>5. k # d + 1 => f[k] = rest(f, k)
      <4> HIDE DEF rest
      <4> QED BY <2>2, <3>3
    <3> HIDE DEF rest
    <3> QED BY <3>4, <3>5
  <2>4. Asks(g, text, d + 1)
    <3>1. g = [k \in 0..(d + 1) |-> g[k]]
      OBVIOUS
    <3> HIDE DEF g
    <3>2. g = [k \in 0..(d + 1) |-> rest(g, k)]
      <4> HIDE DEF rest
      <4> QED BY <2>3, <3>1
    <3> QED BY <3>2 DEF Asks
  <2> HIDE DEF g
  <2> QED BY <2>4
<1>3. n \in T
  <2> HIDE DEF T
  <2>1. 0..n \subseteq T
    BY <1>1, <1>2, Induction
  <2> QED BY <2>1
<1> QED BY <1>3

LEMMA AskedIs ==
    ASSUME NEW text \in Seq(STRING), NEW k \in 0..Len(text)
    PROVE  /\ k = 0 => Asked(text)[k] = <<>>
           /\ k # 0 /\ text[k] = "\n" =>
                Asked(text)[k] = Joined(Asked(text)[k - 1],
                                        Wanted(SubSeq(text, LineStart(text, k), k - 1)))
           /\ k # 0 /\ text[k] # "\n" => Asked(text)[k] = Asked(text)[k - 1]
<1> DEFINE n == Len(text)
           f == CHOOSE g : Asks(g, text, n)
           rest(j) == IF j = 0 THEN <<>>
                      ELSE IF text[j] = "\n"
                      THEN Joined(f[j - 1], Wanted(SubSeq(text, LineStart(text, j), j - 1)))
                      ELSE f[j - 1]
<1>0. n \in Nat
  OBVIOUS
<1>1. Asks(f, text, n)
  BY <1>0, AsksExists
<1>2. Asked(text) = f
  BY DEF Asked, Asks, Joined
<1> HIDE DEF f
<1>3. f = [j \in 0..n |-> rest(j)]
  BY <1>1 DEF Asks
<1>4. f[k] = rest(k)
  <2> HIDE DEF rest
  <2> QED BY <1>3
<1> QED BY <1>2, <1>4

\* A whole line: what it says is asked after all the lines before it.
LEMMA LineAsks ==
    ASSUME NEW text \in Seq(STRING), NEW p \in 0..Len(text), NEW k \in (p + 1)..Len(text),
           p = 0 \/ text[p] = "\n", text[k] = "\n",
           \A j \in (p + 1)..(k - 1) : text[j] # "\n"
    PROVE  Asked(text)[k] = Joined(Asked(text)[p], Wanted(SubSeq(text, p + 1, k - 1)))
<1> DEFINE m == k - 1 - p
           T == {d \in 0..m : Asked(text)[p + d] = Asked(text)[p]}
<1>0. /\ Len(text) \in Nat /\ p \in Nat /\ k \in Nat /\ m \in Nat /\ p + m = k - 1
      /\ k # 0 /\ k \in 0..Len(text) /\ p \in 0..(k - 1)
  OBVIOUS
<1>1. 0 \in T
  BY <1>0
<1>2. ASSUME NEW d \in 0..(m - 1), d \in T PROVE d + 1 \in T
  <2> DEFINE e == p + (d + 1)
  <2>1. e \in (p + 1)..(k - 1) /\ e \in 0..Len(text) /\ e # 0 /\ e - 1 = p + d
    BY <1>0
  <2> HIDE DEF e
  <2>2. Asked(text)[e] = Asked(text)[e - 1]
    BY <2>1, AskedIs
  <2>3. Asked(text)[e] = Asked(text)[p]
    BY <1>2, <2>1, <2>2
  <2> QED BY <1>0, <2>3 DEF e
<1>3. Asked(text)[k - 1] = Asked(text)[p]
  <2> HIDE DEF T, m
  <2>1. 0..m \subseteq T
    BY <1>0, <1>1, <1>2, Induction
  <2>2. m \in T
    BY <1>0, <2>1
  <2> QED BY <1>0, <2>2 DEF T
<1>4. LineStart(text, k) = p + 1
  BY <1>0, LineStartIs
<1>5. Asked(text)[k] = Joined(Asked(text)[k - 1],
                              Wanted(SubSeq(text, LineStart(text, k), k - 1)))
  BY <1>0, AskedIs
<1> QED BY <1>3, <1>4, <1>5

-----------------------------------------------------------------------------
(* What is written of the requests: all their codes, and the arguments of  *)
(* those that were accepted.                                               *)

LEMMA WrittenIs ==
    ASSUME NEW requests \in Seq(Requested), NEW places
    PROVE  /\ Written(requests, places) \in Seq(Requested)
           /\ Len(Written(requests, places)) = Len(requests)
           /\ \A k \in 1..Len(requests) :
                Written(requests, places)[k] =
                    [code |-> requests[k].code,
                     arg |-> IF k \in places THEN requests[k].arg ELSE <<>>]
<1> DEFINE one(k) == [code |-> requests[k].code,
                      arg |-> IF k \in places THEN requests[k].arg ELSE <<>>]
           n == Len(requests)
<1>1. n \in Nat /\ DOMAIN requests = 1..n /\ \A k \in 1..n : requests[k] \in Requested
  BY LenProperties
<1>2. ASSUME NEW k \in 1..n PROVE one(k) \in Requested
  <2>1. requests[k].code \in Codes /\ requests[k].arg \in Seq(STRING)
    BY <1>1 DEF Requested
  <2>2. <<>> \in Seq(STRING)
    BY EmptySeq
  <2> QED BY <2>1, <2>2 DEF Requested
<1>3. Written(requests, places) = [k \in 1..n |-> one(k)]
  BY <1>1 DEF Written
<1> HIDE DEF one, n
<1>4. Written(requests, places) \in [1..n -> Requested]
  BY <1>2, <1>3
<1>5. Written(requests, places) \in Seq(Requested) /\ Len(Written(requests, places)) = n
  BY <1>1, <1>4
<1> QED BY <1>3, <1>5 DEF one, n

\* A code is sent: its argument is not.
LEMMA WrittenCode ==
    ASSUME NEW requests \in Seq(Requested), NEW req \in Requested,
           NEW places \in SUBSET (1..Len(requests))
    PROVE  Written(Append(requests, req), places) =
                Append(Written(requests, places), [code |-> req.code, arg |-> <<>>])
<1> DEFINE more == Append(requests, req)
           n == Len(requests)
           old == Written(requests, places)
           new == Written(more, places)
           last == [code |-> req.code, arg |-> <<>>]
<1>1. /\ n \in Nat /\ more \in Seq(Requested) /\ Len(more) = n + 1
      /\ more[n + 1] = req /\ \A k \in 1..n : more[k] = requests[k]
  BY LenProperties, AppendProperties
<1>2. last \in Requested
  BY EmptySeq DEF Requested
<1> HIDE DEF last
<1>3. /\ old \in Seq(Requested) /\ Len(old) = n
      /\ \A k \in 1..n : old[k] = [code |-> requests[k].code,
                                  arg |-> IF k \in places THEN requests[k].arg ELSE <<>>]
  BY WrittenIs
<1> HIDE DEF old, more
<1>4. /\ new \in Seq(Requested) /\ Len(new) = n + 1
      /\ \A k \in 1..(n + 1) : new[k] = [code |-> more[k].code,
                                  arg |-> IF k \in places THEN more[k].arg ELSE <<>>]
  BY <1>1, WrittenIs
<1> HIDE DEF new
<1>5. /\ Append(old, last) \in Seq(Requested) /\ Len(Append(old, last)) = n + 1
      /\ Append(old, last)[n + 1] = last /\ \A k \in 1..n : Append(old, last)[k] = old[k]
  BY <1>2, <1>3, AppendProperties
<1>6. ASSUME NEW k \in 1..(n + 1) PROVE new[k] = Append(old, last)[k]
  <2>1. CASE k = n + 1
    <3>1. k \notin places
      BY <1>1, <2>1 DEF n
    <3> HIDE DEF n
    <3> QED BY <1>1, <1>4, <1>5, <2>1, <3>1 DEF last
  <2>2. CASE k # n + 1
    <3> HIDE DEF n
    <3>1. k \in 1..n
      BY <1>1, <2>2
    <3> QED BY <1>1, <1>3, <1>4, <1>5, <3>1
  <2> QED BY <2>1, <2>2
<1> HIDE DEF n
<1>7. new = Append(old, last)
  BY <1>1, <1>4, <1>5, <1>6, SeqEqual
<1> QED BY <1>7 DEF new, old, more, last

\* The last one is accepted: its argument is sent.
LEMMA WrittenArg ==
    ASSUME NEW requests \in Seq(Requested), NEW places, requests # <<>>
    PROVE  LET n == Len(requests) IN
           Written(requests, places \cup {n}) =
                [Written(requests, places) EXCEPT ![n].arg = requests[n].arg]
<1> DEFINE n == Len(requests)
           old == Written(requests, places)
           new == Written(requests, places \cup {n})
           put == [old EXCEPT ![n].arg = requests[n].arg]
<1>1. n \in Nat /\ n \in 1..n
  BY LenProperties, EmptySeq
<1>2. /\ old \in Seq(Requested) /\ Len(old) = n
      /\ \A k \in 1..n : old[k] = [code |-> requests[k].code,
                                  arg |-> IF k \in places THEN requests[k].arg ELSE <<>>]
  BY WrittenIs
<1>3. /\ new \in Seq(Requested) /\ Len(new) = n
      /\ \A k \in 1..n : new[k] = [code |-> requests[k].code,
                        arg |-> IF k \in places \cup {n} THEN requests[k].arg ELSE <<>>]
  BY WrittenIs
<1> HIDE DEF new, old, n
<1>4. DOMAIN old = 1..n /\ DOMAIN new = 1..n /\ old[n] = [old[n] EXCEPT !.arg = old[n].arg]
  BY <1>1, <1>2, <1>3, LenProperties
<1>5. ASSUME NEW k \in 1..n PROVE new[k] = put[k]
  <2>1. CASE k = n
    <3>1. put[n] = [old[n] EXCEPT !.arg = requests[n].arg]
      BY <1>1, <1>4
    <3>2. put[n] = [code |-> requests[n].code, arg |-> requests[n].arg]
      BY <1>1, <1>2, <3>1
    <3> QED BY <1>1, <1>3, <2>1, <3>2
  <2>2. CASE k # n
    <3>1. put[k] = old[k]
      BY <1>4, <2>2
    <3> QED BY <1>2, <1>3, <2>2, <3>1
  <2> QED BY <2>1, <2>2
<1>6. new = [k \in 1..n |-> new[k]] /\ put = [k \in 1..n |-> put[k]]
  <2>1. new = [k \in 1..n |-> new[k]] /\ old = [k \in 1..n |-> old[k]]
    BY <1>2, <1>3
  <2> DEFINE last == [old[n] EXCEPT !.arg = requests[n].arg]
  <2>2. put = [old EXCEPT ![n] = last]
    OBVIOUS
  <2> HIDE DEF last, put
  <2>3. put = [k \in 1..n |-> put[k]]
    BY <1>4, <2>2
  <2> QED BY <2>1, <2>3
<1>7. new = put
  <2> HIDE DEF put
  <2> QED BY <1>5, <1>6
<1> QED BY <1>7 DEF new, old, n

\* A line asks one thing at most.
LEMMA RequestsOne ==
    ASSUME NEW words, Requests(words) # <<>>
    PROVE  Requests(words) = <<Requests(words)[1]>>
  BY DEF Requests

-----------------------------------------------------------------------------
\* How much of the input is read, and what the lines read ask.
Read == Len(ftpTyped) - Len(ftpInput)
Told == Asked(ftpTyped)[Read]

\* As long as no line lacked its line feed and no second client reads: the
\* lines are taken one by one, and what all but the one being parsed ask was
\* sent; while the answer is awaited, the last of it was asked by cmd.
PromptInv ==
    ~ strayed =>
        /\ ftpTyped \in Seq(STRING) /\ cmd \in Seq(STRING)
        /\ Read \in 0..Len(ftpTyped)
        /\ ftpInput = SubSeq(ftpTyped, Read + 1, Len(ftpTyped))
        /\ Read = 0 \/ ftpTyped[Read] = "\n"
        /\ fathers = <<>> /\ accepted \subseteq 1..Len(sent)
        /\ asks # "parse" => Told \in Seq(Requested) /\ sent = Written(Told, accepted)
        /\ asks = "parse" =>
            \E requests \in Seq(Requested) :
                /\ sent = Written(requests, accepted)
                /\ Joined(requests, Wanted(cmd)) = Told
        /\ asks = "answer" => Asking # <<>> /\ Told # <<>> /\ Told[Len(Told)] = Asking[1]

LEMMA PromptInvInit == PromptInit => PromptInv
<1> SUFFICES ASSUME PromptInit PROVE PromptInv
  OBVIOUS
<1>1. /\ ftpTyped \in Seq(STRING) /\ cmd \in Seq(STRING) /\ ftpInput = ftpTyped
      /\ asks = "prompt" /\ fathers = <<>> /\ sent = <<>> /\ accepted = {}
  BY InputsAssumption DEF PromptInit
<1>2. Len(ftpTyped) \in Nat /\ Read = 0 /\ Read + 1 = 1
  BY <1>1 DEF Read
<1>3. ftpInput = SubSeq(ftpTyped, 1, Len(ftpTyped))
  BY <1>1, SubSeqFull
<1>4. Asked(ftpTyped)[0] = <<>>
  <2> DEFINE z == 0
  <2>1. z = 0 /\ z \in 0..Len(ftpTyped)
    BY <1>2
  <2> HIDE DEF z
  <2>2. Asked(ftpTyped)[z] = <<>>
    BY <1>1, <2>1, AskedIs
  <2> QED BY <2>1, <2>2
<1>5. Told = <<>> /\ Told \in Seq(Requested)
  BY <1>2, <1>4, EmptySeq DEF Told
<1>6. sent = Written(Told, accepted)
  BY <1>1, <1>5 DEF Written
<1> QED BY <1>1, <1>2, <1>3, <1>5, <1>6 DEF PromptInv

LEMMA ReadCmdStep == PromptInv /\ ReadCmd => PromptInv'
<1> SUFFICES ASSUME PromptInv, ReadCmd, ~ strayed' PROVE PromptInv'
  BY DEF PromptInv
<1> DEFINE n == Len(ftpTyped)
           piece == fgets(ftpInput, Len(ftpInput) + 2)
           p == Read
<1>1. /\ asks = "prompt" /\ asks' = "parse" /\ UNCHANGED <<ftpTyped, fathers, sent, accepted>>
      /\ ftpInput' = SubSeq(ftpInput, Len(piece) + 1, Len(ftpInput))
      /\ cmd' = no_endofline(IF piece = <<>> THEN cmd ELSE piece)
      /\ ~ strayed /\ Ends_line(piece)
  BY DEF ReadCmd
<1>2. /\ ftpTyped \in Seq(STRING) /\ Told \in Seq(Requested)
      /\ p \in 0..n /\ n \in Nat /\ ftpInput = SubSeq(ftpTyped, p + 1, n)
      /\ p = 0 \/ ftpTyped[p] = "\n"
      /\ fathers = <<>> /\ accepted \subseteq 1..Len(sent)
      /\ sent = Written(Told, accepted) /\ Told = Asked(ftpTyped)[p]
  BY <1>1 DEF PromptInv, Told
<1> HIDE DEF p, n
<1>3. /\ ftpInput \in Seq(STRING) /\ Len(ftpInput) = n - p
      /\ \A j \in 1..(n - p) : ftpInput[j] = ftpTyped[p + j]
  <2>1. \A j \in (p + 1)..n : ftpTyped[j] \in STRING
    BY <1>2 DEF n
  <2> DEFINE a == p + 1
             s == SubSeq(ftpTyped, a, n)
  <2>2. a \in Int /\ n \in Int /\ \A j \in a..n : ftpTyped[j] \in STRING
    BY <1>2, <2>1
  <2>3. n - a + 1 = n - p /\ (a <= n \/ n - p = 0) /\ \A j \in 1..(n - p) : a + j - 1 = p + j
    BY <1>2
  <2> HIDE DEF a
  <2>4. /\ s \in Seq(STRING) /\ Len(s) = (IF a <= n THEN n - a + 1 ELSE 0)
        /\ \A j \in 1..(n - a + 1) : s[j] = ftpTyped[a + j - 1]
    BY <2>2, SubSeqProperties
  <2>5. ftpInput = s
    BY <1>2 DEF a
  <2> HIDE DEF s
  <2> QED BY <1>2, <2>3, <2>4, <2>5
<1>4. PICK m \in 0..Len(ftpInput) :
        /\ piece = SubSeq(ftpInput, 1, m)
        /\ m = 0 <=> ftpInput = <<>>
        /\ \A j \in 1..(m - 1) : ftpInput[j] # "\n"
  <2> DEFINE z == Len(ftpInput) + 2
  <2>1. z \in Int
    BY <1>2, <1>3
  <2>2. piece = fgets(ftpInput, z)
    OBVIOUS
  <2> HIDE DEF z, piece
  <2> QED BY <1>3, <2>1, <2>2, FgetsReads
<1> HIDE DEF piece
<1>5. /\ piece \in Seq(STRING) /\ Len(piece) = m /\ \A j \in 1..m : piece[j] = ftpInput[j]
      /\ m \in 0..(n - p) /\ m \in Nat
  <2>1. \A j \in 1..m : ftpInput[j] \in STRING
    BY <1>2, <1>3
  <2>2. m \in Int
    BY <1>2, <1>3
  <2>3. /\ SubSeq(ftpInput, 1, m) \in Seq(STRING)
        /\ Len(SubSeq(ftpInput, 1, m)) = IF 1 <= m THEN m - 1 + 1 ELSE 0
        /\ \A j \in 1..(m - 1 + 1) : SubSeq(ftpInput, 1, m)[j] = ftpInput[1 + j - 1]
    BY <2>1, <2>2, SubSeqProperties
  <2> QED BY <1>2, <1>3, <1>4, <2>3
<1>6. piece # <<>> /\ m # 0 /\ piece[m] = "\n"
  <2>1. piece # <<>> /\ Last(piece) = "\n"
    BY <1>1 DEF Ends_line
  <2> QED BY <1>5, <2>1 DEF Last
<1> DEFINE k == p + m
<1>7. /\ k \in (p + 1)..n /\ ftpTyped[k] = "\n" /\ m \in 1..(n - p)
      /\ \A j \in (p + 1)..(k - 1) : ftpTyped[j] # "\n"
  <2>1. m \in 1..(n - p)
    BY <1>2, <1>5, <1>6
  <2>2. ftpTyped[k] = "\n"
    BY <1>3, <1>5, <1>6, <2>1
  <2>3. ASSUME NEW j \in (p + 1)..(k - 1) PROVE ftpTyped[j] # "\n"
    <3>1. j - p \in 1..(m - 1) /\ j - p \in 1..(n - p) /\ p + (j - p) = j
      BY <1>2, <2>1
    <3> QED BY <1>3, <1>4, <3>1
  <2> QED BY <1>2, <2>1, <2>2, <2>3
<1>8. /\ ftpInput' = SubSeq(ftpTyped, k + 1, n)
      /\ Len(ftpInput') = n - k
  <2>1. ftpInput' = SubSeq(ftpInput, m + 1, Len(ftpInput))
    BY <1>1, <1>5
  <2>2. CASE m = n - p
    <3>1. ftpInput' = <<>>
      BY <1>2, <1>3, <2>1, <2>2, SubSeqEmpty
    <3>2. SubSeq(ftpTyped, k + 1, n) = <<>>
      BY <1>2, <2>2, SubSeqEmpty
    <3> QED BY <1>2, <2>2, <3>1, <3>2
  <2>3. CASE m # n - p
    <3> DEFINE first == p + 1
               a == m + 1
               b == n - p
    <3>1. /\ first \in 1..Len(ftpTyped) /\ n \in 1..Len(ftpTyped)
          /\ a \in 1..(n - first + 1) /\ b \in 1..(n - first + 1)
          /\ first + a - 1 = k + 1 /\ first + b - 1 = n
      BY <1>2, <1>5, <2>3 DEF n
    <3>2. ftpInput' = SubSeq(SubSeq(ftpTyped, first, n), a, b)
      BY <1>2, <1>3, <2>1
    <3> HIDE DEF first, a, b, k
    <3>3. SubSeq(SubSeq(ftpTyped, first, n), a, b) = SubSeq(ftpTyped, first + a - 1, first + b - 1)
      BY <1>2, <3>1, SubSeqOfSubSeq
    <3>4. ftpInput' = SubSeq(ftpTyped, k + 1, n)
      BY <3>1, <3>2, <3>3
    <3>5. Len(ftpInput') = n - k
      <4> DEFINE c == k + 1
      <4>1. c \in Int /\ n \in Int /\ c <= n /\ n - c + 1 = n - k
        BY <1>2, <1>5, <1>7, <2>3 DEF k
      <4>2. \A j \in c..n : ftpTyped[j] \in STRING
        BY <1>2, <1>7, <4>1 DEF n
      <4> HIDE DEF c
      <4>3. Len(SubSeq(ftpTyped, c, n)) = IF c <= n THEN n - c + 1 ELSE 0
        BY <4>1, <4>2, SubSeqProperties
      <4> QED BY <3>4, <4>1, <4>3 DEF c
    <3> QED BY <3>4, <3>5
  <2> QED BY <2>2, <2>3
<1>9. cmd' = SubSeq(ftpTyped, p + 1, k - 1) /\ cmd' \in Seq(STRING)
  <2>1. cmd' = Front(piece)
    BY <1>1, <1>6 DEF no_endofline
  <2>2. cmd' = SubSeq(piece, 1, m - 1)
    BY <1>5, <2>1 DEF Front
  <2>3. /\ cmd' \in Seq(STRING) /\ Len(cmd') = m - 1
        /\ \A j \in 1..(m - 1) : cmd'[j] = piece[j]
    <3> DEFINE e == m - 1
    <3>1. e \in Nat /\ e - 1 + 1 = e /\ \A j \in 1..e : j \in 1..m /\ 1 + j - 1 = j
      BY <1>7, <1>5
    <3>2. \A j \in 1..e : piece[j] \in STRING
      BY <1>5, <3>1
    <3> HIDE DEF e
    <3>3. /\ SubSeq(piece, 1, e) \in Seq(STRING)
          /\ Len(SubSeq(piece, 1, e)) = IF 1 <= e THEN e - 1 + 1 ELSE 0
          /\ \A j \in 1..(e - 1 + 1) : SubSeq(piece, 1, e)[j] = piece[1 + j - 1]
      BY <3>1, <3>2, SubSeqProperties
    <3>4. cmd' = SubSeq(piece, 1, e)
      BY <2>2 DEF e
    <3>5. cmd' \in Seq(STRING) /\ Len(cmd') = e /\ \A j \in 1..e : cmd'[j] = piece[j]
      BY <3>1, <3>3, <3>4
    <3> QED BY <3>5 DEF e
  <2> DEFINE line == SubSeq(ftpTyped, p + 1, k - 1)
  <2>4. /\ line \in Seq(STRING) /\ Len(line) = m - 1
        /\ \A j \in 1..(m - 1) : line[j] = ftpTyped[p + j]
    <3> DEFINE a == p + 1
               b == k - 1
               e == m - 1
    <3>1. /\ a \in Int /\ b \in Int /\ e \in Nat /\ b - a + 1 = e /\ (a <= b <=> 1 <= e)
          /\ \A j \in 1..e : a + j - 1 = p + j
          /\ \A j \in a..b : j \in 1..Len(ftpTyped)
      BY <1>2, <1>5, <1>7 DEF n
    <3>2. \A j \in a..b : ftpTyped[j] \in STRING
      <4> HIDE DEF a, b
      <4> QED BY <1>2, <3>1, ElementOfSeq
    <3> HIDE DEF a, b, e
    <3>3. /\ SubSeq(ftpTyped, a, b) \in Seq(STRING)
          /\ Len(SubSeq(ftpTyped, a, b)) = IF a <= b THEN b - a + 1 ELSE 0
          /\ \A j \in 1..(b - a + 1) : SubSeq(ftpTyped, a, b)[j] = ftpTyped[a + j - 1]
      BY <3>1, <3>2, SubSeqProperties
    <3>4. line = SubSeq(ftpTyped, a, b)
      BY DEF a, b
    <3> HIDE DEF line
    <3>5. line \in Seq(STRING) /\ Len(line) = e /\ \A j \in 1..e : line[j] = ftpTyped[p + j]
      BY <3>1, <3>3, <3>4
    <3> QED BY <3>5 DEF e
  <2> HIDE DEF line
  <2>5. ASSUME NEW j \in 1..(m - 1) PROVE cmd'[j] = line[j]
    <3>1. j \in 1..m /\ j \in 1..(n - p)
      BY <1>2, <1>5
    <3> QED BY <1>3, <1>5, <2>3, <2>4, <3>1
  <2>6. cmd' = line
    BY <2>3, <2>4, <2>5, SeqEqual
  <2> QED BY <2>3, <2>6 DEF line
<1>10. Asked(ftpTyped)[k] = Joined(Asked(ftpTyped)[p], Wanted(SubSeq(ftpTyped, p + 1, k - 1)))
  <2>1. k \in (p + 1)..Len(ftpTyped) /\ p \in 0..Len(ftpTyped)
    BY <1>2, <1>7 DEF n
  <2> HIDE DEF k
  <2> QED BY <1>2, <1>7, <2>1, LineAsks
<1>11. Joined(Told, Wanted(cmd')) = Asked(ftpTyped)[k]
  BY <1>2, <1>9, <1>10
<1>12. Read' = k
  <2>1. ftpTyped' = ftpTyped /\ Len(ftpInput') = n - k
    BY <1>1, <1>8
  <2>2. Read' = n - (n - k)
    <3> HIDE DEF k
    <3> QED BY <2>1 DEF Read, n
  <2> QED BY <1>2, <1>5, <2>2
<1> HIDE DEF k
<1>13. k \in 0..n
  BY <1>2, <1>7
<1>14. Joined(Told, Wanted(cmd')) = Told'
  BY <1>1, <1>11, <1>12 DEF Told
<1> QED BY <1>1, <1>2, <1>7, <1>8, <1>9, <1>12, <1>13, <1>14 DEF PromptInv, n

\* A line is parsed: it asks nothing, or one thing, which is sent without its
\* argument.
LEMMA ParseStep ==
    ASSUME PromptInv, asks = "parse", ~ strayed', Exits \/ NothingToAsk \/ Execute \/ Host
    PROVE  PromptInv'
<1>1. /\ ~ strayed /\ UNCHANGED <<ftpTyped, ftpInput, accepted>>
      /\ Read' = Read /\ Told' = Told
  BY DEF Exits, NothingToAsk, Execute, Host, Read, Told
<1>2. /\ ftpTyped \in Seq(STRING) /\ cmd \in Seq(STRING) /\ Read \in 0..Len(ftpTyped)
      /\ ftpInput = SubSeq(ftpTyped, Read + 1, Len(ftpTyped))
      /\ Read = 0 \/ ftpTyped[Read] = "\n"
      /\ fathers = <<>> /\ accepted \subseteq 1..Len(sent)
  BY <1>1 DEF PromptInv
<1>3. PICK requests \in Seq(Requested) :
        sent = Written(requests, accepted) /\ Joined(requests, Wanted(cmd)) = Told
  BY <1>1 DEF PromptInv
<1>4. sent \in Seq(Requested) /\ Len(sent) = Len(requests) /\ Len(sent) \in Nat
  BY <1>3, WrittenIs, LenProperties
<1> DEFINE code == cmd_to_int(Words[1])
<1>5. /\ Wanted(cmd) \in Seq(Requested)
      /\ Words = <<>> => Wanted(cmd) = <<>>
      /\ Words # <<>> /\ code = "EXIT" => Wanted(cmd) = <<[code |-> "EXIT", arg |-> <<>>]>>
      /\ Words # <<>> /\ code = "HOST" => Wanted(cmd) = <<>>
      /\ Words # <<>> /\ code \notin {"EXIT", "HOST"} => Wanted(cmd) = Requests(Words)
  BY <1>2, WantedIs DEF Words
<1>6. Told \in Seq(Requested)
  BY <1>3, <1>5, ConcatProperties DEF Joined
\* Nothing is sent.
<1>7. ASSUME Wanted(cmd) = <<>> PROVE Told = requests /\ sent = Written(Told, accepted)
  BY <1>3, <1>7, ConcatEmptySeq DEF Joined
\* One code is.
<1>8. ASSUME NEW req \in Requested, Wanted(cmd) = <<req>>,
             sent' = Append(sent, [code |-> req.code, arg |-> <<>>])
      PROVE  /\ sent' = Written(Told, accepted) /\ accepted \subseteq 1..Len(sent')
             /\ Told # <<>> /\ Told[Len(Told)] = req
  <2>1. Told = Append(requests, req)
    BY <1>3, <1>8, AppendIsConcat DEF Joined
  <2>2. sent' = Written(Told, accepted)
    <3>1. accepted \in SUBSET (1..Len(requests))
      BY <1>2, <1>4
    <3> QED BY <1>3, <1>8, <2>1, <3>1, WrittenCode
  <2>3. Len(sent') = Len(requests) + 1 /\ Told # <<>> /\ Told[Len(Told)] = req
    <3>1. /\ Len(Append(requests, req)) = Len(requests) + 1
          /\ Append(requests, req) # <<>>
          /\ Append(requests, req)[Len(requests) + 1] = req
      BY AppendProperties
    <3>2. Len(sent') = Len(Told)
      BY <1>6, <2>2, WrittenIs
    <3> QED BY <2>1, <3>1, <3>2
  <2>4. accepted \subseteq 1..Len(sent')
    BY <1>2, <1>4, <2>3
  <2> QED BY <2>2, <2>3, <2>4
<1>9. CASE Exits
  <2> DEFINE e == [code |-> "EXIT", arg |-> <<>>]
  <2>1. Words # <<>> /\ code = "EXIT"
    BY <1>9 DEF Exits, Is
  <2>2. Wanted(cmd) = <<e>> /\ sent' = Append(sent, e)
    BY <1>5, <1>9, <2>1 DEF Exits
  <2>3. e \in Requested /\ [code |-> e.code, arg |-> <<>>] = e
    BY EmptySeq DEF Requested, Codes
  <2> HIDE DEF e
  <2>4. sent' = Written(Told, accepted) /\ accepted \subseteq 1..Len(sent')
    BY <1>8, <2>2, <2>3
  <2>5. asks' = "over" /\ UNCHANGED <<cmd, fathers>>
    BY <1>2, <1>9 DEF Exits, ClientEnds
  <2> QED BY <1>1, <1>2, <1>6, <2>4, <2>5 DEF PromptInv
<1>10. CASE NothingToAsk
  <2>1. /\ ~ (Words # <<>> /\ code = "EXIT") /\ ~ (Words # <<>> /\ code = "HOST")
        /\ Asking = <<>> /\ asks' = "prompt" /\ UNCHANGED <<cmd, fathers, sent>>
    BY <1>10 DEF NothingToAsk, Is
  <2>2. Wanted(cmd) = <<>>
    BY <1>5, <2>1 DEF Asking
  <2> QED BY <1>1, <1>2, <1>6, <1>7, <2>1, <2>2 DEF PromptInv
<1>11. CASE Execute
  <2>1. /\ ~ (Words # <<>> /\ code = "EXIT") /\ ~ (Words # <<>> /\ code = "HOST")
        /\ Asking # <<>>
        /\ sent' = Append(sent, [code |-> Asking[1].code, arg |-> <<>>])
    BY <1>11 DEF Execute, Is
  <2>2. Words # <<>> /\ Asking = Requests(Words)
    BY <2>1 DEF Asking
  <2> DEFINE req == Asking[1]
  <2>3. Wanted(cmd) = <<req>> /\ req \in Requested
    <3>1. Wanted(cmd) = Asking /\ Asking = <<Asking[1]>>
      BY <1>5, <2>1, <2>2, RequestsOne
    <3>2. Asking \in Seq(Requested) /\ 1 \in 1..Len(Asking)
      BY <1>5, <3>1
    <3> QED BY <3>1, <3>2, LenProperties
  <2>4. asks' \in {"prompt", "answer", "over"} /\ UNCHANGED <<cmd, fathers>>
    BY <1>2, <1>11 DEF Execute, ClientEnds
  <2>5. Asking' = Asking
    BY <2>4 DEF Asking, Words
  <2> HIDE DEF req
  <2>6. /\ sent' = Written(Told, accepted) /\ accepted \subseteq 1..Len(sent')
        /\ Told # <<>> /\ Told[Len(Told)] = req
    BY <1>8, <2>1, <2>3 DEF req
  <2> QED BY <1>1, <1>2, <1>6, <2>1, <2>4, <2>5, <2>6 DEF PromptInv, req
<1>12. CASE Host
  <2>1. Words # <<>> /\ code = "HOST" /\ asks' = "prompt" /\ UNCHANGED <<cmd, fathers, sent>>
    BY <1>12 DEF Host, Is
  <2> QED BY <1>1, <1>2, <1>5, <1>6, <1>7, <2>1 DEF PromptInv
<1> QED BY <1>9, <1>10, <1>11, <1>12

\* The slave accepts: the argument of the last request is sent.
LEMMA AcceptedStep ==
    ASSUME PromptInv, Accepted, ~ strayed'
    PROVE  PromptInv'
<1>1. /\ ~ strayed /\ asks = "answer" /\ UNCHANGED <<ftpTyped, ftpInput, cmd, fathers>>
      /\ sent' = [sent EXCEPT ![Len(sent)].arg = Asking[1].arg]
      /\ accepted' = accepted \cup {Len(sent)} /\ asks' \in {"prompt", "exchange"}
      /\ Read' = Read /\ Told' = Told
  BY DEF Accepted, Read, Told
<1>2. /\ Told \in Seq(Requested) /\ sent = Written(Told, accepted)
      /\ Told # <<>> /\ Told[Len(Told)] = Asking[1] /\ accepted \subseteq 1..Len(sent)
  BY <1>1 DEF PromptInv
<1>3. Len(sent) = Len(Told) /\ Len(Told) \in Nat /\ Len(Told) # 0
  BY <1>2, WrittenIs, LenProperties, EmptySeq
<1>4. sent' = Written(Told, accepted')
  BY <1>1, <1>2, <1>3, WrittenArg
<1>5. accepted' \subseteq 1..Len(sent')
  <2>1. Len(sent') = Len(Told)
    BY <1>2, <1>4, WrittenIs
  <2> QED BY <1>1, <1>2, <1>3, <2>1
<1> QED BY <1>1, <1>2, <1>4, <1>5 DEF PromptInv

LEMMA PromptInvStep == PromptInv /\ [PromptNext]_promptVars => PromptInv'
<1> SUFFICES ASSUME PromptInv, [PromptNext]_promptVars, ~ strayed' PROVE PromptInv'
  BY DEF PromptInv
<1>1. CASE UNCHANGED promptVars
  BY <1>1 DEF promptVars, PromptInv, Read, Told, Asking, Words
<1>2. CASE ReadCmd
  BY <1>2, ReadCmdStep
<1>3. CASE Exits \/ NothingToAsk \/ Execute \/ Host
  <2>1. asks = "parse"
    BY <1>3 DEF Exits, NothingToAsk, Execute, Host
  <2> QED BY <1>3, <2>1, ParseStep
<1>4. CASE Accepted
  BY <1>4, AcceptedStep
<1>5. CASE NotAccepted \/ Exchange
  <2>1. /\ asks \in {"answer", "exchange"} /\ ~ strayed
        /\ UNCHANGED <<ftpTyped, ftpInput, sent, accepted>> /\ Read' = Read /\ Told' = Told
    BY <1>5 DEF NotAccepted, Exchange, Read, Told
  <2>2. fathers = <<>>
    BY <2>1 DEF PromptInv
  <2>3. asks' \in {"prompt", "over"} /\ UNCHANGED <<cmd, fathers>>
    BY <1>5, <2>2 DEF NotAccepted, Exchange, ClientEnds
  <2> QED BY <2>1, <2>3 DEF PromptInv
<1> QED BY <1>1, <1>2, <1>3, <1>4, <1>5 DEF PromptNext

\* Whatever is typed and answered: as long as every line ends and no second
\* client reads, the slave is asked what the lines say, each once, in their
\* order, and given the arguments of what it accepts.
THEOREM SendsWhatIsTypedHolds == PromptSpec => []SendsWhatIsTyped
<1>1. PromptInit => PromptInv
  BY PromptInvInit
<1>2. PromptInv /\ [PromptNext]_promptVars => PromptInv'
  BY PromptInvStep
<1>3. PromptInv => SendsWhatIsTyped
  BY DEF PromptInv, SendsWhatIsTyped, Read, Told
<1> QED BY <1>1, <1>2, <1>3, PTL DEF PromptSpec
=============================================================================
