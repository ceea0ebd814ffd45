------------------------------- MODULE Shell -------------------------------
(***************************************************************************)
(* SR/Projet/shell.c, with its SIGCHLD handler and jobs.c, and the earlier *)
(* SR/Projet/tst.c, which waits with waitpid: a line is read, its commands *)
(* are forked with the pipes between them, and the prompt comes back once  *)
(* the line is over.                                                       *)
(*                                                                         *)
(* The first line typed is any of FirstLines, the next one of NextLines;   *)
(* MaxLines are typed at most.  Keys Ctrl-C and Ctrl-Z at most are struck. *)
(* A fork may fail, once.                                                  *)
(*                                                                         *)
(* The arrays have their bounds.  What a line does that does not fit is    *)
(* nobody's guess: the shell then stands at "overrun" for good.            *)
(***************************************************************************)
EXTENDS Readcmd

CONSTANTS
    FirstLines, NextLines, MaxLines, Keys,
    MaxCmd,         \* MAX_CMD of jobs.h, and the places of tubes[10]
    MaxChars,       \* MAX_CHAR_CMD_LINE
    Junk,           \* characters before the first '\0' in what malloc returns
    Flavours        \* "shell", "tst"

ASSUME FlavoursAssumption == Flavours \subseteq {"shell", "tst"}
ASSUME ArraysAssumption == MaxCmd \in Nat \ {0} /\ MaxChars \in Nat /\ Junk \subseteq Nat
ASSUME LinesAssumption == FirstLines \cup NextLines \subseteq Seq(STRING)

VARIABLES
    flavour,    \* which of the two programs
    at,         \* where it is
    typedLine,  \* the line just read, until it is acted upon
    cmdline,    \* what readcmd returned: the static structure
    nlines,     \* lines read
    indice,     \* indice_jobs
    room,       \* entries of Tab_Jobs
    job,        \* the entry Tab_Jobs[indice]
    i,          \* the command of the line that is next, or the waits done
    kids,       \* the children, in the order of the forks
    chld,       \* SIGCHLD is pending
    struck,     \* keys struck
    unforked,   \* history: a fork has failed
    alone       \* history: every line so far was Alone

lineVars == <<typedLine, cmdline, nlines>>
jobVars == <<indice, room, job>>
shellVars == <<flavour, at, lineVars, jobVars, i, kids, chld, struck, unforked, alone>>

\* text: the characters in cmd.
NoJob == [background |-> FALSE, stopped |-> FALSE, finished |-> FALSE, text |-> 0]
NoLine == [err |-> FALSE, n |-> 0, exit |-> {}, text |-> <<>>,
           background |-> FALSE, literal |-> FALSE]

Kid == DOMAIN kids
\* The children of the line being executed.
MyKids == {k \in Kid : kids[k].line = nlines}
Alive(k) == kids[k].st \in {"forked", "run"}
Running_shell == at \notin {"aborted", "exited", "undefined", "overrun"}

-----------------------------------------------------------------------------
(* The lines.                                                              *)

\* What the code uses of the structure readcmd returns; text: the characters
\* that each command adds to cmd; literal: freecmd will free a literal of the
\* program.
CmdlineOf(line) ==
    LET words == split_in_words(readline(Append(line, "\n")).line)
        r == readcmd(words)
        text(w) == SubSeq(line, words[w].from, words[w].to)
    IN [err |-> r.s.err, n |-> Len(r.s.seq),
        exit |-> {c \in DOMAIN r.s.seq : text(r.s.seq[c][1]) = <<"x">>},
        text |-> [c \in DOMAIN r.s.seq |->
            (IF c = 1 THEN 0 ELSE 3) + MapThenSumSet(
                LAMBDA k : Len(text(r.s.seq[c][k])) + 1, DOMAIN r.s.seq[c])],
        background |-> r.s.background,
        literal |-> FreesLiteral(freecmd(r.s) \o r.freed, words)]

\* A line that shares the foreground with nothing: no '&' and, in shell.c, no
\* pipe.
Alone(c) == ~ c.background /\ (flavour = "shell" => c.n \in 0..1)

\* readcmd and the tests that follow it.  It first frees what it returned for
\* the previous line: abort, when that is a literal; an error frees at once.
\* shell.c reads l->seq[0], which is null, before it tests the error.
ReadLine ==
    /\ at = "prompt" /\ nlines < MaxLines
    /\ \E line \in IF nlines = 0 THEN FirstLines ELSE NextLines :
        LET c == CmdlineOf(line) IN
        /\ typedLine' = line
        /\ nlines' = nlines + 1
        /\ cmdline' = c
        /\ alone' = (alone /\ Alone(c))
        /\ at' = CASE cmdline.literal -> "aborted"
                   [] c.err /\ (flavour = "shell" \/ c.literal) -> "aborted"
                   [] c.err /\ flavour = "tst" /\ ~ c.literal -> "prompt"
                   [] ~ c.err /\ 1 <= c.n /\ flavour = "shell" -> "increment"
                   [] OTHER -> "tubes"
        /\ i' = 1
    /\ UNCHANGED <<flavour, jobVars, kids, chld, struck, unforked>>

\* Ctrl-D: shell.c reads l->seq[0] of the null l; tst.c exits.
EndOfInput ==
    /\ at = "prompt"
    /\ at' = IF flavour = "shell" \/ cmdline.literal THEN "aborted" ELSE "exited"
    /\ UNCHANGED <<flavour, lineVars, jobVars, i, kids, chld, struck, unforked, alone>>

-----------------------------------------------------------------------------
(* The job, in shell.c only.                                               *)

Increment ==
    /\ at = "increment"
    /\ indice' = indice + 1
    /\ job' = NoJob
    /\ at' = "realloc"
    /\ UNCHANGED <<flavour, lineVars, room, i, kids, chld, struck, unforked, alone>>

Realloc ==
    /\ at = "realloc"
    /\ room' = indice + 1
    /\ at' = "tubes"
    /\ UNCHANGED <<flavour, lineVars, indice, job, i, kids, chld, struck, unforked, alone>>

-----------------------------------------------------------------------------
(* The commands.                                                           *)

\* A tube for each command, in tubes[10].
OpenTubes ==
    /\ at = "tubes"
    /\ at' = IF cmdline.n <= MaxCmd THEN "fork" ELSE "overrun"
    /\ UNCHANGED <<flavour, lineVars, jobVars, i, kids, chld, struck, unforked, alone>>

\* l->seq[i] != 0
MoreCommands == i <= cmdline.n

\* "exit" ends the shell, in the middle of a pipe as well.
ExitCommand ==
    /\ at = "fork" /\ MoreCommands /\ i \in cmdline.exit
    /\ at' = "exited"
    /\ UNCHANGED <<flavour, lineVars, jobVars, i, kids, chld, struck, unforked, alone>>

\* The entry of the job is set before its first fork: strcat adds the command to
\* cmd, after what malloc left there.
InitJob ==
    /\ at = "fork" /\ MoreCommands /\ i \notin cmdline.exit
    /\ \/ flavour = "tst" /\ job' = job
       \/ flavour = "shell" /\ i # 1
          /\ job' = [job EXCEPT !.text = @ + cmdline.text[i]]
       \/ \E junk \in Junk :
            /\ flavour = "shell" /\ i = 1
            /\ job' = [NoJob EXCEPT !.background = cmdline.background,
                                   !.text = junk + cmdline.text[1]]
    /\ at' = IF flavour = "shell" /\ job'.text >= MaxChars THEN "overrun" ELSE "forking"
    /\ typedLine' = <<>>
    /\ UNCHANGED <<flavour, cmdline, nlines, indice, room, i, kids, chld, struck, unforked, alone>>

Fork_command ==
    /\ at = "forking"
    /\ \/ /\ kids' = Append(kids, [line |-> nlines, pos |-> i, st |-> "forked"])
          /\ UNCHANGED unforked
       \/ ~ unforked /\ unforked' = TRUE /\ UNCHANGED kids
    /\ at' = "close"
    /\ UNCHANGED <<flavour, lineVars, jobVars, i, chld, struck, alone>>

\* close(tubes[i][1])
CloseWritingEnd ==
    /\ at = "close"
    /\ i' = i + 1
    /\ at' = "fork"
    /\ UNCHANGED <<flavour, lineVars, jobVars, kids, chld, struck, unforked, alone>>

\* All commands are forked; close_pipe closes both ends of all tubes.
\* Tab_pid[length] = 0: an empty line of shell.c writes into the entry of the job
\* before, which is outside the table when there is none; after MAX_CMD commands
\* the place is that of background.
StartWait ==
    /\ at = "fork" /\ ~ MoreCommands
    /\ i' = 1
    /\ typedLine' = <<>>
    /\ at' = CASE flavour = "shell" /\ indice < 0 -> "undefined"
               [] flavour = "tst" /\ cmdline.background -> "prompt"
               [] OTHER -> "wait"
    /\ job' = IF flavour = "shell" /\ cmdline.n = MaxCmd
              THEN [job EXCEPT !.background = FALSE]
              ELSE job
    /\ UNCHANGED <<flavour, cmdline, nlines, indice, room, kids, chld, struck, unforked, alone>>

-----------------------------------------------------------------------------
(* Waiting.                                                                *)

\* shell.c: the loop around sleep(1).
LeaveLoop ==
    /\ at = "wait" /\ flavour = "shell"
    /\ job.finished \/ job.stopped \/ job.background
    /\ at' = "prompt"
    /\ UNCHANGED <<flavour, lineVars, jobVars, i, kids, chld, struck, unforked, alone>>

Mut_OneWaitTooFew == i < cmdline.n
\* The loop over l->seq, at its next command.
MoreWaits == MoreCommands

\* tst.c: one waitpid(-1) for each command, which fails without children.
WaitChild_tst ==
    /\ at = "wait" /\ flavour = "tst" /\ MoreWaits
    /\ \/ \E k \in Kid : /\ kids[k].st = "zombie"
                         /\ kids' = [kids EXCEPT ![k].st = "gone"]
       \/ (\A k \in Kid : kids[k].st = "gone") /\ UNCHANGED kids
    /\ i' = i + 1
    /\ UNCHANGED <<flavour, at, lineVars, jobVars, chld, struck, unforked, alone>>

LeaveWaits ==
    /\ at = "wait" /\ flavour = "tst" /\ ~ MoreWaits
    /\ at' = "prompt"
    /\ UNCHANGED <<flavour, lineVars, jobVars, i, kids, chld, struck, unforked, alone>>

Mut_FinishedForgotten(st) == st = "stop"
\* handler_child: whichever child it was, the job of the last line is over.
MarksFinished(st) == TRUE

\* One waitpid(-1, WNOHANG|WUNTRACED) for all the SIGCHLD since the last, at
\* any point of the shell, which runs the handler to its end.
handler_child ==
    /\ flavour = "shell" /\ chld /\ Running_shell
    /\ chld' = FALSE
    /\ \E k \in Kid :
        /\ kids[k].st \in {"zombie", "stop"}
        /\ kids' = [kids EXCEPT ![k].st = IF @ = "stop" THEN "stopped" ELSE "gone"]
        /\ job' = [job EXCEPT !.stopped = @ \/ kids[k].st = "stop",
                             !.finished = @ \/ MarksFinished(kids[k].st)]
    /\ at' = IF indice < room THEN at ELSE "undefined"
    /\ UNCHANGED <<flavour, lineVars, indice, room, i, struck, unforked, alone>>

-----------------------------------------------------------------------------
(* The children.                                                           *)

\* dup2, close_pipe and execvp.
Exec(k) ==
    /\ kids[k].st = "forked"
    /\ kids' = [kids EXCEPT ![k].st = "run"]
    /\ UNCHANGED <<flavour, at, lineVars, jobVars, i, chld, struck, unforked, alone>>

Mut_ChildKeepsCopies(st) == st \in {"forked", "run"}
\* A child holds all the tubes until its close_pipe.
HoldsCopies(st) == st = "forked"

\* Who still holds the writing end of the pipe that command k reads: the
\* command before it, any child that has not closed its copies yet, and the
\* shell until it has forked the one before k.
InputOpen(k) ==
    /\ kids[k].pos > 1
    /\ \/ \E j \in Kid :
            /\ kids[j].line = kids[k].line
            /\ \/ HoldsCopies(kids[j].st)
               \/ kids[j].pos = kids[k].pos - 1 /\ kids[j].st \in {"run", "stop", "stopped"}
       \/ kids[k].line = nlines /\ at \in {"forking", "close"} /\ i < kids[k].pos

\* A command ends, at its own time, once what it reads is over.
CommandEnds(k) ==
    /\ kids[k].st = "run" /\ ~ InputOpen(k)
    /\ kids' = [kids EXCEPT ![k].st = "zombie"]
    /\ chld' = (flavour = "shell")
    /\ UNCHANGED <<flavour, at, lineVars, jobVars, i, struck, unforked, alone>>

\* The commands have the shell's process group: all get the key, the shell
\* ignores it, as a child does until it executes its command.
Strike(st) ==
    /\ struck < Keys /\ Running_shell
    /\ struck' = struck + 1
    /\ \E k \in Kid : kids[k].st = "run"
    /\ kids' = [k \in Kid |->
            IF kids[k].st = "run" THEN [kids[k] EXCEPT !.st = st] ELSE kids[k]]
    /\ chld' = (flavour = "shell")
    /\ UNCHANGED <<flavour, at, lineVars, jobVars, i, unforked, alone>>

CtrlC_key == Strike("zombie")
CtrlZ_key == Strike("stop")

-----------------------------------------------------------------------------
ShellInit ==
    /\ flavour \in Flavours
    /\ at = "prompt"
    /\ typedLine = <<>> /\ cmdline = NoLine /\ nlines = 0
    /\ indice = -1 /\ room = 1 /\ job = NoJob
    /\ i = 1 /\ kids = <<>> /\ chld = FALSE
    /\ struck = 0 /\ unforked = FALSE /\ alone = TRUE

\* When another program runs.
ShellIdle ==
    /\ flavour = "tst" /\ at = "exited"
    /\ typedLine = <<>> /\ cmdline = NoLine /\ nlines = 0
    /\ indice = -1 /\ room = 1 /\ job = NoJob
    /\ i = 1 /\ kids = <<>> /\ chld = FALSE
    /\ struck = 0 /\ unforked = FALSE /\ alone = TRUE

\* The shell, after a line was typed.
Work ==
    \/ Increment \/ Realloc \/ OpenTubes \/ ExitCommand \/ InitJob \/ Fork_command
    \/ CloseWritingEnd \/ StartWait \/ LeaveLoop \/ WaitChild_tst \/ LeaveWaits

KidSteps(k) == Exec(k) \/ CommandEnds(k)

ShellNext ==
    \/ ReadLine \/ EndOfInput \/ Work \/ handler_child
    \/ (\E k \in Kid : KidSteps(k)) \/ CtrlC_key \/ CtrlZ_key

\* The shell and its commands run (a command has two steps at most), SIGCHLD
\* is delivered; nobody has to type.
ShellFair ==
    /\ WF_shellVars(Work) /\ WF_shellVars(handler_child)
    /\ WF_shellVars(\E k \in Kid : KidSteps(k))

ShellSpec == ShellInit /\ [][ShellNext]_shellVars /\ ShellFair
-----------------------------------------------------------------------------
(* Properties.                                                             *)

\* readcmd.c: what is typed is split and owned as it should, whatever it is.
LineWords == SplitsInWords(typedLine) /\ ReadsOneLine(Append(typedLine, "\n"))

\* readcmd.c:194-281, readcmd.c:144: no word is freed twice nor lost, on any
\* path, and no literal is freed unless a redirection is followed by an
\* operator or an '&' comes after the error.
WordsOwnedOnce == OwnsWords(typedLine)

WaitsForJob ==
    /\ flavour = "shell" /\ at = "wait"
    /\ ~ job.finished /\ ~ job.stopped /\ ~ job.background

\* shell.c:219: while the loop around sleep waits for the job, something will
\* end the wait: one of the job's commands is alive, or a SIGCHLD is on its
\* way; none was lost between the fork and the loop, nor merged away.  (Of a
\* fork that fails nobody will ever tell the loop.)
NoLostChild ==
    WaitsForJob /\ ~ unforked => chld \/ \E k \in MyKids : Alive(k)

\* As long as no line had an '&', or in shell.c a pipe, the prompt comes back
\* with no command alive, and the handler never writes outside the table
\* (shell.c:83, :243).
ForegroundAlone ==
    alone =>
        /\ at = "prompt" => \A k \in Kid : ~ Alive(k)
        /\ at = "undefined" => indice < 0

\* shell.c:219, "on attend tant que la commande ne s'est pas entierement
\* terminee": at the prompt no command of a foreground line is alive.
ForegroundWaited ==
    at = "prompt" /\ flavour = "shell" /\ ~ cmdline.background =>
        \A k \in MyKids : ~ Alive(k)

\* The wait for a line ends: its pipes are closed by all who hold them, its
\* children are reaped or reported.  Not when a fork failed; tst.c waits for a
\* command that Ctrl-Z has stopped (tst.c:172 has no WUNTRACED).
PromptReturns ==
    at = "wait" ~>
        \/ at # "wait"
        \/ unforked
        \/ flavour = "tst" /\ \E k \in Kid : kids[k].st = "stop"
=============================================================================
