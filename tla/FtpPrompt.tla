----------------------------- MODULE FtpPrompt -----------------------------
(***************************************************************************)
(* The prompt of the FTP client (client.c:89-328) with parse.c: what the   *)
(* user types, and which commands go to the slave for it.  What follows in *)
(* the exchange that a command starts is FtpSession's.                     *)
(*                                                                         *)
(* Names of commands are one character: "x" for exit, quit and bye, "l"    *)
(* for ls and pwd, "g" for get, put, cd and mkdir, "r" for rm, "h" for     *)
(* host; "-" stands for "-r", "a" and all longer words for the rest.       *)
(* At the end of the input fgets fails and leaves cmd[] as it was: the     *)
(* loop goes on with it.  The input is a terminal: a process has in its    *)
(* buffer no more than the line it reads, so that a client and the copy    *)
(* of it that HOST may leave take the lines from one another.              *)
(***************************************************************************)
EXTENDS Readcmd

CONSTANTS
    Inputs,     \* what the user may type, in lines shorter than cmd[]
    Garbage     \* what cmd[], which nothing initialises, may hold at first

ASSUME InputsAssumption == Inputs \cup Garbage \subseteq Seq(STRING)

VARIABLES
    ftpTyped,   \* the whole input
    ftpInput,   \* what is left of it
    cmd,        \* cmd[], up to its '\0'
    asks,       \* where the process that reads is: at the "prompt", in "parse",
                \* waiting for the "answer" to a code, in the "exchange", "over"
    fathers,    \* cmd[] of the processes that wait for it in HOST
    sent,       \* history: what was written to the slave, [code, arg]
    accepted,   \* history: the places in sent whose code the slave answered OK
    strayed     \* history: fgets had no whole line, or execvp failed

promptVars == <<ftpTyped, ftpInput, cmd, asks, fathers, sent, accepted, strayed>>

-----------------------------------------------------------------------------
Mut_no_endofline(s) == s
\* The last character goes, whatever it is.
no_endofline(s) == IF s = <<>> THEN s ELSE Front(s)

cmd_to_int(word) ==
    CASE word = <<"x">> -> "EXIT"
      [] word = <<"l">> -> "LS"
      [] word = <<"g">> -> "GET"
      [] word = <<"r">> -> "RM"
      [] word = <<"h">> -> "HOST"
      [] OTHER -> "ERROR"

\* split_in_words of parse.c, with the text of the words.
cmd_parsed(s) ==
    LET words == split_in_words(s) IN
    [w \in DOMAIN words |-> SubSeq(s, words[w].from, words[w].to)]

\* What the switch may write for a line, EXIT and HOST aside: the code, then the
\* argument; nothing without the argument the command takes.
Requests(words) ==
    LET code == cmd_to_int(words[1])
        ask(c, arg) == <<[code |-> c, arg |-> arg]>>
    IN CASE code = "LS" -> ask(code, <<>>)
         [] code = "GET" /\ Len(words) > 1 -> ask(code, words[2])
         [] code = "RM" /\ Len(words) > 1 ->
                IF words[2] = <<"-">> /\ Len(words) > 2
                THEN ask("RMR", words[3]) ELSE ask(code, words[2])
         [] OTHER -> <<>>

-----------------------------------------------------------------------------
Words == cmd_parsed(cmd)
Is(code) == Words # <<>> /\ cmd_to_int(Words[1]) = code

\* fgets and no_endofline.
ReadCmd ==
    /\ asks = "prompt"
    /\ LET got == fgets(ftpInput, Len(ftpInput) + 2) IN
        /\ ftpInput' = SubSeq(ftpInput, Len(got) + 1, Len(ftpInput))
        /\ cmd' = no_endofline(IF got = <<>> THEN cmd ELSE got)
        /\ strayed' = (strayed \/ ~ Ends_line(got))
    /\ asks' = "parse"
    /\ UNCHANGED <<ftpTyped, fathers, sent, accepted>>

\* exit(0), or SIGPIPE: the father that waits for it in HOST goes on.
ClientEnds ==
    IF fathers = <<>>
    THEN asks' = "over" /\ UNCHANGED <<cmd, fathers>>
    ELSE asks' = "prompt" /\ cmd' = Last(fathers) /\ fathers' = Front(fathers)

Exits ==
    /\ asks = "parse" /\ Is("EXIT")
    /\ sent' = Append(sent, [code |-> "EXIT", arg |-> <<>>])
    /\ ClientEnds
    /\ UNCHANGED <<ftpTyped, ftpInput, accepted, strayed>>

Asking == IF Words = <<>> THEN <<>> ELSE Requests(Words)

\* An empty or an unknown command, or one without its argument.
NothingToAsk ==
    /\ asks = "parse" /\ ~ Is("EXIT") /\ ~ Is("HOST") /\ Asking = <<>>
    /\ asks' = "prompt"
    /\ UNCHANGED <<ftpTyped, ftpInput, cmd, fathers, sent, accepted, strayed>>

\* The other commands of the switch: the code, to a slave that may be gone.  LS
\* and PWD then read what comes, whatever it is.
Execute ==
    /\ asks = "parse" /\ ~ Is("EXIT") /\ ~ Is("HOST") /\ Asking # <<>>
    /\ sent' = Append(sent, [code |-> Asking[1].code, arg |-> <<>>])
    /\ \/ /\ asks' = IF Is("LS") THEN "prompt" ELSE "answer"
          /\ UNCHANGED <<cmd, fathers>>
       \/ ClientEnds
    /\ UNCHANGED <<ftpTyped, ftpInput, accepted, strayed>>

\* OK: the argument follows.
Accepted ==
    /\ asks = "answer"
    /\ sent' = [sent EXCEPT ![Len(sent)].arg = Asking[1].arg]
    /\ accepted' = accepted \cup {Len(sent)}
    /\ asks' = IF Is("RM") THEN "prompt" ELSE "exchange"
    /\ UNCHANGED <<ftpTyped, ftpInput, cmd, fathers, strayed>>

\* Any other answer: back to the prompt; no answer in time: exit(0).
NotAccepted ==
    /\ asks = "answer"
    /\ \/ asks' = "prompt" /\ UNCHANGED <<cmd, fathers>>
       \/ ClientEnds
    /\ UNCHANGED <<ftpTyped, ftpInput, sent, accepted, strayed>>

\* The rest of GET and PUT, well or not; CD and MKDIR are over.
Exchange ==
    /\ asks = "exchange"
    /\ \/ asks' = "prompt" /\ UNCHANGED <<cmd, fathers>>
       \/ ClientEnds
    /\ UNCHANGED <<ftpTyped, ftpInput, sent, accepted, strayed>>

\* The father waits for a child that runs the command; a child whose execvp
\* fails is a second client, on the same terminal and the same connection.
Host ==
    /\ asks = "parse" /\ Is("HOST")
    /\ \/ UNCHANGED <<fathers, strayed>>
       \/ /\ Len(Words) > 1
          /\ fathers' = Append(fathers, cmd) /\ strayed' = TRUE
    /\ asks' = "prompt"
    /\ UNCHANGED <<ftpTyped, ftpInput, cmd, sent, accepted>>

-----------------------------------------------------------------------------
PromptInit ==
    /\ ftpTyped \in Inputs /\ ftpInput = ftpTyped
    /\ cmd \in Garbage
    /\ asks = "prompt" /\ fathers = <<>> /\ sent = <<>>
    /\ accepted = {} /\ strayed = FALSE

\* When another program runs.
PromptIdle ==
    /\ ftpTyped = <<>> /\ ftpInput = <<>>
    /\ cmd = <<>> /\ asks = "over" /\ fathers = <<>> /\ sent = <<>>
    /\ accepted = {} /\ strayed = FALSE

PromptNext ==
    \/ ReadCmd \/ Exits \/ NothingToAsk \/ Execute \/ Accepted \/ NotAccepted
    \/ Exchange \/ Host
PromptSpec == PromptInit /\ [][PromptNext]_promptVars

-----------------------------------------------------------------------------
\* What a line asks of the slave: its first word says how many others it
\* needs, and the last one needed is the argument.
Wanted(line) ==
    LET words == cmd_parsed(line)
        flag == Len(words) > 2 /\ words[2] = <<"-">>
        wants == {w \in {[name |-> <<"x">>, code |-> "EXIT", needs |-> 0],
                         [name |-> <<"l">>, code |-> "LS", needs |-> 0],
                         [name |-> <<"g">>, code |-> "GET", needs |-> 1],
                         [name |-> <<"r">>, code |-> IF flag THEN "RMR" ELSE "RM",
                          needs |-> IF flag THEN 2 ELSE 1]} :
                    words # <<>> /\ w.name = words[1] /\ w.needs < Len(words)}
    IN SetToSeq({[code |-> w.code,
                  arg |-> IF w.needs = 0 THEN <<>> ELSE words[w.needs + 1]] : w \in wants})

\* What a text asks up to each of its characters: a line feed ends a line.
LineStart(text, k) ==
    CHOOSE l \in 1..k : /\ l = 1 \/ text[l - 1] = "\n"
                       /\ \A j \in l..(k - 1) : text[j] # "\n"
Asked(text) ==
    LET asked[k \in 0..Len(text)] ==
            IF k = 0 THEN <<>>
            ELSE IF text[k] = "\n"
            THEN asked[k - 1] \o Wanted(SubSeq(text, LineStart(text, k), k - 1))
            ELSE asked[k - 1]
    IN asked

\* What a slave is sent that accepts those of the requests: the others are
\* sent without their argument.
Written(requests, places) ==
    [k \in DOMAIN requests |->
        [code |-> requests[k].code,
         arg |-> IF k \in places THEN requests[k].arg ELSE <<>>]]

\* As long as every line ends with a line feed and no HOST leaves a second
\* client, the slave is asked what the lines taken say, each once, in their
\* order, and gets the argument of those it accepted and of no others
\* (client.c:93-283).  At the end of the input the last line is run
\* again, one character shorter (client.c:93), which this does not promise.
SendsWhatIsTyped ==
    ~ strayed /\ asks # "parse" =>
        sent = Written(Asked(ftpTyped)[Len(ftpTyped) - Len(ftpInput)], accepted)
=============================================================================
