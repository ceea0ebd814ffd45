------------------------------- MODULE Tools -------------------------------
(***************************************************************************)
(* Two programs that print what the kernel tells them: TP2/cpufraction.c,  *)
(* the share of the CPU that a function had, and TP3/fileinfo.c, the type  *)
(* and the rights of a file.                                               *)
(*                                                                         *)
(* times() counts the ticks modulo Wrap (2^64 in the code): its value      *)
(* Wrap - 1 is the (clock_t)-1 that also tells of an error.                *)
(***************************************************************************)
EXTENDS Integers, Sequences, FiniteSets

CONSTANTS
    Wrap,       \* the ticks that times() can count
    MaxTicks    \* how long function_to_time may take

ASSUME ToolsAssumption == Wrap \in Nat /\ MaxTicks \in Nat /\ MaxTicks < Wrap

VARIABLES
    tool,       \* "cpufraction" or "fileinfo"
    tpc,        \* where it is; "failed" and "over" end it
    ticks,      \* the clock: since it started, not wrapped
    used,       \* the ticks the process was given, in both modes
    tcstart, tmstart, \* what the first times() returned
    tcend, tmend,     \* and the second
    st_mode,    \* the file, [type, rights]; rights has the nine low bits
    printed     \* what is displayed at the end

times_t == <<tcstart, tmstart, tcend, tmend>>
toolVars == <<tool, tpc, ticks, used, times_t, st_mode, printed>>

Nothing == [none |-> TRUE]

-----------------------------------------------------------------------------
(* cpufraction.                                                            *)

\* times(): the two counts, or an error.
Times == [tc |-> ticks % Wrap, tms |-> used]
ToldError(t) == t.tc = Wrap - 1

\* sysconf(_SC_CLK_TCK): an error, 0, or the ticks per second.
Sysconf ==
    /\ tool = "cpufraction" /\ tpc = "start"
    /\ tpc' \in {"failed", "begin"}
    /\ UNCHANGED <<tool, ticks, used, times_t, st_mode, printed>>

TimesStart ==
    /\ tpc = "begin"
    /\ \/ /\ ~ ToldError(Times)
          /\ tcstart' = Times.tc /\ tmstart' = Times.tms
          /\ tpc' = "function"
       \/ tpc' = "failed" /\ UNCHANGED <<tcstart, tmstart>>
    /\ UNCHANGED <<tool, ticks, used, tcend, tmend, st_mode, printed>>

\* function_to_time runs for some ticks, of which the process has a part.
FunctionRuns ==
    /\ tpc = "function"
    /\ \E elapsed \in 0..MaxTicks : \E cpu \in 0..elapsed :
        ticks' = ticks + elapsed /\ used' = used + cpu
    /\ tpc' = "end"
    /\ UNCHANGED <<tool, times_t, st_mode, printed>>

TimesEnd ==
    /\ tpc = "end"
    /\ \/ /\ ~ ToldError(Times)
          /\ tcend' = Times.tc /\ tmend' = Times.tms
          /\ tpc' = "check"
       \/ tpc' = "failed" /\ UNCHANGED <<tcend, tmend>>
    /\ UNCHANGED <<tool, ticks, used, tcstart, tmstart, st_mode, printed>>

Mut_Wrapped == tcend < tcstart
\* "tick time wrapped, or too small interval"
Wrapped == tcend <= tcstart

Fraction ==
    /\ tpc = "check"
    /\ IF Wrapped
       THEN tpc' = "failed" /\ UNCHANGED printed
       ELSE /\ tpc' = "over"
            /\ printed' = [cticks |-> tmend - tmstart, wall_clock_time |-> tcend - tcstart]
    /\ UNCHANGED <<tool, ticks, used, times_t, st_mode>>

-----------------------------------------------------------------------------
(* fileinfo.                                                               *)

\* The nine tests, in their order: the mask and the letter it shows.
Mut_Droits == <<<<256, "r">>, <<128, "w">>, <<64, "x">>, <<32, "r">>, <<16, "w">>,
                <<16, "x">>, <<4, "r">>, <<2, "w">>, <<1, "x">>>>
Droits == <<<<256, "r">>, <<128, "w">>, <<64, "x">>, <<32, "r">>, <<16, "w">>,
            <<8, "x">>, <<4, "r">>, <<2, "w">>, <<1, "x">>>>

Shows(type) ==
    CASE type = "REG" -> "fichier"
      [] type = "DIR" -> "repertoire"
      [] type = "CHR" -> "caractere"
      [] type = "BLK" -> "bloc"
      [] OTHER -> "autres"

\* No argument, a stat() that fails, or the file.
Fileinfo ==
    /\ tool = "fileinfo" /\ tpc = "start"
    /\ \/ tpc' = "failed" /\ UNCHANGED printed
       \/ /\ tpc' = "over"
          /\ printed' =
                [type |-> Shows(st_mode.type),
                 droits |-> [k \in DOMAIN Droits |->
                    IF (st_mode.rights \div Droits[k][1]) % 2 = 1
                    THEN Droits[k][2] ELSE "-"]]
    /\ UNCHANGED <<tool, ticks, used, times_t, st_mode>>

-----------------------------------------------------------------------------
\* A fifo, a socket; stat follows a symbolic link.
FileTypes == {"REG", "DIR", "CHR", "BLK", "FIFO", "SOCK"}
NoFile == [type |-> "REG", rights |-> 0]

ToolInit ==
    /\ tool \in {"cpufraction", "fileinfo"} /\ tpc = "start"
    /\ ticks \in IF tool = "cpufraction" THEN 0..(Wrap - 1) ELSE {0}
    /\ st_mode \in IF tool = "fileinfo" THEN [type : FileTypes, rights : 0..511] ELSE {NoFile}
    /\ used = 0 /\ tcstart = 0 /\ tmstart = 0 /\ tcend = 0 /\ tmend = 0
    /\ printed = Nothing

\* When another program runs.
ToolIdle ==
    /\ tool = "fileinfo" /\ tpc = "over" /\ ticks = 0 /\ st_mode = NoFile
    /\ used = 0 /\ tcstart = 0 /\ tmstart = 0 /\ tcend = 0 /\ tmend = 0
    /\ printed = Nothing

ToolNext == Sysconf \/ TimesStart \/ FunctionRuns \/ TimesEnd \/ Fraction \/ Fileinfo

ToolSpec == ToolInit /\ [][ToolNext]_toolVars

-----------------------------------------------------------------------------
(* Properties.                                                             *)

Printed == tpc = "over" /\ printed # Nothing

\* The rights whose bits, of weight 256 for the first, make st_mode.
Bit(k) == <<256, 128, 64, 32, 16, 8, 4, 2, 1>>[k]
Means(droits) ==
    {n \in 0..511 : \A k \in 1..9 :
        /\ droits[k] \in {"-", <<"r", "w", "x">>[1 + ((k - 1) % 3)]}
        /\ droits[k] # "-" <=> (n \div Bit(k)) % 2 = 1}

\* cpufraction.c:80: wherever the clock is when it starts, and however long
\* the function takes within one turn of it, a fraction that is displayed is
\* that of the time that really elapsed, never of zero or of a clock that has
\* wrapped.  fileinfo.c:36-78: the nine characters, read in their order, are
\* the rights of the file and of no other.
PrintsTheTruth ==
    Printed =>
        IF tool = "cpufraction"
        THEN /\ printed.wall_clock_time = ticks - tcstart
             /\ printed.wall_clock_time > 0
             /\ printed.cticks \in 0..printed.wall_clock_time
        ELSE Means(printed.droits) = {st_mode.rights}
=============================================================================
