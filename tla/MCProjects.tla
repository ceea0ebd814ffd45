----------------------------- MODULE MCProjects -----------------------------
(***************************************************************************)
(* The two projects, the shell and the FTP server, as far as each part is  *)
(* small: in each initial state one of the shells starts, or the FTP's     *)
(* processes do, or the prompt of the FTP client, or one client's download,*)
(* or the program of Wrapped, alone.                                       *)
(***************************************************************************)
EXTENDS Shell, FtpStartup, FtpPrompt, Wrapped, FtpTransfer

allVars == <<shellVars, startupVars, promptVars, callVars, vars>>

\* Every line of four characters at most: a letter, the word exit, a blank
\* and the operators ('>' is like '<'); and pipes of three and four commands, as
\* many as the arrays have places, and one more.
MCFirstLines ==
    UNION {[1..n -> {"a", "x", " ", "<", "|", "&"}] : n \in 0..4}
        \cup {<<"a", "|", "a", "|", "a">>, <<"a", "|", "a", "|", "a", "&">>,
              <<"a", "|", "a", "|", "a", "|", "a">>}

\* a; a|a; a &; an empty line.
MCNextLines == {<<"a">>, <<"a", "|", "a">>, <<"a", " ", "&">>, <<>>}

\* Two lines of every kind, of which one may lack its line feed, and three of
\* those that ask for something.
MCLines ==
    {<<"l", "\n">>, <<"g", " ", "a", "\n">>, <<"g", "\n">>,
     <<"r", " ", "-", " ", "a", "\n">>, <<"r", " ", "-", "\n">>, <<"\n">>,
     <<"a", "\n">>, <<"h", " ", "a", "\n">>, <<"h", "\n">>, <<"x", "\n">>,
     <<"r", " ", "a", "a">>}
MCRequests ==
    {<<"l", "\n">>, <<"g", " ", "a", "\n">>, <<"r", " ", "-", " ", "a", "\n">>}
MCInputs ==
    {a \o b : a, b \in MCLines} \cup {a \o b \o c : a, b, c \in MCRequests}
MCGarbage == {<<>>, <<"l", "a">>}

MCInit ==
    \/ ShellInit /\ StartupIdle /\ PromptIdle /\ CallIdle /\ TransferIdle
    \/ ShellIdle /\ StartupInit /\ PromptIdle /\ CallIdle /\ TransferIdle
    \/ ShellIdle /\ StartupIdle /\ PromptInit /\ CallIdle /\ TransferIdle
    \/ ShellIdle /\ StartupIdle /\ PromptIdle /\ CallInit /\ TransferIdle
    \/ ShellIdle /\ StartupIdle /\ PromptIdle /\ CallIdle /\ Init

MCNext ==
    \/ ShellNext /\ UNCHANGED <<startupVars, promptVars, callVars, vars>>
    \/ StartupNext /\ UNCHANGED <<shellVars, promptVars, callVars, vars>>
    \/ PromptNext /\ UNCHANGED <<shellVars, startupVars, callVars, vars>>
    \/ CallNext /\ UNCHANGED <<shellVars, startupVars, promptVars, vars>>
    \/ Next /\ UNCHANGED <<shellVars, startupVars, promptVars, callVars>>

MCSpec ==
    MCInit /\ [][MCNext]_allVars /\ ShellFair /\ StartupFair /\ Fairness
=============================================================================
