------------------------------- MODULE Csapp -------------------------------
(***************************************************************************)
(* The wrappers of csapp.c: each makes one call, and ends the process when *)
(* the call has failed.  Calls tell of a failure in different ways, so the *)
(* wrappers differ by the results they take for one, and by where they     *)
(* look for its cause.                                                     *)
(*                                                                         *)
(* A result is "fine", "negative" (-1), "minus_two", "zero", "code" (an    *)
(* error number, of either sign), "system" (EAI_SYSTEM, from getaddrinfo), *)
(* "null", "null_eof" and "short_eof" (the end of a stream), "short" or    *)
(* "map_failed".                                                           *)
(*                                                                         *)
(* What a program makes of the wrappers is in Wrapped.                     *)
(***************************************************************************)
EXTENDS Integers

\* All five print and call exit(0): the parent sees a success.
error_status == [f \in {"unix_error", "posix_error", "dns_error",
                        "new_dns_error", "app_error"} |-> 0]

\* A wrapper: the results it takes for failures, with what it calls then.
Fails(results, error) == [r \in results |-> error]
Negative == Fails({"negative"}, "unix_error")
Null == Fails({"null"}, "unix_error")
NotZero(error) == Fails({"code", "negative", "system"}, error)
Unchecked == Fails({}, "unix_error")

ProcessControl ==
    [Fork |-> Negative, Execve |-> Negative, Wait |-> Negative,
     Waitpid |-> Negative, Kill |-> Negative, Pause |-> Unchecked,
     Sleep |-> Unchecked, Alarm |-> Unchecked, Setpgid |-> Negative,
     Getpgrp |-> Unchecked]

SignalHandling ==
    [Signal |-> Negative, Sigprocmask |-> Negative, Sigemptyset |-> Negative,
     Sigfillset |-> Negative, Sigaddset |-> Negative, Sigdelset |-> Negative,
     Sigismember |-> Negative]

UnixIO ==
    [Open |-> Negative, Read |-> Negative, Write |-> Negative,
     Lseek |-> Negative, Close |-> Negative, Select |-> Negative,
     Dup2 |-> Negative, Stat |-> Negative, Fstat |-> Negative]

Memory ==
    [Mmap |-> Fails({"map_failed"}, "unix_error"), Munmap |-> Negative,
     Malloc |-> Null, Realloc |-> Null, Calloc |-> Null, Free |-> Unchecked]

\* ferror() tells the end of a stream from an error.
StandardIO ==
    [Fclose |-> NotZero("unix_error"), Fdopen |-> Null,
     Fgets |-> Fails({"null"}, "app_error"), Fopen |-> Null,
     Fputs |-> Negative, Fread |-> Fails({"short"}, "unix_error"),
     Fwrite |-> Fails({"short", "short_eof"}, "unix_error")]

Sockets ==
    [Socket |-> Negative, Setsockopt |-> Negative, Bind |-> Negative,
     Listen |-> Negative, Accept |-> Negative, Connect |-> Negative]

Dns ==
    [Gethostbyname |-> Fails({"null"}, "dns_error"),
     Gethostbyaddr |-> Fails({"null"}, "dns_error"),
     Getaddrinfo |-> NotZero("new_dns_error"),
     Getnameinfo |-> NotZero("new_dns_error")]

Mut_PthreadFails == NotZero("unix_error")
\* if ((rc = pthread_...) != 0)
PthreadFails == NotZero("posix_error")

Pthreads ==
    [Pthread_create |-> PthreadFails, Pthread_cancel |-> PthreadFails,
     Pthread_join |-> PthreadFails, Pthread_detach |-> PthreadFails,
     Pthread_exit |-> Unchecked, Pthread_self |-> Unchecked,
     Pthread_once |-> Unchecked]

Semaphores == [Sem_init |-> Negative, P |-> Negative, V |-> Negative]

RioWrappers ==
    [Rio_readn |-> Negative,
     Rio_writen |-> Fails({"negative", "short"}, "unix_error"),
     Rio_readinitb |-> Unchecked, Rio_readnb |-> Negative,
     Rio_readlineb |-> Negative]

Mut_Open_clientfd == [negative |-> "unix_error"]
\* What open_clientfd below returns.
Open_clientfd ==
    [negative |-> "unix_error", minus_two |-> "new_dns_error", system |-> "new_dns_error"]

Open_listenfd == Negative

\* Open_clientfd of the older copies, which call gethostbyname.
Open_clientfd_old == [negative |-> "unix_error", minus_two |-> "dns_error"]

InetHelpers ==
    [Inet_ntop |-> Null,
     Inet_pton |-> [zero |-> "app_error", negative |-> "unix_error"]]

Helpers ==
    [Open_clientfd |-> Open_clientfd, Open_listenfd |-> Open_listenfd,
     Open_clientfd_old |-> Open_clientfd_old]

\* What each wrapper does with the result of its call.
Groups == {ProcessControl, SignalHandling, UnixIO, Memory, StandardIO, Sockets,
           Dns, Pthreads, Semaphores, RioWrappers, InetHelpers, Helpers}
Wrappers == UNION {DOMAIN g : g \in Groups}
Wrapper(w) == (CHOOSE g \in Groups : w \in DOMAIN g)[w]

\* Does the process go on after that result?
Passes(w, result) == result \notin DOMAIN Wrapper(w)

-----------------------------------------------------------------------------
(* The helpers that make several calls.  An outcome says whether a socket  *)
(* was made, which those that fail do not close, and where the cause of a  *)
(* failure is.                                                             *)

Outcome(rc, made, cause) == [rc |-> rc, made |-> made, cause |-> cause]
Opened == Outcome("fine", TRUE, "success")
NotOpened == {Outcome("negative", made, "errno") : made \in BOOLEAN}

\* socket, getaddrinfo (its code is kept in gai_error), connect.
open_clientfd(reachable) ==
    NotOpened
        \cup {Outcome("minus_two", TRUE, "result"), Outcome("system", TRUE, "errno")}
        \cup {o \in {Opened} : reachable}

\* The same in the older copies: socket, gethostbyname, connect.
open_clientfd_old(reachable) ==
    NotOpened \cup {Outcome("minus_two", TRUE, "h_errno")} \cup {o \in {Opened} : reachable}

\* socket, setsockopt, bind, listen.
open_listenfd(portFree) == NotOpened \cup {o \in {Opened} : portFree}

-----------------------------------------------------------------------------
(* What the calls return: from the manual of each.  A failure is told with *)
(* its cause: in errno, in h_errno, in the result, or nowhere.             *)

Returned(rc, cause) == [rc |-> rc, cause |-> cause]
Good(results) == {Returned(rc, "success") : rc \in results}
ErrnoCall == Good({"fine", "zero"}) \cup {Returned("negative", "errno")}
NullOrFine(cause) == Good({"fine"}) \cup {Returned("null", cause)}

Call(w) ==
    CASE w \in {"Sleep", "Alarm", "Getpgrp", "Free", "Pthread_exit",
                "Pthread_self", "Pthread_once", "Rio_readinitb"} -> Good({"fine", "zero"})
      [] w = "Pause" -> Good({"negative"})
      [] w = "Execve" -> {Returned("negative", "errno")}
      [] w = "Mmap" -> Good({"fine", "null"}) \cup {Returned("map_failed", "errno")}
      [] w \in {"Malloc", "Realloc", "Calloc", "Fdopen", "Fopen", "Inet_ntop"} ->
            NullOrFine("errno")
      [] w = "Fgets" -> Good({"null_eof"}) \cup NullOrFine("errno")
      [] w = "Fread" -> Good({"fine", "short_eof"}) \cup {Returned("short", "errno")}
      [] w = "Fwrite" -> Good({"fine"}) \cup {Returned("short", "errno")}
      [] w = "Rio_writen" -> Good({"fine"}) \cup {Returned("negative", "errno")}
      [] w \in {"Gethostbyname", "Gethostbyaddr"} -> NullOrFine("h_errno")
      [] w \in {"Getaddrinfo", "Getnameinfo"} ->
            Good({"zero"}) \cup {Returned("code", "result"), Returned("system", "errno")}
      [] w \in {"Pthread_create", "Pthread_cancel", "Pthread_join", "Pthread_detach"} ->
            Good({"zero"}) \cup {Returned("code", "result")}
      [] w = "Inet_pton" ->
            Good({"fine"}) \cup {Returned("zero", "none"), Returned("negative", "errno")}
      [] w = "Open_clientfd" -> {Returned(o.rc, o.cause) : o \in open_clientfd(TRUE)}
      [] w = "Open_clientfd_old" -> {Returned(o.rc, o.cause) : o \in open_clientfd_old(TRUE)}
      [] w = "Open_listenfd" -> {Returned(o.rc, o.cause) : o \in open_listenfd(TRUE)}
      [] OTHER -> ErrnoCall

\* Where an error function looks: app_error prints its argument and no more,
\* new_dns_error calls unix_error for EAI_SYSTEM.
Looks(error, result) ==
    CASE error = "unix_error" -> "errno"
      [] error = "dns_error" -> "h_errno"
      [] error = "posix_error" -> "result"
      [] error = "new_dns_error" -> IF result = "system" THEN "errno" ELSE "result"
      [] error = "app_error" -> "none"
=============================================================================
