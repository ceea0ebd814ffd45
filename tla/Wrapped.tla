------------------------------- MODULE Wrapped -------------------------------
(***************************************************************************)
(* A program that makes its calls through the wrappers of csapp.c: which   *)
(* one it calls next, and what the call gives, are left open.  errno and   *)
(* h_errno hold what the last call that wrote them left, and a handler of  *)
(* a signal makes calls of its own (TP2/signal1.c:4-15) at any moment, the *)
(* one between a call that has failed and the message that tells why too.  *)
(***************************************************************************)
EXTENDS Csapp

VARIABLES
    calling,    \* the wrapper that runs, "none" between two of them
    gave,       \* what its call returned
    errno,      \* the wrapper whose call wrote it last, or "handler"
    h_errno,
    message,    \* what the process told when it ended, [error, cause, status]
    broke,      \* history: the wrapper whose call has failed, or "none"
    disturbed   \* history: a handler ran between that failure and the message

callVars == <<calling, gave, errno, h_errno, message, broke, disturbed>>

NoMessage == [error |-> "none", cause |-> "none", status |-> 0]

\* A call that fails writes its cause where its manual says; one that does not
\* may leave its mark in errno all the same.
CallWrapped(w) ==
    /\ calling = "none" /\ message = NoMessage
    /\ \E r \in Call(w) :
        /\ gave' = r.rc
        /\ errno' \in (IF r.cause = "errno" THEN {} ELSE {errno}) \cup {w}
        /\ h_errno' = IF r.cause = "h_errno" THEN w ELSE h_errno
        /\ broke' = IF r.cause = "success" THEN broke ELSE w
    /\ calling' = w
    /\ UNCHANGED <<message, disturbed>>

\* The handler's calls write errno: it does not save it.
HandlerRuns ==
    /\ calling # "none"
    /\ errno' = "handler" /\ disturbed' = TRUE
    /\ UNCHANGED <<calling, gave, h_errno, message, broke>>

GoesOn ==
    /\ calling # "none" /\ Passes(calling, gave)
    /\ calling' = "none" /\ disturbed' = FALSE
    /\ UNCHANGED <<gave, errno, h_errno, message, broke>>

\* What stands where the error function looks.
CauseFound(error) ==
    CASE Looks(error, gave) = "errno" -> errno
      [] Looks(error, gave) = "h_errno" -> h_errno
      [] Looks(error, gave) = "result" -> calling
      [] Looks(error, gave) = "none" -> "none"

Tells ==
    /\ calling # "none" /\ ~ Passes(calling, gave)
    /\ LET error == Wrapper(calling)[gave] IN
        message' = [error |-> error, cause |-> CauseFound(error),
                    status |-> error_status[error]]
    /\ calling' = "none"
    /\ UNCHANGED <<gave, errno, h_errno, broke, disturbed>>

-----------------------------------------------------------------------------
CallInit ==
    /\ calling = "none" /\ gave = "fine" /\ errno = "none" /\ h_errno = "none"
    /\ message = NoMessage /\ broke = "none" /\ disturbed = FALSE

\* When another program runs.
CallIdle ==
    /\ calling = "none" /\ gave = "fine" /\ errno = "none" /\ h_errno = "none"
    /\ message = [NoMessage EXCEPT !.error = "idle"] /\ broke = "none" /\ disturbed = FALSE

CallNext == (\E w \in Wrappers : CallWrapped(w)) \/ HandlerRuns \/ GoesOn \/ Tells

CallSpec == CallInit /\ [][CallNext]_callVars
-----------------------------------------------------------------------------
(* Property.                                                               *)

\* csapp.c:9-42, csapp.c:50-901: whatever was called before, a program goes on
\* after no failure, and ends itself after nothing but one; the message gives the
\* cause of the call that failed and not one left over in errno or h_errno by an
\* earlier call, unless a handler ran in between.  Only Fgets and Inet_pton may
\* end it without a cause.
FailureIsTold ==
    /\ calling = "none" /\ broke # "none" => message.error \in DOMAIN error_status
    /\ message.error \in DOMAIN error_status =>
        /\ broke # "none"
        /\ message.cause \in {broke, "none"} \cup {h \in {"handler"} : disturbed}
        /\ message.cause = "none" => broke \in {"Fgets", "Inet_pton"}
=============================================================================
