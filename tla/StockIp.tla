------------------------------ MODULE StockIp ------------------------------
(***************************************************************************)
(* SR/projet_ftp/stock_ip.c: the linked list of unfinished transfers, on a *)
(* heap.  The two operations are those of master.c: register_crash_        *)
(* transfert adds a node, and the dispatcher, for a client that connects,  *)
(* looks its address up, reads the record and removes it.                  *)
(*                                                                         *)
(* A freed node keeps its contents, or has its first 16 bytes, the ip,     *)
(* overwritten by malloc's free-list pointers (a node is larger than any   *)
(* fast bin, and its next field lies beyond those bytes); malloc may give  *)
(* its address out again; freeing it once more aborts.                     *)
(***************************************************************************)
EXTENDS Integers, Sequences, FiniteSets

CONSTANTS Ips,      \* addresses of clients
          Offsets,  \* numbers of bytes transferred
          MaxNodes  \* bound on the nodes allocated at a time

ASSUME StockAssumption == /\ MaxNodes \in Nat \ {0}
                          /\ Offsets \subseteq Nat
                          /\ IsFiniteSet(Ips)

NULL == 0
Addrs == 1 .. MaxNodes
Garbage == "garbage"
Nobody == [ip |-> Garbage, nb |-> 0]

VARIABLES
    head,   \* unfinished_transfert
    mem,    \* the nodes, allocated, freed or neither
    live,   \* addresses malloc has given out
    status, \* the dispatcher: "ok", in an endless loop, or aborted by free
    given,  \* history: the transfer given to a slave last
    owed    \* history: transfers registered and not given, per address

vars == <<head, mem, live, status, given, owed>>

Init ==
    /\ head = NULL
    /\ mem = [a \in Addrs |-> [ip |-> Garbage, nb |-> 0, next |-> NULL]]
    /\ live = {}
    /\ status = "ok"
    /\ given = Nobody
    /\ owed = [c \in Ips |-> 0]

-----------------------------------------------------------------------------
(* Reading the list.                                                       *)

\* Path[k] is the address after k next pointers; a path longer than the heap
\* goes round in circles.
Path == LET p[k \in 0 .. MaxNodes] ==
              IF k = 0 THEN head
              ELSE IF p[k - 1] = NULL THEN NULL ELSE mem[p[k - 1]].next
        IN  p

IsMatch(k, c) == Path[k] # NULL /\ mem[Path[k]].ip = c

\* contain(): its result, when it returns.
contain(c) == \E k \in 0 .. MaxNodes - 1 : IsMatch(k, c)
ContainLoops(c) == ~contain(c) /\ Path[MaxNodes] # NULL

\* A definition named Mut_... is the operator after it with a bug such code
\* could have; no specification uses it, and the run of the property it breaks
\* is repeated with it.
Mut_FoundLast(c) == Path[CHOOSE k \in 0 .. MaxNodes - 1 :
                            IsMatch(k, c) /\ \A j \in k + 1 .. MaxNodes : ~IsMatch(j, c)]

\* The node file_name() and bytes() read: the first match.
Found(c) == Path[CHOOSE k \in 0 .. MaxNodes - 1 :
                    IsMatch(k, c) /\ \A j \in 0 .. k - 1 : ~IsMatch(j, c)]

-----------------------------------------------------------------------------
(* Changing it.  Each operation computes what the walk leaves behind.      *)

\* free(a), where clobbered says whether malloc reuses the first bytes.
Freed(m, a, clobbered) == IF clobbered THEN [m EXCEPT ![a].ip = Garbage] ELSE m

\* remove_first()
remove_first(clobbered) ==
    /\ head' = mem[head].next
    /\ mem' = Freed(mem, head, clobbered)
    /\ live' = live \ {head}
    /\ status' = IF head \in live THEN "ok" ELSE "aborted"

Mut_StaysOnCurrent(s) == [s EXCEPT !.previous = s.current]

\* A turn of the loop below on a node that does not match.
Advance(s) == [s EXCEPT !.previous = s.current, !.current = s.mem[s.current].next]

\* The loop of remove_by_ip() from the second node on.  previous and current
\* both start there: a match at the first turn is not unlinked.
Walk(c, clobbered) ==
    LET w[k \in 0 .. MaxNodes + 1] ==
          IF k = 0
          THEN [previous |-> mem[head].next, current |-> mem[head].next,
                mem |-> mem, live |-> live, ok |-> TRUE]
          ELSE LET s == w[k - 1]
                   skip == [s.mem EXCEPT ![s.previous].next = s.mem[s.current].next]
               IN  IF s.current = NULL THEN s
                   ELSE IF s.mem[s.current].ip = c
                   THEN [previous |-> s.current,
                         current |-> skip[s.current].next,
                         mem |-> Freed(skip, s.current, clobbered),
                         live |-> s.live \ {s.current},
                         ok |-> s.ok /\ s.current \in s.live]
                   ELSE Advance(s)
    IN  w[MaxNodes + 1]

remove_by_ip(c, clobbered) ==
    IF mem[head].ip = c
    THEN remove_first(clobbered)
    ELSE LET w == Walk(c, clobbered)
         IN  /\ head' = head
             /\ mem' = w.mem
             /\ live' = w.live
             /\ status' = CASE ~w.ok -> "aborted"
                            [] w.ok /\ w.current # NULL -> "hung"
                            [] OTHER -> "ok"

-----------------------------------------------------------------------------
\* add(), called by register_crash_transfert: the new node is the head.
Register(c, nb) ==
    /\ status = "ok"
    /\ \E a \in Addrs \ live :
          /\ mem' = [mem EXCEPT ![a] = [ip |-> c, nb |-> nb, next |-> head]]
          /\ head' = a
          /\ live' = live \cup {a}
    /\ owed' = [owed EXCEPT ![c] = @ + 1]
    /\ UNCHANGED <<status, given>>

\* The client c connects and the list holds its address: its transfer is given
\* to the slave and removed.
Resume(c) ==
    /\ status = "ok" /\ contain(c)
    /\ given' = [ip |-> c, nb |-> mem[Found(c)].nb]
    /\ \E clobbered \in BOOLEAN : remove_by_ip(c, clobbered)
    /\ owed' = [owed EXCEPT ![c] = @ - 1]

\* The client c connects and the search never ends.
SearchLoops(c) ==
    /\ status = "ok" /\ ContainLoops(c)
    /\ status' = "hung"
    /\ UNCHANGED <<head, mem, live, given, owed>>

Next == \E c \in Ips : \/ Resume(c) \/ SearchLoops(c)
                       \/ \E nb \in Offsets : Register(c, nb)

Spec == Init /\ [][Next]_vars

-----------------------------------------------------------------------------
\* The list ends, and every node in it is allocated.
Tight == /\ Path[MaxNodes] = NULL
         /\ \A k \in 0 .. MaxNodes : Path[k] # NULL => Path[k] \in live

Length == CHOOSE n \in 0 .. MaxNodes : Path[n] = NULL /\ \A k \in 0 .. n - 1 : Path[k] # NULL

\* The transfers in the list, in its order; none when it is not tight.
List == IF Tight
        THEN [k \in 1 .. Length |->
                [ip |-> mem[Path[k - 1]].ip, nb |-> mem[Path[k - 1]].nb]]
        ELSE <<>>

Abstract == INSTANCE UnfinishedTransfers WITH records <- List

\* The records remove_by_ip() takes out: the head, or all that match below it.
TakesOne(c) == \/ mem[head].ip = c
               \/ Cardinality({k \in 1 .. Length : List[k].ip = c}) = 1

\* As long as its list is tight, the code does what master.c expects of it: a
\* transfer is given to a slave once, the newest of a client first, with its own
\* offset, and none is lost (master.c:143-151, 209-210, 259).  A client with
\* several transfers below the head is left out: it loses all but one.
TightListImplements ==
    [][(Tight /\ Tight') =>
         \A c \in Ips :
            /\ (Resume(c) /\ TakesOne(c)) => Abstract!Resume(c)
            /\ \A nb \in Offsets : Register(c, nb) => Abstract!Register(c, nb)]_vars

\* The dispatcher loops in the list, or is aborted by free, only after the list
\* has come to hold a freed node (stock_ip.c:44-67, 120-143).
FailsOnlyWhenDangling == [][status' # "ok" => ~Tight]_vars

\* A client that reconnects is asked to resume only a transfer that was cut and
\* that it has not been given yet: "si le client a crash il doit reprendre le
\* telechargement du fichier" (client.c:71, slave.c:90).
ResumeOnlyAfterCrash == [][\A c \in Ips : Resume(c) => owed[c] > 0]_vars
=============================================================================
