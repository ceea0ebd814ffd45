------------------------ MODULE UnfinishedTransfers ------------------------
(***************************************************************************)
(* What master.c expects of its list of unfinished transfers: a transfer   *)
(* that was cut is put in the list; when a client comes back, the newest   *)
(* of its transfers is taken out of the list and given to a slave, once.   *)
(***************************************************************************)
EXTENDS Integers, Sequences

CONSTANTS Ips,      \* addresses of clients
          Offsets,  \* numbers of bytes transferred
          Nobody    \* the value of given before the first resume

VARIABLES records,  \* the transfers not finished, newest first
          given     \* the transfer given to a slave last

Transfer == [ip : Ips, nb : Offsets]

Init == records = <<>> /\ given = Nobody

Register(ip, nb) ==
    /\ records' = <<[ip |-> ip, nb |-> nb]>> \o records
    /\ UNCHANGED given

\* The first transfer of this client in the list.
IsNewest(k, ip) ==
    /\ records[k].ip = ip
    /\ \A j \in 1 .. k - 1 : records[j].ip # ip

Resume(ip) ==
    \E k \in 1 .. Len(records) :
        /\ IsNewest(k, ip)
        /\ given' = records[k]
        /\ records' = [j \in 1 .. Len(records) - 1 |->
                         IF j < k THEN records[j] ELSE records[j + 1]]

Next == \E ip \in Ips : Resume(ip) \/ \E nb \in Offsets : Register(ip, nb)

Spec == Init /\ [][Next]_<<records, given>>
=============================================================================
