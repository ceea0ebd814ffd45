--------------------------- MODULE StockIpProofs ---------------------------
(***************************************************************************)
(* Theorems about StockIp, for every set of addresses, every set of        *)
(* offsets and every size of the heap: as long as the list is tight, it is *)
(* the list that master.c expects, and the dispatcher neither loops in it  *)
(* nor is aborted by free.                                                 *)
(*                                                                         *)
(* Both rest on what a walk along next pointers meets.  The recursive      *)
(* functions Path and Walk are unfolded by PathUnfold and WalkUnfold;      *)
(* facts about every step of them are proved by induction on the set of    *)
(* the steps that satisfy them (Induction).                                *)
(***************************************************************************)
EXTENDS StockIp, FiniteSetTheorems, SequenceTheorems, WellFoundedInduction, TLAPS

Node == [ip : Ips \cup {Garbage}, nb : Nat, next : Addrs \cup {NULL}]

\* The head and the next pointers are null or lie in the heap, whatever the
\* list has come to hold.
HeapTypes ==
    /\ head \in Addrs \cup {NULL}
    /\ mem \in [Addrs -> Node]
    /\ live \subseteq Addrs

-----------------------------------------------------------------------------
(* Induction over the steps of a walk.                                     *)

LEMMA LeastNat ==
    ASSUME NEW S, S \subseteq Nat, S # {}
    PROVE  \E x \in S : \A y \in S : x <= y
<1>1. \E x \in S : \A y \in S : <<y, x>> \notin OpToRel(<, Nat)
  BY NatLessThanWellFounded, WFMin
<1>2. ASSUME NEW x \in S, NEW y \in S, <<y, x>> \notin OpToRel(<, Nat) PROVE x <= y
  <2>1. x \in Nat /\ y \in Nat
    OBVIOUS
  <2>2. ~ (y < x)
    BY <1>2, <2>1 DEF OpToRel
  <2> QED BY <2>1, <2>2
<1> QED BY <1>1, <1>2

LEMMA Induction ==
    ASSUME NEW n \in Nat, NEW T, 0 \in T,
           \A k \in 0 .. n - 1 : k \in T => k + 1 \in T
    PROVE  0 .. n \subseteq T
<1> DEFINE Left == (0 .. n) \ T
<1> SUFFICES ASSUME Left # {} PROVE FALSE
  OBVIOUS
<1>1. Left \subseteq Nat
  OBVIOUS
<1>2. PICK x \in Left : \A y \in Left : x <= y
  <2> HIDE DEF Left
  <2> QED BY <1>1, LeastNat
<1>3. x - 1 \in 0 .. n - 1 /\ x - 1 \notin Left
  BY <1>2
<1> QED BY <1>2, <1>3

-----------------------------------------------------------------------------
(* The addresses along the list.                                           *)

\* p follows the next pointers of m from h.
Follows(p, h, m) ==
    /\ DOMAIN p = 0 .. MaxNodes
    /\ p[0] = h
    /\ \A k \in 0 .. MaxNodes - 1 :
          p[k + 1] = IF p[k] = NULL THEN NULL ELSE m[p[k]].next

PathFrom(h, m) == LET p[k \in 0 .. MaxNodes] ==
                        IF k = 0 THEN h
                        ELSE IF p[k - 1] = NULL THEN NULL ELSE m[p[k - 1]].next
                  IN  p

LEMMA FollowsFrom ==
    ASSUME NEW h, NEW m, NEW p,
           p = [k \in 0 .. MaxNodes |->
                   IF k = 0 THEN h
                   ELSE IF p[k - 1] = NULL THEN NULL ELSE m[p[k - 1]].next]
    PROVE  Follows(p, h, m)
<1>1. MaxNodes \in Nat
  BY StockAssumption
<1>2. DOMAIN p = 0 .. MaxNodes /\ p[0] = h
  BY <1>1
<1>3. ASSUME NEW k \in 0 .. MaxNodes - 1
      PROVE  p[k + 1] = IF p[k] = NULL THEN NULL ELSE m[p[k]].next
  <2>1. k + 1 \in 0 .. MaxNodes /\ k + 1 # 0 /\ (k + 1) - 1 = k
    BY <1>1
  <2>2. p[k + 1] = IF k + 1 = 0 THEN h
                   ELSE IF p[(k + 1) - 1] = NULL THEN NULL ELSE m[p[(k + 1) - 1]].next
    BY <2>1
  <2> QED BY <2>1, <2>2
<1> QED BY <1>2, <1>3 DEF Follows

LEMMA PathFromFollows ==
    ASSUME NEW h, NEW m
    PROVE  Follows(PathFrom(h, m), h, m)
<1> DEFINE Goes(p, n) == p = [k \in 0 .. n |->
                          IF k = 0 THEN h
                          ELSE IF p[k - 1] = NULL THEN NULL ELSE m[p[k - 1]].next]
           T == {n \in Nat : \E p : Goes(p, n)}
<1>1. 0 \in T
  <2>1. Goes([k \in 0 .. 0 |-> h], 0)
    OBVIOUS
  <2> QED BY <2>1
<1>2. ASSUME NEW n \in 0 .. MaxNodes - 1, n \in T PROVE n + 1 \in T
  <2>1. n \in Nat
    BY StockAssumption
  <2>2. PICK p : Goes(p, n)
    BY <1>2
  <2> DEFINE q == [k \in 0 .. n + 1 |->
                      IF k <= n THEN p[k]
                      ELSE IF p[n] = NULL THEN NULL ELSE m[p[n]].next]
  <2>3. ASSUME NEW k \in 0 .. n + 1
        PROVE  q[k] = IF k = 0 THEN h
                      ELSE IF q[k - 1] = NULL THEN NULL ELSE m[q[k - 1]].next
    <3>1. CASE k = 0
      BY <2>1, <2>2, <3>1
    <3>2. CASE k \in 1 .. n
      <4>1. k - 1 \in 0 .. n /\ k \in 0 .. n
        BY <2>1, <3>2
      <4>2. q[k] = p[k] /\ q[k - 1] = p[k - 1]
        BY <2>1, <4>1
      <4>3. p[k] = IF k = 0 THEN h
                   ELSE IF p[k - 1] = NULL THEN NULL ELSE m[p[k - 1]].next
        BY <2>2, <4>1
      <4> QED BY <4>2, <4>3
    <3>3. CASE k = n + 1
      <4>1. q[k] = (IF p[n] = NULL THEN NULL ELSE m[p[n]].next) /\ q[k - 1] = p[n] /\ k # 0
        BY <2>1, <3>3
      <4> QED BY <4>1
    <3> QED BY <2>1, <3>1, <3>2, <3>3
  <2>4. Goes(q, n + 1)
    <3>1. q = [k \in 0 .. n + 1 |-> q[k]]
      OBVIOUS
    <3> HIDE DEF q
    <3> QED BY <2>3, <3>1
  <2> HIDE DEF q, Goes
  <2> QED BY <2>1, <2>4
<1>3. MaxNodes \in Nat
  BY StockAssumption
<1>4. 0 .. MaxNodes \subseteq T
  <2> HIDE DEF T
  <2> QED BY <1>1, <1>2, <1>3, Induction
<1>5. \E p : Goes(p, MaxNodes)
  BY <1>3, <1>4
<1>6. PathFrom(h, m) = CHOOSE p : Goes(p, MaxNodes)
  BY DEF PathFrom
<1>7. Goes(PathFrom(h, m), MaxNodes)
  <2> HIDE DEF Goes
  <2> QED BY <1>5, <1>6
<1> QED BY <1>7, FollowsFrom

LEMMA PathFollows == Follows(Path, head, mem) /\ Follows(Path', head', mem')
<1>1. Path = PathFrom(head, mem)
  BY DEF Path, PathFrom
<1>2. Path' = PathFrom(head', mem')
  BY DEF Path, PathFrom
<1> QED BY <1>1, <1>2, PathFromFollows

LEMMA EndOfPath ==
    ASSUME NEW h, NEW m, NEW p, Follows(p, h, m), p[MaxNodes] = NULL
    PROVE  \E n \in 0 .. MaxNodes :
              /\ \A k \in 0 .. n - 1 : p[k] # NULL
              /\ \A k \in n .. MaxNodes : p[k] = NULL
<1>0. MaxNodes \in Nat
  BY StockAssumption
<1> DEFINE Ends == {k \in 0 .. MaxNodes : p[k] = NULL}
<1>1. Ends \subseteq Nat /\ MaxNodes \in Ends
  BY <1>0
<1>2. PICK n \in Ends : \A k \in Ends : n <= k
  <2> HIDE DEF Ends
  <2> QED BY <1>1, LeastNat
<1>3. \A k \in 0 .. n - 1 : p[k] # NULL
  BY <1>0, <1>2
<1>4. ASSUME NEW k \in n .. MaxNodes PROVE p[k] = NULL
  <2> DEFINE T == {i \in Nat : n + i <= MaxNodes => p[n + i] = NULL}
  <2>1. 0 \in T
    BY <1>0, <1>2
  <2>2. ASSUME NEW i \in 0 .. MaxNodes - 1, i \in T PROVE i + 1 \in T
    <3> SUFFICES ASSUME n + (i + 1) <= MaxNodes PROVE p[n + (i + 1)] = NULL
      BY <1>0
    <3>1. n + i \in 0 .. MaxNodes - 1 /\ p[n + i] = NULL /\ n + (i + 1) = (n + i) + 1
      BY <1>0, <1>2, <2>2
    <3> QED BY <3>1 DEF Follows
  <2>3. 0 .. MaxNodes \subseteq T
    <3> HIDE DEF T
    <3> QED BY <1>0, <2>1, <2>2, Induction
  <2>4. k - n \in 0 .. MaxNodes /\ n + (k - n) = k
    BY <1>0, <1>2
  <2> QED BY <1>0, <2>3, <2>4
<1> QED BY <1>2, <1>3, <1>4

\* A list that ends passes no node twice.
LEMMA NodesDistinct ==
    ASSUME NEW h, NEW m, NEW p, Follows(p, h, m),
           NEW n \in 0 .. MaxNodes, p[n] = NULL, \A k \in 0 .. n - 1 : p[k] # NULL,
           NEW i \in 0 .. n - 1, NEW j \in 0 .. n - 1, i < j
    PROVE  p[i] # p[j]
<1>0. MaxNodes \in Nat /\ n \in Nat /\ i \in Nat /\ j \in Nat
  BY StockAssumption
<1> SUFFICES ASSUME p[i] = p[j] PROVE FALSE
  OBVIOUS
<1> DEFINE T == {t \in Nat : j + t <= n => p[i + t] = p[j + t]}
<1>1. 0 \in T
  BY <1>0
<1>2. ASSUME NEW t \in 0 .. n - 1, t \in T PROVE t + 1 \in T
  <2> SUFFICES ASSUME j + (t + 1) <= n PROVE p[i + (t + 1)] = p[j + (t + 1)]
    BY <1>0
  <2>1. /\ i + t \in 0 .. MaxNodes - 1 /\ j + t \in 0 .. MaxNodes - 1
        /\ i + (t + 1) = (i + t) + 1 /\ j + (t + 1) = (j + t) + 1
        /\ p[i + t] = p[j + t]
    BY <1>0, <1>2
  <2> QED BY <2>1 DEF Follows
<1>3. 0 .. n \subseteq T
  <2> HIDE DEF T
  <2> QED BY <1>0, <1>1, <1>2, Induction
<1>4. n - j \in 0 .. n /\ j + (n - j) = n /\ i + (n - j) \in 0 .. n - 1
  BY <1>0
<1>5. p[i + (n - j)] = p[n]
  BY <1>0, <1>3, <1>4
<1> QED BY <1>4, <1>5

-----------------------------------------------------------------------------
(* A tight list.                                                           *)

\* The path p has n nodes, all among these addresses.
HasNodes(p, n, addrs) ==
    /\ n \in 0 .. MaxNodes
    /\ \A k \in 0 .. n - 1 : p[k] # NULL /\ p[k] \in addrs
    /\ \A k \in n .. MaxNodes : p[k] = NULL

LEMMA EndsOnce ==
    ASSUME NEW h, NEW m, NEW p, NEW n, NEW addrs, Follows(p, h, m),
           p[MaxNodes] = NULL, \A k \in 0 .. MaxNodes : p[k] # NULL => p[k] \in addrs,
           n = CHOOSE i \in 0 .. MaxNodes : p[i] = NULL /\ \A k \in 0 .. i - 1 : p[k] # NULL
    PROVE  HasNodes(p, n, addrs)
<1>0. MaxNodes \in Nat
  BY StockAssumption
<1>1. PICK i \in 0 .. MaxNodes : /\ \A k \in 0 .. i - 1 : p[k] # NULL
                                 /\ \A k \in i .. MaxNodes : p[k] = NULL
  BY EndOfPath
<1>2. p[i] = NULL
  BY <1>1
<1>3. p[n] = NULL /\ n \in 0 .. MaxNodes /\ \A k \in 0 .. n - 1 : p[k] # NULL
  BY <1>1, <1>2
<1>4. n = i
  <2>1. n \in Int /\ i \in Int
    BY <1>1, <1>3
  <2>2. ~ (n < i) /\ ~ (i < n)
    BY <1>1, <1>2, <1>3
  <2> QED BY <2>1, <2>2
<1> QED BY <1>0, <1>1, <1>3, <1>4 DEF HasNodes

LEMMA TightPath ==
    ASSUME Tight
    PROVE  HasNodes(Path, Length, live)
BY PathFollows, EndsOnce DEF Tight, Length

LEMMA TightPathNext ==
    ASSUME Tight'
    PROVE  HasNodes(Path', Length', live')
BY PathFollows, EndsOnce DEF Tight, Length

LEMMA TightNodesDistinct ==
    ASSUME Tight, NEW i \in 0 .. Length - 1, NEW j \in 0 .. Length - 1, Path[i] = Path[j]
    PROVE  i = j
<1>0. HasNodes(Path, Length, live) /\ MaxNodes \in Nat
  BY TightPath, StockAssumption
<1>1. Length \in 0 .. MaxNodes /\ Path[Length] = NULL /\ \A k \in 0 .. Length - 1 : Path[k] # NULL
  BY <1>0 DEF HasNodes
<1>2. Follows(Path, head, mem)
  BY PathFollows
<1>3. \A a, b \in 0 .. Length - 1 : a < b => Path[a] # Path[b]
  BY <1>1, <1>2, NodesDistinct
<1>4. i \in Int /\ j \in Int
  OBVIOUS
<1> QED BY <1>3, <1>4

\* What the list shows of a node.
Entry(m, a) == [ip |-> m[a].ip, nb |-> m[a].nb]

LEMMA TightList ==
    ASSUME Tight
    PROVE  /\ List = [k \in 1 .. Length |-> Entry(mem, Path[k - 1])]
           /\ Length \in Nat
           /\ Len(List) = Length
<1>1. Length \in Nat
  BY TightPath, StockAssumption DEF HasNodes
<1>2. List = [k \in 1 .. Length |-> Entry(mem, Path[k - 1])]
  BY DEF List, Entry
<1>3. DOMAIN List = 1 .. Length
  BY <1>2
<1> QED BY <1>1, <1>2, <1>3

LEMMA TightListNext ==
    ASSUME Tight'
    PROVE  /\ List' = [k \in 1 .. Length' |-> Entry(mem', Path'[k - 1])]
           /\ Length' \in Nat
<1>1. Length' \in Nat
  BY TightPathNext, StockAssumption DEF HasNodes
<1>2. List' = [k \in 1 .. Length' |-> Entry(mem', Path'[k - 1])]
  BY DEF List, Entry
<1> QED BY <1>1, <1>2

-----------------------------------------------------------------------------
(* A transfer is registered.                                               *)

\* The new node is in front of the old path.
LEMMA RegisterPath ==
    ASSUME HeapTypes, Tight, NEW a \in Addrs \ live, NEW x \in Ips, NEW nb \in Offsets,
           head' = a, mem' = [mem EXCEPT ![a] = [ip |-> x, nb |-> nb, next |-> head]]
    PROVE  /\ Path'[0] = a
           /\ \A k \in 0 .. MaxNodes - 1 : Path'[k + 1] = Path[k]
<1>0. MaxNodes \in Nat \ {0}
  BY StockAssumption
<1>1. Path'[0] = a
  BY PathFollows DEF Follows
<1> DEFINE T == {k \in Nat : k <= MaxNodes - 1 => Path'[k + 1] = Path[k]}
<1>2. 0 \in T
  <2>1. mem'[a].next = head /\ a # NULL
    BY <1>0 DEF HeapTypes, Addrs, NULL
  <2>2. Path'[0 + 1] = head
    BY <1>0, <1>1, <2>1, PathFollows DEF Follows
  <2> QED BY <1>0, <2>2, PathFollows DEF Follows
<1>3. ASSUME NEW k \in 0 .. (MaxNodes - 1) - 1, k \in T PROVE k + 1 \in T
  <2> SUFFICES ASSUME k + 1 <= MaxNodes - 1 PROVE Path'[(k + 1) + 1] = Path[k + 1]
    BY <1>0
  <2>1. k \in 0 .. MaxNodes - 1 /\ k + 1 \in 0 .. MaxNodes - 1 /\ Path'[k + 1] = Path[k]
    BY <1>0, <1>3
  <2>2. Path'[(k + 1) + 1] = IF Path[k] = NULL THEN NULL ELSE mem'[Path[k]].next
    BY <2>1, PathFollows DEF Follows
  <2>3. Path[k + 1] = IF Path[k] = NULL THEN NULL ELSE mem[Path[k]].next
    BY <2>1, PathFollows DEF Follows
  <2>4. Path[k] # NULL => Path[k] \in live /\ Path[k] # a
    BY <1>0, <2>1 DEF Tight
  <2>5. Path[k] # NULL => mem'[Path[k]] = mem[Path[k]]
    BY <2>4 DEF HeapTypes
  <2> QED BY <2>2, <2>3, <2>5
<1>4. 0 .. MaxNodes - 1 \subseteq T
  <2>1. MaxNodes - 1 \in Nat
    BY <1>0
  <2> HIDE DEF T
  <2> QED BY <2>1, <1>2, <1>3, Induction
<1> QED BY <1>1, <1>4

LEMMA FrontElement ==
    ASSUME NEW n \in Nat, NEW s, s = [k \in 1 .. n |-> s[k]], NEW e
    PROVE  <<e>> \o s = [k \in 1 .. n + 1 |-> IF k = 1 THEN e ELSE s[k - 1]]
<1> DEFINE S == {e} \cup {s[k] : k \in 1 .. n}
           new == [k \in 1 .. n + 1 |-> IF k = 1 THEN e ELSE s[k - 1]]
<1>1. s \in Seq(S) /\ Len(s) = n
  <2>1. s \in [1 .. n -> S]
    OBVIOUS
  <2> HIDE DEF S
  <2> QED BY <2>1
<1>2. <<e>> \in Seq(S) /\ Len(<<e>>) = 1 /\ <<e>>[1] = e
  OBVIOUS
<1>3. new \in Seq(S) /\ Len(new) = n + 1
  <2>1. \A k \in 1 .. n + 1 : k # 1 => k - 1 \in 1 .. n
    <3> HIDE DEF S, new
    <3> QED OBVIOUS
  <2>2. new \in [1 .. n + 1 -> S]
    BY <2>1
  <2> HIDE DEF S, new
  <2> QED BY <2>2
<1>4. ASSUME NEW k \in 1 .. n + 1 PROVE (<<e>> \o s)[k] = new[k]
  <2>1. k = 1 => (<<e>> \o s)[k] = e
    BY <1>1, <1>2
  <2>2. k # 1 => (<<e>> \o s)[k] = s[k - 1]
    BY <1>1, <1>2
  <2> QED BY <2>1, <2>2
<1>5. <<e>> \o s \in Seq(S) /\ Len(<<e>> \o s) = n + 1
  <2> HIDE DEF S
  <2> QED BY <1>1, <1>2
<1>6. <<e>> \o s = new
  <2> HIDE DEF S, new
  <2>1. PICK t \in Seq(S) : t = <<e>> \o s
    BY <1>5
  <2>2. Len(t) = Len(new) /\ \A i \in 1 .. Len(t) : t[i] = new[i]
    BY <1>3, <1>4, <1>5, <2>1
  <2>3. t = new
    BY <1>3, <2>2, SeqEqual
  <2> QED BY <2>1, <2>3
<1> QED BY <1>6

LEMMA RegisterImplements ==
    ASSUME HeapTypes, Tight, Tight', NEW x \in Ips, NEW nb \in Offsets, Register(x, nb)
    PROVE  Abstract!Register(x, nb)
<1>0. MaxNodes \in Nat \ {0} /\ nb \in Nat
  BY StockAssumption
<1>1. PICK a \in Addrs \ live :
          /\ mem' = [mem EXCEPT ![a] = [ip |-> x, nb |-> nb, next |-> head]]
          /\ head' = a
  BY DEF Register
<1>2. Path'[0] = a /\ \A k \in 0 .. MaxNodes - 1 : Path'[k + 1] = Path[k]
  BY <1>1, RegisterPath
<1>3. HasNodes(Path, Length, live) /\ HasNodes(Path', Length', live')
  BY TightPath, TightPathNext
<1>4. a # NULL
  BY <1>0 DEF Addrs, NULL
<1>5. Length' = Length + 1
  <2>1. PICK n, m, p, q : n = Length /\ m = Length' /\ p = Path /\ q = Path'
    OBVIOUS
  <2>2. /\ n \in 0 .. MaxNodes /\ m \in 0 .. MaxNodes
        /\ \A k \in 0 .. n - 1 : p[k] # NULL
        /\ \A k \in n .. MaxNodes : p[k] = NULL
        /\ \A k \in 0 .. m - 1 : q[k] # NULL
        /\ \A k \in m .. MaxNodes : q[k] = NULL
        /\ q[0] # NULL
        /\ \A k \in 0 .. MaxNodes - 1 : q[k + 1] = p[k]
    BY <1>2, <1>3, <1>4, <2>1 DEF HasNodes
  <2>3. m # 0
    BY <1>0, <2>2
  <2>4. q[(m - 1) + 1] = NULL /\ m - 1 \in 0 .. MaxNodes - 1
    BY <1>0, <2>2, <2>3
  <2>5. p[m - 1] = NULL
    BY <2>2, <2>4
  <2>6. ~ (m - 1 < n)
    BY <1>0, <2>2, <2>3, <2>5
  <2>7. ~ (n < m - 1)
    <3> SUFFICES ASSUME n < m - 1 PROVE FALSE
      OBVIOUS
    <3>1. n \in 0 .. MaxNodes - 1 /\ n + 1 \in 0 .. m - 1
      BY <1>0, <2>2
    <3>2. q[n + 1] = p[n] /\ q[n + 1] # NULL /\ p[n] = NULL
      BY <1>0, <2>2, <3>1
    <3> QED BY <3>2
  <2>8. m = n + 1
    BY <2>2, <2>6, <2>7
  <2> QED BY <2>1, <2>8
<1>6. ASSUME NEW k \in 0 .. Length - 1
      PROVE  Entry(mem', Path'[k + 1]) = Entry(mem, Path[k])
  <2>1. Path[k] \in live /\ k \in 0 .. MaxNodes - 1
    BY <1>0, <1>3 DEF HasNodes
  <2>2. mem'[Path[k]] = mem[Path[k]]
    BY <1>1, <2>1 DEF HeapTypes
  <2> QED BY <1>2, <2>1, <2>2 DEF Entry
<1>7. Entry(mem', Path'[0]) = [ip |-> x, nb |-> nb]
  BY <1>1, <1>2 DEF HeapTypes, Entry
<1>8. List' = <<[ip |-> x, nb |-> nb]>> \o List
  <2> DEFINE Old == [k \in 1 .. Length |-> Entry(mem, Path[k - 1])]
             New == [k \in 1 .. Length + 1 |-> Entry(mem', Path'[k - 1])]
  <2>1. List = Old /\ List' = New /\ Length \in Nat
    BY <1>5, TightList, TightListNext
  <2>2. \A k \in 1 .. Length + 1 : New[k] = IF k = 1 THEN [ip |-> x, nb |-> nb] ELSE Old[k - 1]
    <3> SUFFICES ASSUME NEW k \in 1 .. Length + 1
                 PROVE  New[k] = IF k = 1 THEN [ip |-> x, nb |-> nb] ELSE Old[k - 1]
      OBVIOUS
    <3>1. CASE k = 1
      BY <1>7, <2>1, <3>1
    <3>2. CASE k # 1
      <4>1. k - 2 \in 0 .. Length - 1 /\ (k - 2) + 1 = k - 1 /\ k - 1 \in 1 .. Length
            /\ (k - 1) - 1 = k - 2
        BY <2>1, <3>2
      <4>2. New[k] = Entry(mem', Path'[k - 1]) /\ Old[k - 1] = Entry(mem, Path[k - 2])
        BY <4>1
      <4> QED BY <1>6, <3>2, <4>1, <4>2
    <3> QED BY <3>1, <3>2
  <2>3. New = [k \in 1 .. Length + 1 |->
                  IF k = 1 THEN [ip |-> x, nb |-> nb] ELSE Old[k - 1]]
    <3>1. New = [k \in 1 .. Length + 1 |-> New[k]]
      OBVIOUS
    <3> HIDE DEF New, Old
    <3> QED BY <2>2, <3>1
  <2>4. Old = [k \in 1 .. Length |-> Old[k]] /\ Length \in Nat
    BY <2>1
  <2> HIDE DEF Old, New
  <2> QED BY <2>1, <2>3, <2>4, FrontElement
<1> QED BY <1>8 DEF Abstract!Register, Register

-----------------------------------------------------------------------------
(* A transfer is given and removed.                                        *)

\* Beyond the end of the heap there is nothing.
PathAt(k) == IF k <= MaxNodes THEN Path[k] ELSE NULL

LEMMA PathGoesOn ==
    ASSUME HeapTypes, Tight, NEW k \in Nat
    PROVE  /\ PathAt(k) \in Addrs \cup {NULL}
           /\ PathAt(k) # NULL => k \in 0 .. Length - 1 /\ PathAt(k) = Path[k] /\ PathAt(k) \in live
           /\ k \in 0 .. Length - 1 => PathAt(k) = Path[k] /\ PathAt(k) # NULL
           /\ PathAt(k + 1) = IF PathAt(k) = NULL THEN NULL ELSE mem[PathAt(k)].next
<1>0. MaxNodes \in Nat \ {0} /\ Length \in Nat /\ Length <= MaxNodes
  BY StockAssumption, TightPath DEF HasNodes
<1>1. HasNodes(Path, Length, live)
  BY TightPath
<1>2. k \in 0 .. Length - 1 => Path[k] # NULL /\ Path[k] \in live /\ Path[k] \in Addrs
  BY <1>1 DEF HasNodes, HeapTypes
<1>3. k >= Length => PathAt(k) = NULL /\ PathAt(k + 1) = NULL
  BY <1>0, <1>1 DEF HasNodes, PathAt
<1>4. k < Length => /\ k \in 0 .. Length - 1 /\ k \in 0 .. MaxNodes - 1
                    /\ PathAt(k) = Path[k] /\ PathAt(k + 1) = Path[k + 1]
  BY <1>0 DEF PathAt
<1>5. k < Length => PathAt(k + 1) = IF PathAt(k) = NULL THEN NULL ELSE mem[PathAt(k)].next
  BY <1>4, PathFollows DEF Follows
<1>6. k >= Length \/ k < Length
  BY <1>0
<1> QED BY <1>0, <1>2, <1>3, <1>4, <1>5, <1>6

\* The path after its first node, and without another one.
LEMMA PathWithoutHead ==
    ASSUME HeapTypes, Tight, head # NULL, head' = mem[head].next,
           \A a \in Addrs : mem'[a].next = mem[a].next
    PROVE  \A k \in 0 .. MaxNodes : Path'[k] = PathAt(k + 1)
<1>0. MaxNodes \in Nat \ {0}
  BY StockAssumption
<1> DEFINE T == {k \in Nat : k <= MaxNodes => Path'[k] = PathAt(k + 1)}
<1>1. 0 \in T
  <2>1. Path'[0] = head' /\ Path[0] = head
    BY PathFollows DEF Follows
  <2>2. PathAt(0) = head
    BY <1>0, <2>1 DEF PathAt
  <2>3. PathAt(0 + 1) = mem[head].next
    BY <2>2, PathGoesOn
  <2> QED BY <2>1, <2>3
<1>2. ASSUME NEW k \in 0 .. MaxNodes - 1, k \in T PROVE k + 1 \in T
  <2>1. k \in Nat /\ k + 1 \in Nat /\ Path'[k] = PathAt(k + 1)
    BY <1>0, <1>2
  <2>2. Path'[k + 1] = IF Path'[k] = NULL THEN NULL ELSE mem'[Path'[k]].next
    BY PathFollows DEF Follows
  <2>3. /\ PathAt(k + 1) \in Addrs \cup {NULL}
        /\ PathAt((k + 1) + 1) =
              IF PathAt(k + 1) = NULL THEN NULL ELSE mem[PathAt(k + 1)].next
    BY <2>1, PathGoesOn
  <2>4. PathAt(k + 1) # NULL => mem'[PathAt(k + 1)].next = mem[PathAt(k + 1)].next
    BY <2>3
  <2>5. Path'[k + 1] = PathAt((k + 1) + 1)
    BY <2>1, <2>2, <2>3, <2>4
  <2> QED BY <2>1, <2>5
<1>3. 0 .. MaxNodes \subseteq T
  <2> HIDE DEF T
  <2> QED BY <1>0, <1>1, <1>2, Induction
<1> QED BY <1>0, <1>3

LEMMA PathWithoutNode ==
    ASSUME HeapTypes, Tight, NEW i \in 1 .. Length - 1, head' = head,
           \A a \in Addrs : mem'[a].next = IF a = Path[i - 1] THEN mem[Path[i]].next
                                           ELSE mem[a].next
    PROVE  \A k \in 0 .. MaxNodes :
              Path'[k] = IF k < i THEN Path[k] ELSE PathAt(k + 1)
<1>0. MaxNodes \in Nat \ {0} /\ Length \in Nat /\ Length <= MaxNodes /\ i \in Nat
  BY StockAssumption, TightPath DEF HasNodes
<1> DEFINE T == {k \in Nat : k <= MaxNodes =>
                    Path'[k] = IF k < i THEN Path[k] ELSE PathAt(k + 1)}
<1>1. 0 \in T
  <2>1. Path'[0] = Path[0]
    BY PathFollows DEF Follows
  <2> QED BY <1>0, <2>1
<1>2. ASSUME NEW k \in 0 .. MaxNodes - 1, k \in T PROVE k + 1 \in T
  <2>1. k \in Nat /\ k + 1 \in Nat /\ Path'[k] = IF k < i THEN Path[k] ELSE PathAt(k + 1)
    BY <1>0, <1>2
  <2>2. Path'[k + 1] = IF Path'[k] = NULL THEN NULL ELSE mem'[Path'[k]].next
    BY PathFollows DEF Follows
  <2>3. CASE k < i
    <3>1. /\ k \in 0 .. Length - 1 /\ i - 1 \in 0 .. Length - 1
          /\ k \in 0 .. MaxNodes - 1 /\ i \in 0 .. MaxNodes - 1
      BY <1>0, <2>3
    <3>2. Path[k] # NULL /\ Path[k] \in Addrs /\ Path[i] # NULL
      BY <1>0, <3>1, TightPath DEF HasNodes, HeapTypes
    <3>3. Path'[k + 1] = mem'[Path[k]].next /\ Path[k + 1] = mem[Path[k]].next
          /\ Path[i + 1] = mem[Path[i]].next
      BY <2>1, <2>2, <2>3, <3>1, <3>2, PathFollows DEF Follows
    <3>4. CASE k + 1 < i
      <4>1. Path[k] # Path[i - 1]
        BY <1>0, <3>1, <3>4, TightNodesDistinct
      <4> QED BY <2>1, <3>2, <3>3, <3>4, <4>1
    <3>5. CASE k + 1 = i
      <4>1. k = i - 1
        BY <1>0, <3>5
      <4>2. Path'[k + 1] = Path[i + 1]
        BY <3>2, <3>3, <4>1
      <4>3. PathAt((k + 1) + 1) = Path[i + 1]
        BY <1>0, <3>1, <3>5 DEF PathAt
      <4> QED BY <1>0, <2>1, <3>5, <4>2, <4>3
    <3> QED BY <1>0, <2>1, <2>3, <3>4, <3>5
  <2>4. CASE k >= i
    <3>1. /\ PathAt(k + 1) \in Addrs \cup {NULL}
          /\ PathAt(k + 1) # NULL => k + 1 \in 0 .. Length - 1 /\ PathAt(k + 1) = Path[k + 1]
          /\ PathAt((k + 1) + 1) =
                IF PathAt(k + 1) = NULL THEN NULL ELSE mem[PathAt(k + 1)].next
      BY <2>1, PathGoesOn
    <3>2. ASSUME PathAt(k + 1) # NULL
          PROVE  mem'[PathAt(k + 1)].next = mem[PathAt(k + 1)].next
      <4>1. PathAt(k + 1) # Path[i - 1]
        <5>1. i - 1 \in 0 .. Length - 1 /\ k + 1 # i - 1
          BY <1>0, <2>1, <2>4
        <5> QED BY <3>1, <3>2, <5>1, TightNodesDistinct
      <4> QED BY <3>1, <3>2, <4>1
    <3>3. Path'[k] = PathAt(k + 1)
      BY <1>0, <2>1, <2>4
    <3>4. Path'[k + 1] = PathAt((k + 1) + 1)
      BY <2>2, <3>1, <3>2, <3>3
    <3> QED BY <1>0, <2>1, <2>4, <3>4
  <2> QED BY <1>0, <2>1, <2>3, <2>4
<1>3. 0 .. MaxNodes \subseteq T
  <2> HIDE DEF T
  <2> QED BY <1>0, <1>1, <1>2, Induction
<1> QED BY <1>0, <1>3

\* One node is off the path, the newest of x, and the others are as they were:
\* that is the step of the abstract list.
LEMMA RemovesOne ==
    ASSUME HeapTypes, Tight, Tight', NEW x \in Ips, NEW i \in 0 .. Length - 1,
           mem[Path[i]].ip = x, \A k \in 0 .. i - 1 : mem[Path[k]].ip # x,
           live' = live \ {Path[i]},
           \A k \in 0 .. MaxNodes : Path'[k] = IF k < i THEN Path[k] ELSE PathAt(k + 1),
           \A a \in Addrs : a # Path[i] => Entry(mem', a) = Entry(mem, a),
           given' = [ip |-> x, nb |-> mem[Path[i]].nb]
    PROVE  Abstract!Resume(x)
<1>0. MaxNodes \in Nat \ {0} /\ Length \in Nat /\ Length <= MaxNodes /\ i \in Nat /\ i < Length
  BY StockAssumption, TightPath DEF HasNodes
<1>1. HasNodes(Path, Length, live) /\ HasNodes(Path', Length', live')
  BY TightPath, TightPathNext
<1>2. \A k \in 0 .. Length - 2 : Path'[k] = IF k < i THEN Path[k] ELSE Path[k + 1]
  BY <1>0 DEF PathAt
<1>3. Length' = Length - 1
  <2>1. PICK n, m, p, q : n = Length /\ m = Length' /\ p = Path /\ q = Path'
    OBVIOUS
  <2>2. /\ n \in 1 .. MaxNodes /\ m \in 0 .. MaxNodes
        /\ \A k \in 0 .. n - 1 : p[k] # NULL
        /\ \A k \in 0 .. m - 1 : q[k] # NULL
        /\ \A k \in m .. MaxNodes : q[k] = NULL
        /\ \A k \in 0 .. n - 2 : q[k] = IF k < i THEN p[k] ELSE p[k + 1]
    <3>1. \A k \in 0 .. n - 2 : q[k] = IF k < i THEN p[k] ELSE p[k + 1]
      BY <1>2, <2>1
    <3>2. n \in 1 .. MaxNodes /\ m \in 0 .. MaxNodes
      BY <1>0, <1>1, <2>1 DEF HasNodes
    <3>3. /\ \A k \in 0 .. n - 1 : p[k] # NULL
          /\ \A k \in 0 .. m - 1 : q[k] # NULL
          /\ \A k \in m .. MaxNodes : q[k] = NULL
      BY <1>1, <2>1 DEF HasNodes
    <3> QED BY <3>1, <3>2, <3>3
  <2>3. q[n - 1] = NULL
    <3>1. PathAt(Length) = NULL
      BY <1>0, <1>1 DEF PathAt, HasNodes
    <3>2. Length - 1 \in 0 .. MaxNodes /\ ~ (Length - 1 < i) /\ (Length - 1) + 1 = Length
      BY <1>0
    <3>3. Path'[Length - 1] = NULL
      BY <3>1, <3>2
    <3> QED BY <2>1, <3>3
  <2>4. ~ (n - 1 < m)
    BY <1>0, <2>2, <2>3
  <2>5. ~ (m < n - 1)
    <3> SUFFICES ASSUME m < n - 1 PROVE FALSE
      OBVIOUS
    <3>1. m \in 0 .. n - 2 /\ m \in 0 .. n - 1 /\ m + 1 \in 0 .. n - 1 /\ m \in m .. MaxNodes
      BY <1>0, <2>2
    <3>2. q[m] = NULL /\ q[m] # NULL
      BY <2>2, <3>1
    <3> QED BY <3>2
  <2>6. m = n - 1
    BY <2>2, <2>4, <2>5
  <2> QED BY <2>1, <2>6
<1>4. ASSUME NEW k \in 0 .. Length - 2
      PROVE  Entry(mem', Path'[k]) = Entry(mem, IF k < i THEN Path[k] ELSE Path[k + 1])
  <2>1. Path'[k] \in live' /\ live' \subseteq Addrs
    <3>1. k \in 0 .. Length' - 1
      BY <1>0, <1>3
    <3> QED BY <1>1, <3>1 DEF HasNodes, HeapTypes
  <2>2. Path'[k] \in Addrs /\ Path'[k] # Path[i]
    BY <2>1
  <2> QED BY <1>2, <2>2
<1>5. /\ List = [k \in 1 .. Length |-> Entry(mem, Path[k - 1])]
      /\ List' = [k \in 1 .. Length - 1 |-> Entry(mem', Path'[k - 1])]
      /\ Len(List) = Length
  BY <1>3, TightList, TightListNext
<1>6. List' = [k \in 1 .. Len(List) - 1 |-> IF k < i + 1 THEN List[k] ELSE List[k + 1]]
  <2>1. ASSUME NEW k \in 1 .. Length - 1
        PROVE  Entry(mem', Path'[k - 1]) = IF k < i + 1 THEN List[k] ELSE List[k + 1]
    <3>1. /\ k - 1 \in 0 .. Length - 2 /\ k \in 1 .. Length /\ k + 1 \in 1 .. Length
          /\ (k - 1) + 1 = k /\ (k + 1) - 1 = k /\ (k - 1 < i <=> k < i + 1)
      BY <1>0
    <3>2. List[k] = Entry(mem, Path[k - 1]) /\ List[k + 1] = Entry(mem, Path[k])
      BY <1>5, <3>1
    <3>3. Entry(mem', Path'[k - 1]) = Entry(mem, IF k - 1 < i THEN Path[k - 1] ELSE Path[k])
      BY <1>4, <3>1
    <3> QED BY <3>1, <3>2, <3>3
  <2> QED BY <1>5, <2>1
<1>7. i + 1 \in 1 .. Len(List) /\ List[i + 1] = [ip |-> x, nb |-> mem[Path[i]].nb]
  BY <1>0, <1>5 DEF Entry
<1>8. ASSUME NEW k \in 1 .. (i + 1) - 1 PROVE List[k].ip # x
  <2>1. k \in 1 .. Length /\ k - 1 \in 0 .. i - 1
    BY <1>0
  <2> QED BY <1>5, <2>1 DEF Entry
<1>9. Abstract!IsNewest(i + 1, x)
  BY <1>7, <1>8 DEF Abstract!IsNewest
<1> QED BY <1>6, <1>7, <1>9 DEF Abstract!Resume

-----------------------------------------------------------------------------
(* The search.                                                             *)

LEMMA FoundIsFirst ==
    ASSUME HeapTypes, Tight, NEW x \in Ips, contain(x)
    PROVE  \E i \in 0 .. Length - 1 :
              /\ Found(x) = Path[i] /\ mem[Path[i]].ip = x
              /\ \A k \in 0 .. i - 1 : mem[Path[k]].ip # x
<1>0. MaxNodes \in Nat \ {0} /\ Length \in Nat /\ Length <= MaxNodes
  BY StockAssumption, TightPath DEF HasNodes
<1>1. HasNodes(Path, Length, live)
  BY TightPath
<1> DEFINE First(i) == IsMatch(i, x) /\ \A j \in 0 .. i - 1 : ~IsMatch(j, x)
           Matches == {i \in 0 .. MaxNodes - 1 : IsMatch(i, x)}
<1>2. \E i \in 0 .. MaxNodes - 1 : First(i)
  <2>1. Matches \subseteq Nat /\ Matches # {}
    BY <1>0 DEF contain
  <2>2. PICK i \in Matches : \A j \in Matches : i <= j
    <3> HIDE DEF Matches
    <3> QED BY <2>1, LeastNat
  <2>3. \A j \in 0 .. i - 1 : j \in 0 .. MaxNodes - 1 /\ ~ (i <= j)
    BY <1>0, <2>2
  <2> QED BY <2>2, <2>3
<1>3. Found(x) = Path[CHOOSE i \in 0 .. MaxNodes - 1 : First(i)]
  BY DEF Found
<1>4. PICK i \in 0 .. MaxNodes - 1 : First(i) /\ Found(x) = Path[i]
  <2> HIDE DEF First
  <2> QED BY <1>2, <1>3
<1>5. i \in 0 .. Length - 1
  <2>1. ~ (i >= Length)
    BY <1>0, <1>1, <1>4 DEF HasNodes, IsMatch
  <2> QED BY <1>0, <2>1
<1>6. \A k \in 0 .. i - 1 : mem[Path[k]].ip # x
  BY <1>0, <1>1, <1>4, <1>5 DEF HasNodes, IsMatch
<1> QED BY <1>4, <1>5, <1>6 DEF IsMatch

-----------------------------------------------------------------------------
(* The walk of remove_by_ip.                                               *)

WalkStart == [previous |-> mem[head].next, current |-> mem[head].next,
              mem |-> mem, live |-> live, ok |-> TRUE]

\* The loop takes the node out on which it stands.
TakeOut(s, clobbered) ==
    LET skip == [s.mem EXCEPT ![s.previous].next = s.mem[s.current].next]
    IN  [previous |-> s.current,
         current |-> skip[s.current].next,
         mem |-> Freed(skip, s.current, clobbered),
         live |-> s.live \ {s.current},
         ok |-> s.ok /\ s.current \in s.live]

Turn(s, x, clobbered) ==
    IF s.current = NULL THEN s
    ELSE IF s.mem[s.current].ip = x THEN TakeOut(s, clobbered)
    ELSE Advance(s)

Turns(w, x, clobbered) ==
    /\ w[0] = WalkStart
    /\ \A k \in 0 .. MaxNodes : w[k + 1] = Turn(w[k], x, clobbered)

LEMMA WalkUnfold ==
    ASSUME NEW x, NEW clobbered
    PROVE  \E w : Turns(w, x, clobbered) /\ Walk(x, clobbered) = w[MaxNodes + 1]
<1>0. MaxNodes \in Nat /\ MaxNodes + 1 \in Nat
  BY StockAssumption
<1> DEFINE Goes(w, n) == w = [k \in 0 .. n |->
                          IF k = 0 THEN WalkStart ELSE Turn(w[k - 1], x, clobbered)]
           T == {n \in Nat : \E w : Goes(w, n)}
<1>1. 0 \in T
  <2>1. Goes([k \in 0 .. 0 |-> WalkStart], 0)
    OBVIOUS
  <2> QED BY <2>1
<1>2. ASSUME NEW n \in 0 .. (MaxNodes + 1) - 1, n \in T PROVE n + 1 \in T
  <2>1. n \in Nat
    BY <1>0
  <2>2. PICK w : Goes(w, n)
    BY <1>2
  <2> DEFINE v == [k \in 0 .. n + 1 |-> IF k <= n THEN w[k] ELSE Turn(w[n], x, clobbered)]
  <2>3. ASSUME NEW k \in 0 .. n + 1
        PROVE  v[k] = IF k = 0 THEN WalkStart ELSE Turn(v[k - 1], x, clobbered)
    <3>1. CASE k = 0
      BY <2>1, <2>2, <3>1
    <3>2. CASE k \in 1 .. n
      <4>1. k - 1 \in 0 .. n /\ k \in 0 .. n /\ k # 0
        BY <2>1, <3>2
      <4>2. v[k] = w[k] /\ v[k - 1] = w[k - 1]
        BY <2>1, <4>1
      <4>3. w[k] = Turn(w[k - 1], x, clobbered)
        BY <2>2, <4>1
      <4> QED BY <4>1, <4>2, <4>3
    <3>3. CASE k = n + 1
      <4>1. v[k] = Turn(w[n], x, clobbered) /\ v[k - 1] = w[n] /\ k # 0
        BY <2>1, <3>3
      <4> QED BY <4>1
    <3> QED BY <2>1, <3>1, <3>2, <3>3
  <2>4. Goes(v, n + 1)
    <3>1. v = [k \in 0 .. n + 1 |-> v[k]]
      OBVIOUS
    <3> HIDE DEF v
    <3> QED BY <2>3, <3>1
  <2> HIDE DEF v, Goes
  <2> QED BY <2>1, <2>4
<1>3. 0 .. MaxNodes + 1 \subseteq T
  <2> HIDE DEF T
  <2> QED BY <1>0, <1>1, <1>2, Induction
<1>4. \E w : Goes(w, MaxNodes + 1)
  BY <1>0, <1>3
<1> DEFINE W == CHOOSE w : Goes(w, MaxNodes + 1)
<1>5. Walk(x, clobbered) = W[MaxNodes + 1]
  BY DEF Walk, Turn, TakeOut, WalkStart
<1>6. Goes(W, MaxNodes + 1)
  <2> HIDE DEF Goes
  <2> QED BY <1>4
<1>7. W[0] = WalkStart
  <2> HIDE DEF W
  <2> QED BY <1>0, <1>6
<1>8. ASSUME NEW k \in 0 .. MaxNodes PROVE W[k + 1] = Turn(W[k], x, clobbered)
  <2>1. k + 1 \in 0 .. MaxNodes + 1 /\ k + 1 # 0 /\ (k + 1) - 1 = k
    BY <1>0
  <2> HIDE DEF W
  <2> QED BY <1>6, <2>1
<1> HIDE DEF W, Goes
<1> QED BY <1>5, <1>7, <1>8 DEF Turns

\* Wherever the walk goes, it changes the heap only, and it stands on a node
\* whenever it takes one out.
WalkTypes(s) ==
    /\ DOMAIN s = {"previous", "current", "mem", "live", "ok"}
    /\ s.previous \in Addrs \cup {NULL} /\ s.current \in Addrs \cup {NULL}
    /\ s.current # NULL => s.previous # NULL
    /\ s.mem \in [Addrs -> Node]
    /\ s.live \subseteq Addrs
    /\ s.ok \in BOOLEAN

LEMMA FreedTypes ==
    ASSUME NEW m \in [Addrs -> Node], NEW a \in Addrs, NEW clobbered \in BOOLEAN
    PROVE  /\ Freed(m, a, clobbered) \in [Addrs -> Node]
           /\ \A b \in Addrs : /\ Freed(m, a, clobbered)[b].next = m[b].next
                               /\ Freed(m, a, clobbered)[b].nb = m[b].nb
                               /\ b # a => Freed(m, a, clobbered)[b] = m[b]
<1>1. CASE clobbered
  <2>1. Freed(m, a, clobbered) = [m EXCEPT ![a].ip = Garbage]
    BY <1>1 DEF Freed
  <2> QED BY <2>1 DEF Node
<1>2. CASE ~ clobbered
  BY <1>2 DEF Freed
<1> QED BY <1>1, <1>2

\* The previous node passes over the current one.
LEMMA SkipTypes ==
    ASSUME NEW m \in [Addrs -> Node], NEW a \in Addrs, NEW b \in Addrs, NEW n,
           n = [m EXCEPT ![a].next = m[b].next]
    PROVE  /\ n \in [Addrs -> Node]
           /\ \A d \in Addrs : /\ n[d].ip = m[d].ip /\ n[d].nb = m[d].nb
                               /\ n[d].next = IF d = a THEN m[b].next ELSE m[d].next
                               /\ d # a => n[d] = m[d]
<1>1. m[b].next \in Addrs \cup {NULL}
  BY DEF Node
<1> QED BY <1>1 DEF Node

LEMMA TurnTypes ==
    ASSUME NEW s, WalkTypes(s), NEW x, NEW clobbered \in BOOLEAN
    PROVE  WalkTypes(Turn(s, x, clobbered))
<1>1. CASE s.current = NULL
  BY <1>1 DEF Turn
<1>2. CASE s.current # NULL /\ s.mem[s.current].ip = x
  <2>1. /\ s.mem \in [Addrs -> Node] /\ s.live \subseteq Addrs /\ s.ok \in BOOLEAN
        /\ s.previous \in Addrs /\ s.current \in Addrs
    BY <1>2 DEF WalkTypes
  <2>2. PICK skip : skip = [s.mem EXCEPT ![s.previous].next = s.mem[s.current].next]
    OBVIOUS
  <2>3. skip \in [Addrs -> Node]
    BY <2>1, <2>2, SkipTypes
  <2>4. Freed(skip, s.current, clobbered) \in [Addrs -> Node]
    BY <2>1, <2>3, FreedTypes
  <2>5. skip[s.current].next \in Addrs \cup {NULL}
    BY <2>1, <2>3 DEF Node
  <2>6. Turn(s, x, clobbered) =
          [previous |-> s.current, current |-> skip[s.current].next,
           mem |-> Freed(skip, s.current, clobbered), live |-> s.live \ {s.current},
           ok |-> s.ok /\ s.current \in s.live]
    BY <1>2, <2>2 DEF Turn, TakeOut
  <2> QED BY <1>2, <2>1, <2>4, <2>5, <2>6 DEF WalkTypes
<1>3. CASE s.current # NULL /\ s.mem[s.current].ip # x
  <2>1. s.mem[s.current].next \in Addrs \cup {NULL}
    BY <1>3 DEF WalkTypes, Node
  <2> QED BY <1>3, <2>1 DEF Turn, Advance, WalkTypes
<1> QED BY <1>1, <1>2, <1>3

LEMMA WalkKeepsTypes ==
    ASSUME HeapTypes, head # NULL, NEW x, NEW clobbered \in BOOLEAN
    PROVE  WalkTypes(Walk(x, clobbered))
<1>0. MaxNodes \in Nat /\ MaxNodes + 1 \in Nat
  BY StockAssumption
<1>1. PICK w : Turns(w, x, clobbered) /\ Walk(x, clobbered) = w[MaxNodes + 1]
  BY WalkUnfold
<1> DEFINE T == {k \in Nat : WalkTypes(w[k])}
<1>2. 0 \in T
  <2>1. mem[head].next \in Addrs \cup {NULL}
    BY DEF HeapTypes, Node
  <2>2. w[0] = WalkStart
    BY <1>1 DEF Turns
  <2>3. WalkTypes(WalkStart)
    BY <2>1 DEF HeapTypes, WalkTypes, WalkStart
  <2> QED BY <2>2, <2>3
<1>3. ASSUME NEW k \in 0 .. (MaxNodes + 1) - 1, k \in T PROVE k + 1 \in T
  <2>1. k \in 0 .. MaxNodes /\ k + 1 \in Nat
    BY <1>0
  <2>2. w[k + 1] = Turn(w[k], x, clobbered)
    BY <1>1, <2>1 DEF Turns
  <2>3. WalkTypes(w[k])
    BY <1>3
  <2>4. WalkTypes(Turn(w[k], x, clobbered))
    BY <2>3, TurnTypes
  <2> QED BY <2>1, <2>2, <2>4
<1>4. 0 .. MaxNodes + 1 \subseteq T
  <2> HIDE DEF T
  <2> QED BY <1>0, <1>2, <1>3, Induction
<1> QED BY <1>0, <1>1, <1>4

\* On a tight list, the walk stands after j turns on the node j + 1, and it has
\* not touched this node and the next ones.
Stands(s, j) ==
    /\ WalkTypes(s)
    /\ s.ok
    /\ s.current = PathAt(j + 1)
    /\ s.current # NULL => s.previous = IF j = 0 THEN Path[1] ELSE Path[j]
    /\ \A k \in j + 1 .. Length - 1 : s.mem[Path[k]] = mem[Path[k]] /\ Path[k] \in s.live

LEMMA WalkStands ==
    ASSUME HeapTypes, Tight, head # NULL
    PROVE  Stands(WalkStart, 0)
<1>0. MaxNodes \in Nat \ {0}
  BY StockAssumption
<1>1. HasNodes(Path, Length, live)
  BY TightPath
<1>2. Path[0] = head /\ PathAt(0) = head /\ PathAt(1) = Path[1]
  BY <1>0, PathFollows DEF Follows, PathAt
<1>3. PathAt(0 + 1) = mem[head].next
  BY <1>2, PathGoesOn
<1>4. WalkTypes(WalkStart)
  <2>1. mem[head].next \in Addrs \cup {NULL}
    BY DEF HeapTypes, Node
  <2> QED BY <2>1 DEF HeapTypes, WalkTypes, WalkStart
<1>5. \A k \in 0 + 1 .. Length - 1 : Path[k] \in live
  BY <1>0, <1>1 DEF HasNodes
<1> QED BY <1>2, <1>3, <1>4, <1>5 DEF Stands, WalkStart

\* What a turn meets on a tight list.
LEMMA TurnMeets ==
    ASSUME HeapTypes, Tight, NEW s, NEW j \in Nat, Stands(s, j), s.current # NULL
    PROVE  /\ j + 1 \in 1 .. Length - 1
           /\ s.current = Path[j + 1] /\ s.current \in Addrs /\ s.previous \in Addrs
           /\ s.mem[s.current] = mem[s.current] /\ s.current \in s.live
           /\ PathAt((j + 1) + 1) = mem[s.current].next
<1>0. MaxNodes \in Nat \ {0} /\ Length \in Nat /\ Length <= MaxNodes
  BY StockAssumption, TightPath DEF HasNodes
<1>1. s.current = PathAt(j + 1) /\ j + 1 \in Nat
  BY DEF Stands
<1>2. /\ j + 1 \in 0 .. Length - 1 /\ s.current = Path[j + 1]
      /\ PathAt((j + 1) + 1) = mem[s.current].next
  BY <1>1, PathGoesOn
<1>3. s.current \in Addrs /\ s.previous \in Addrs
  BY DEF Stands, WalkTypes
<1>4. j + 1 \in j + 1 .. Length - 1 /\ j + 1 \in 1 .. Length - 1
  BY <1>0, <1>2
<1>5. s.mem[s.current] = mem[s.current] /\ s.current \in s.live
  BY <1>2, <1>4 DEF Stands
<1> QED BY <1>2, <1>3, <1>4, <1>5

LEMMA TurnStands ==
    ASSUME HeapTypes, Tight, NEW s, NEW j \in Nat, Stands(s, j),
           NEW x, NEW clobbered \in BOOLEAN
    PROVE  Stands(Turn(s, x, clobbered), j + 1)
<1>0. MaxNodes \in Nat \ {0} /\ Length \in Nat /\ Length <= MaxNodes
  BY StockAssumption, TightPath DEF HasNodes
<1>1. WalkTypes(Turn(s, x, clobbered))
  BY TurnTypes DEF Stands
<1>2. CASE s.current = NULL
  <2>1. PathAt(j + 1) = NULL /\ PathAt((j + 1) + 1) = NULL
    <3>1. j + 1 \in Nat /\ PathAt(j + 1) = NULL
      BY <1>2 DEF Stands
    <3> QED BY <3>1, PathGoesOn
  <2>2. \A k \in (j + 1) + 1 .. Length - 1 : k \in j + 1 .. Length - 1
    BY <1>0
  <2> QED BY <1>1, <1>2, <2>1, <2>2 DEF Turn, Stands
<1>3. CASE s.current # NULL
  <2>1. /\ j + 1 \in 1 .. Length - 1
        /\ s.current = Path[j + 1] /\ s.current \in Addrs /\ s.previous \in Addrs
        /\ s.mem[s.current] = mem[s.current] /\ s.current \in s.live
        /\ PathAt((j + 1) + 1) = mem[s.current].next
    BY <1>3, TurnMeets
  <2>2. /\ s.mem \in [Addrs -> Node] /\ s.live \subseteq Addrs /\ s.ok \in BOOLEAN /\ s.ok
        /\ s.previous = IF j = 0 THEN Path[1] ELSE Path[j]
    BY <1>3 DEF Stands, WalkTypes
  <2>3. ASSUME NEW k \in (j + 1) + 1 .. Length - 1
        PROVE  /\ s.mem[Path[k]] = mem[Path[k]] /\ Path[k] \in s.live
               /\ Path[k] # s.current /\ Path[k] # s.previous /\ Path[k] \in Addrs
    <3>1. /\ k \in j + 1 .. Length - 1 /\ k \in 0 .. Length - 1 /\ k # j + 1 /\ k # j
          /\ k # 1 /\ j \in 0 .. Length - 1 /\ j + 1 \in 0 .. Length - 1
      BY <1>0, <2>1
    <3>2. s.mem[Path[k]] = mem[Path[k]] /\ Path[k] \in s.live
      BY <3>1 DEF Stands
    <3>3. Path[k] # Path[j + 1] /\ Path[k] # Path[j]
      BY <3>1, TightNodesDistinct
    <3>4. j = 0 => Path[1] = Path[j + 1]
      OBVIOUS
    <3> QED BY <2>1, <2>2, <3>2, <3>3, <3>4
  <2>4. CASE s.mem[s.current].ip = x
    <3>1. PICK skip : skip = [s.mem EXCEPT ![s.previous].next = s.mem[s.current].next]
      OBVIOUS
    <3>2. /\ skip \in [Addrs -> Node]
          /\ skip[s.current].next = mem[s.current].next
          /\ \A a \in Addrs : a # s.previous => skip[a] = s.mem[a]
      BY <2>1, <2>2, <3>1, SkipTypes
    <3>3. \A a \in Addrs : a # s.current => Freed(skip, s.current, clobbered)[a] = skip[a]
      BY <2>1, <3>2, FreedTypes
    <3>4. Turn(s, x, clobbered) =
            [previous |-> s.current, current |-> skip[s.current].next,
             mem |-> Freed(skip, s.current, clobbered), live |-> s.live \ {s.current},
             ok |-> s.ok /\ s.current \in s.live]
      BY <1>3, <2>4, <3>1 DEF Turn, TakeOut
    <3>5. PICK t : t = Turn(s, x, clobbered)
      OBVIOUS
    <3>6. /\ t.ok /\ t.current = PathAt((j + 1) + 1) /\ t.previous = Path[j + 1]
          /\ t.mem = Freed(skip, s.current, clobbered) /\ t.live = s.live \ {s.current}
      <4>1. t.ok = (s.ok /\ s.current \in s.live)
        BY <3>4, <3>5
      <4>2. t.ok
        BY <2>1, <2>2, <4>1
      <4>3. /\ t.current = skip[s.current].next /\ t.previous = s.current
            /\ t.mem = Freed(skip, s.current, clobbered) /\ t.live = s.live \ {s.current}
        BY <3>4, <3>5
      <4> QED BY <2>1, <3>2, <4>2, <4>3
    <3>7. ASSUME NEW k \in (j + 1) + 1 .. Length - 1
          PROVE  t.mem[Path[k]] = mem[Path[k]] /\ Path[k] \in t.live
      BY <2>3, <3>2, <3>3, <3>6
    <3>8. j + 1 # 0
      OBVIOUS
    <3> QED BY <1>1, <3>5, <3>6, <3>7, <3>8 DEF Stands
  <2>5. CASE s.mem[s.current].ip # x
    <3>1. PICK t : t = Turn(s, x, clobbered)
      OBVIOUS
    <3>2. t = [s EXCEPT !.previous = s.current, !.current = s.mem[s.current].next]
      BY <1>3, <2>5, <3>1 DEF Turn, Advance
    <3>3. DOMAIN s = {"previous", "current", "mem", "live", "ok"}
      BY DEF Stands, WalkTypes
    <3>4. /\ t.ok = s.ok /\ t.current = PathAt((j + 1) + 1) /\ t.previous = Path[j + 1]
          /\ t.mem = s.mem /\ t.live = s.live
      BY <2>1, <3>2, <3>3
    <3>5. j + 1 # 0
      OBVIOUS
    <3> QED BY <1>1, <2>2, <2>3, <3>1, <3>4, <3>5 DEF Stands
  <2> QED BY <2>4, <2>5
<1> QED BY <1>2, <1>3

\* The walk along a tight list comes to its end.
LEMMA WalkEnds ==
    ASSUME HeapTypes, Tight, head # NULL, NEW x, NEW clobbered \in BOOLEAN
    PROVE  Walk(x, clobbered).ok /\ Walk(x, clobbered).current = NULL
<1>0. MaxNodes \in Nat /\ MaxNodes + 1 \in Nat
  BY StockAssumption
<1>1. PICK w : Turns(w, x, clobbered) /\ Walk(x, clobbered) = w[MaxNodes + 1]
  BY WalkUnfold
<1> DEFINE T == {k \in Nat : Stands(w[k], k)}
<1>2. 0 \in T
  BY <1>1, WalkStands DEF Turns
<1>3. ASSUME NEW k \in 0 .. (MaxNodes + 1) - 1, k \in T PROVE k + 1 \in T
  <2>1. k \in 0 .. MaxNodes /\ k \in Nat /\ k + 1 \in Nat
    BY <1>0
  <2>2. w[k + 1] = Turn(w[k], x, clobbered)
    BY <1>1, <2>1 DEF Turns
  <2>3. Stands(Turn(w[k], x, clobbered), k + 1)
    BY <1>3, <2>1, TurnStands
  <2> QED BY <2>1, <2>2, <2>3
<1>4. 0 .. MaxNodes + 1 \subseteq T
  <2> HIDE DEF T
  <2> QED BY <1>0, <1>2, <1>3, Induction
<1>5. Stands(w[MaxNodes + 1], MaxNodes + 1)
  BY <1>0, <1>4
<1>6. PathAt((MaxNodes + 1) + 1) = NULL
  BY <1>0 DEF PathAt
<1> QED BY <1>1, <1>5, <1>6 DEF Stands

-----------------------------------------------------------------------------
(* One match below the head.                                               *)

\* The node Path[i] is the only one below the head with this address.
OnlyMatch(i, x) ==
    /\ i \in 1 .. Length - 1
    /\ \A k \in 1 .. Length - 1 : mem[Path[k]].ip = x <=> k = i

\* The heap when the walk has passed over it; the second node of the list has
\* no other node before it than itself.
PassedOver(i) ==
    [mem EXCEPT ![IF i = 1 THEN Path[1] ELSE Path[i - 1]].next = mem[Path[i]].next]

\* What the walk has done after j turns.
HasDone(s, j, i, clobbered) ==
    IF j < i THEN s.mem = mem /\ s.live = live
    ELSE s.mem = Freed(PassedOver(i), Path[i], clobbered) /\ s.live = live \ {Path[i]}

LEMMA TurnDoes ==
    ASSUME HeapTypes, Tight, NEW s, NEW j \in Nat, Stands(s, j),
           NEW x, NEW clobbered \in BOOLEAN, NEW i, OnlyMatch(i, x),
           HasDone(s, j, i, clobbered)
    PROVE  HasDone(Turn(s, x, clobbered), j + 1, i, clobbered)
<1>0. MaxNodes \in Nat \ {0} /\ Length \in Nat /\ Length <= MaxNodes /\ i \in 1 .. Length - 1
  BY StockAssumption, TightPath DEF HasNodes, OnlyMatch
<1>1. PICK t : t = Turn(s, x, clobbered)
  OBVIOUS
<1>2. CASE s.current = NULL
  <2>1. t = s
    BY <1>1, <1>2 DEF Turn
  <2>2. ~ (j < i)
    <3> SUFFICES ASSUME j < i PROVE FALSE
      OBVIOUS
    <3>1. j + 1 \in Nat /\ j + 1 \in 0 .. Length - 1
      BY <1>0
    <3>2. PathAt(j + 1) # NULL
      BY <3>1, PathGoesOn
    <3> QED BY <1>2, <3>2 DEF Stands
  <2>3. ~ (j + 1 < i)
    BY <1>0, <2>2
  <2> QED BY <1>1, <2>1, <2>2, <2>3 DEF HasDone
<1>3. CASE s.current # NULL
  <2>1. /\ j + 1 \in 1 .. Length - 1
        /\ s.current = Path[j + 1] /\ s.mem[s.current] = mem[s.current]
    BY <1>3, TurnMeets
  <2>2. s.mem[s.current].ip = x <=> j + 1 = i
    BY <2>1 DEF OnlyMatch
  <2>3. CASE j + 1 = i
    <3>1. j < i /\ ~ (j + 1 < i) /\ j = i - 1 /\ (j = 0 <=> i = 1)
      BY <1>0, <2>3
    <3>2. s.mem = mem /\ s.live = live
      BY <3>1 DEF HasDone
    <3>3. s.previous = IF i = 1 THEN Path[1] ELSE Path[i - 1]
      BY <1>3, <3>1 DEF Stands
    <3>4. [s.mem EXCEPT ![s.previous].next = s.mem[s.current].next] = PassedOver(i)
      BY <2>1, <2>3, <3>2, <3>3 DEF PassedOver
    <3>5. t = [previous |-> s.current, current |-> PassedOver(i)[s.current].next,
               mem |-> Freed(PassedOver(i), s.current, clobbered),
               live |-> s.live \ {s.current}, ok |-> s.ok /\ s.current \in s.live]
      BY <1>1, <1>3, <2>2, <2>3, <3>4 DEF Turn, TakeOut
    <3>6. t.mem = Freed(PassedOver(i), s.current, clobbered) /\ t.live = s.live \ {s.current}
      BY <3>5
    <3> QED BY <1>1, <2>1, <2>3, <3>1, <3>2, <3>6 DEF HasDone
  <2>4. CASE j + 1 # i
    <3>1. t = [s EXCEPT !.previous = s.current, !.current = s.mem[s.current].next]
      BY <1>1, <1>3, <2>2, <2>4 DEF Turn, Advance
    <3>2. DOMAIN s = {"previous", "current", "mem", "live", "ok"}
      BY DEF Stands, WalkTypes
    <3>3. t.mem = s.mem /\ t.live = s.live
      BY <3>1, <3>2
    <3>4. j < i <=> j + 1 < i
      BY <1>0, <2>4
    <3> QED BY <1>1, <3>3, <3>4 DEF HasDone
  <2> QED BY <2>3, <2>4
<1> QED BY <1>2, <1>3

LEMMA WalkDoes ==
    ASSUME HeapTypes, Tight, head # NULL, NEW x, NEW clobbered \in BOOLEAN,
           NEW i, OnlyMatch(i, x)
    PROVE  /\ Walk(x, clobbered).mem = Freed(PassedOver(i), Path[i], clobbered)
           /\ Walk(x, clobbered).live = live \ {Path[i]}
<1>0. /\ MaxNodes \in Nat /\ MaxNodes + 1 \in Nat /\ i \in 1 .. Length - 1
      /\ Length \in Nat /\ Length <= MaxNodes
  BY StockAssumption, TightPath DEF HasNodes, OnlyMatch
<1>1. PICK w : Turns(w, x, clobbered) /\ Walk(x, clobbered) = w[MaxNodes + 1]
  BY WalkUnfold
<1> DEFINE T == {k \in Nat : Stands(w[k], k) /\ HasDone(w[k], k, i, clobbered)}
<1>2. 0 \in T
  <2>1. w[0] = WalkStart /\ Stands(w[0], 0)
    BY <1>1, WalkStands DEF Turns
  <2>2. w[0].mem = mem /\ w[0].live = live /\ 0 < i
    BY <1>0, <2>1 DEF WalkStart
  <2> QED BY <2>1, <2>2 DEF HasDone
<1>3. ASSUME NEW k \in 0 .. (MaxNodes + 1) - 1, k \in T PROVE k + 1 \in T
  <2>1. k \in 0 .. MaxNodes /\ k \in Nat /\ k + 1 \in Nat
    BY <1>0
  <2>2. w[k + 1] = Turn(w[k], x, clobbered)
    BY <1>1, <2>1 DEF Turns
  <2>3. Stands(w[k], k) /\ HasDone(w[k], k, i, clobbered)
    BY <1>3
  <2>4. Stands(Turn(w[k], x, clobbered), k + 1)
    BY <2>1, <2>3, TurnStands
  <2>5. HasDone(Turn(w[k], x, clobbered), k + 1, i, clobbered)
    BY <2>1, <2>3, TurnDoes
  <2> QED BY <2>1, <2>2, <2>4, <2>5
<1>4. 0 .. MaxNodes + 1 \subseteq T
  <2> HIDE DEF T
  <2> QED BY <1>0, <1>2, <1>3, Induction
<1>5. HasDone(w[MaxNodes + 1], MaxNodes + 1, i, clobbered) /\ ~ (MaxNodes + 1 < i)
  BY <1>0, <1>4
<1> QED BY <1>1, <1>5 DEF HasDone

\* remove_by_ip takes the node out, unless it is the second of the list, which
\* it frees and leaves there.
LEMMA RemoveBelowHead ==
    ASSUME HeapTypes, Tight, Tight', NEW x \in Ips, head # NULL, mem[head].ip # x,
           NEW clobbered \in BOOLEAN, remove_by_ip(x, clobbered),
           NEW i, OnlyMatch(i, x)
    PROVE  /\ live' = live \ {Path[i]}
           /\ \A k \in 0 .. MaxNodes : Path'[k] = IF k < i THEN Path[k] ELSE PathAt(k + 1)
           /\ \A a \in Addrs : a # Path[i] => Entry(mem', a) = Entry(mem, a)
<1>0. /\ MaxNodes \in Nat \ {0} /\ i \in 1 .. Length - 1
      /\ Length \in Nat /\ Length <= MaxNodes
  BY StockAssumption, TightPath DEF HasNodes, OnlyMatch
<1>1. HasNodes(Path, Length, live)
  BY TightPath
<1>2. /\ head' = head
      /\ mem' = Freed(PassedOver(i), Path[i], clobbered)
      /\ live' = live \ {Path[i]}
  <2>1. PICK w : w = Walk(x, clobbered)
    OBVIOUS
  <2>2. head' = head /\ mem' = w.mem /\ live' = w.live
    BY <2>1 DEF remove_by_ip
  <2> QED BY <2>1, <2>2, WalkDoes
<1>3. Path[i] \in Addrs /\ Path[1] \in Addrs /\ Path[i - 1] \in Addrs /\ Path[1] # NULL
  <2>1. i \in 0 .. Length - 1 /\ 1 \in 0 .. Length - 1 /\ i - 1 \in 0 .. Length - 1
    BY <1>0
  <2> QED BY <1>1, <2>1 DEF HasNodes, HeapTypes
<1>4. PICK b \in Addrs : b = IF i = 1 THEN Path[1] ELSE Path[i - 1]
  BY <1>3
<1>5. PICK n : n = PassedOver(i)
  OBVIOUS
<1>6. n = [mem EXCEPT ![b].next = mem[Path[i]].next]
  BY <1>4, <1>5 DEF PassedOver
<1>7. /\ n \in [Addrs -> Node]
      /\ \A a \in Addrs : /\ n[a].ip = mem[a].ip /\ n[a].nb = mem[a].nb
                          /\ n[a].next = IF a = b THEN mem[Path[i]].next ELSE mem[a].next
  <2>1. PICK q \in Addrs : q = Path[i]
    BY <1>3
  <2>2. mem \in [Addrs -> Node] /\ n = [mem EXCEPT ![b].next = mem[q].next]
    BY <1>6, <2>1 DEF HeapTypes
  <2>3. /\ n \in [Addrs -> Node]
        /\ \A a \in Addrs : /\ n[a].ip = mem[a].ip /\ n[a].nb = mem[a].nb
                            /\ n[a].next = IF a = b THEN mem[q].next ELSE mem[a].next
    BY <2>2, SkipTypes
  <2> QED BY <2>1, <2>3
<1>8. mem' = Freed(n, Path[i], clobbered)
  BY <1>2, <1>5
<1>9. \A a \in Addrs : /\ mem'[a].next = n[a].next
                       /\ a # Path[i] => mem'[a] = n[a]
  BY <1>3, <1>7, <1>8, FreedTypes
<1>10. \A a \in Addrs : a # Path[i] => Entry(mem', a) = Entry(mem, a)
  BY <1>7, <1>9 DEF Entry
<1>11. i # 1
  <2> SUFFICES ASSUME i = 1 PROVE FALSE
    OBVIOUS
  <2>1. b = Path[1]
    BY <1>4
  <2>2. head \in Addrs /\ mem'[head].next = mem[head].next
    BY <1>7, <1>9, <2>1 DEF HeapTypes
  <2>3. Path'[0] = head /\ Path[0] = head
    BY <1>2, PathFollows DEF Follows
  <2>4. Path'[0 + 1] = mem[head].next /\ Path[0 + 1] = mem[head].next
    BY <1>0, <2>2, <2>3, PathFollows DEF Follows
  <2>5. Path'[1] = Path[1]
    BY <2>4
  <2>6. Path'[1] # NULL /\ Path'[1] \notin live'
    BY <1>2, <1>3, <2>5
  <2> QED BY <1>0, <2>6 DEF Tight
<1>12. \A a \in Addrs : mem'[a].next = IF a = Path[i - 1] THEN mem[Path[i]].next
                                       ELSE mem[a].next
  BY <1>4, <1>7, <1>9, <1>11
<1>13. \A k \in 0 .. MaxNodes : Path'[k] = IF k < i THEN Path[k] ELSE PathAt(k + 1)
  BY <1>0, <1>2, <1>12, PathWithoutNode
<1> QED BY <1>2, <1>10, <1>13

\* The head, when it is the node to remove.
LEMMA RemoveHead ==
    ASSUME HeapTypes, Tight, NEW x \in Ips, head # NULL, mem[head].ip = x,
           NEW clobbered \in BOOLEAN, remove_by_ip(x, clobbered)
    PROVE  /\ live' = live \ {head}
           /\ \A k \in 0 .. MaxNodes : Path'[k] = PathAt(k + 1)
           /\ \A a \in Addrs : a # head => Entry(mem', a) = Entry(mem, a)
<1>1. /\ head' = mem[head].next
      /\ mem' = Freed(mem, head, clobbered)
      /\ live' = live \ {head}
  BY DEF remove_by_ip, remove_first
<1>2. \A a \in Addrs : /\ mem'[a].next = mem[a].next
                       /\ a # head => mem'[a] = mem[a]
  BY <1>1, FreedTypes DEF HeapTypes
<1>3. \A k \in 0 .. MaxNodes : Path'[k] = PathAt(k + 1)
  BY <1>1, <1>2, PathWithoutHead
<1> QED BY <1>1, <1>2, <1>3 DEF Entry

LEMMA ResumeImplements ==
    ASSUME HeapTypes, Tight, Tight', NEW x \in Ips, Resume(x), TakesOne(x)
    PROVE  Abstract!Resume(x)
<1>0. MaxNodes \in Nat \ {0} /\ Length \in Nat /\ Length <= MaxNodes
  BY StockAssumption, TightPath DEF HasNodes
<1>1. PICK i \in 0 .. Length - 1 :
          /\ Found(x) = Path[i] /\ mem[Path[i]].ip = x
          /\ \A k \in 0 .. i - 1 : mem[Path[k]].ip # x
  BY FoundIsFirst DEF Resume
<1>2. Path[0] = head /\ head # NULL
  <2>1. 0 \in 0 .. Length - 1
    BY <1>0
  <2> QED BY <2>1, TightPath, PathFollows DEF HasNodes, Follows
<1>3. given' = [ip |-> x, nb |-> mem[Path[i]].nb]
  BY <1>1 DEF Resume
<1>4. PICK clobbered \in BOOLEAN : remove_by_ip(x, clobbered)
  BY DEF Resume
<1>5. CASE mem[head].ip = x
  <2>1. i = 0
    BY <1>0, <1>1, <1>2, <1>5
  <2>2. /\ live' = live \ {Path[i]}
        /\ \A k \in 0 .. MaxNodes : Path'[k] = PathAt(k + 1)
        /\ \A a \in Addrs : a # Path[i] => Entry(mem', a) = Entry(mem, a)
    BY <1>2, <1>4, <1>5, <2>1, RemoveHead
  <2>3. \A k \in 0 .. MaxNodes : Path'[k] = IF k < i THEN Path[k] ELSE PathAt(k + 1)
    BY <2>1, <2>2
  <2> QED BY <1>1, <1>3, <2>2, <2>3, RemovesOne
<1>6. CASE mem[head].ip # x
  <2>1. i \in 1 .. Length - 1
    BY <1>0, <1>1, <1>2, <1>6
  <2> DEFINE Matches == {k \in 1 .. Length : List[k].ip = x}
  <2>2. \A k \in 0 .. Length - 1 : k + 1 \in 1 .. Length /\ List[k + 1].ip = mem[Path[k]].ip
    <3> SUFFICES ASSUME NEW k \in 0 .. Length - 1
                 PROVE  k + 1 \in 1 .. Length /\ List[k + 1].ip = mem[Path[k]].ip
      OBVIOUS
    <3>1. k + 1 \in 1 .. Length /\ (k + 1) - 1 = k
      BY <1>0
    <3> QED BY <3>1, TightList DEF Entry
  <2>3. \E k : Matches = {k}
    <3>1. IsFiniteSet(1 .. Length)
      BY <1>0, FS_Interval
    <3>2. IsFiniteSet(Matches)
      BY <3>1, FS_Subset
    <3>3. Cardinality(Matches) = 1
      BY <1>6 DEF TakesOne
    <3> HIDE DEF Matches
    <3> QED BY <3>2, <3>3, FS_Singleton
  <2>4. i + 1 \in Matches
    BY <1>0, <1>1, <2>1, <2>2
  <2>5. ASSUME NEW k \in 1 .. Length - 1, mem[Path[k]].ip = x PROVE k = i
    <3>1. k + 1 \in Matches
      BY <1>0, <2>2, <2>5
    <3>2. k + 1 = i + 1
      <4> HIDE DEF Matches
      <4> QED BY <2>3, <2>4, <3>1
    <3> QED BY <1>0, <3>2
  <2>6. OnlyMatch(i, x)
    BY <1>1, <2>1, <2>5 DEF OnlyMatch
  <2>7. /\ live' = live \ {Path[i]}
        /\ \A k \in 0 .. MaxNodes : Path'[k] = IF k < i THEN Path[k] ELSE PathAt(k + 1)
        /\ \A a \in Addrs : a # Path[i] => Entry(mem', a) = Entry(mem, a)
    BY <1>2, <1>4, <1>6, <2>6, RemoveBelowHead
  <2> QED BY <1>1, <1>3, <2>7, RemovesOne
<1> QED BY <1>5, <1>6

-----------------------------------------------------------------------------
(* The types of the heap.                                                  *)

LEMMA HeapTypesInit == Init => HeapTypes
<1> SUFFICES ASSUME Init PROVE HeapTypes
  OBVIOUS
<1>1. [ip |-> Garbage, nb |-> 0, next |-> NULL] \in Node
  BY DEF Node
<1> QED BY <1>1 DEF Init, HeapTypes

LEMMA MatchingHead ==
    ASSUME HeapTypes, NEW x, contain(x)
    PROVE  head \in Addrs
<1>0. MaxNodes \in Nat \ {0}
  BY StockAssumption
<1> SUFFICES ASSUME head = NULL PROVE FALSE
  BY DEF HeapTypes
<1> DEFINE T == {k \in Nat : k <= MaxNodes => Path[k] = NULL}
<1>1. 0 \in T
  BY PathFollows DEF Follows
<1>2. ASSUME NEW k \in 0 .. MaxNodes - 1, k \in T PROVE k + 1 \in T
  <2>1. Path[k] = NULL
    BY <1>0, <1>2
  <2> QED BY <1>0, <2>1, PathFollows DEF Follows
<1>3. 0 .. MaxNodes \subseteq T
  <2> HIDE DEF T
  <2> QED BY <1>0, <1>1, <1>2, Induction
<1> QED BY <1>0, <1>3 DEF contain, IsMatch

LEMMA HeapTypesStep == HeapTypes /\ [Next]_vars => HeapTypes'
<1> SUFFICES ASSUME HeapTypes, [Next]_vars PROVE HeapTypes'
  OBVIOUS
<1>1. ASSUME NEW x \in Ips, NEW nb \in Offsets, Register(x, nb) PROVE HeapTypes'
  <2>1. PICK a \in Addrs \ live :
            /\ mem' = [mem EXCEPT ![a] = [ip |-> x, nb |-> nb, next |-> head]]
            /\ head' = a
            /\ live' = live \cup {a}
    BY <1>1 DEF Register
  <2>2. [ip |-> x, nb |-> nb, next |-> head] \in Node
    BY StockAssumption DEF HeapTypes, Node
  <2> QED BY <2>1, <2>2 DEF HeapTypes
<1>2. ASSUME NEW x \in Ips, Resume(x) PROVE HeapTypes'
  <2>1. PICK clobbered \in BOOLEAN : remove_by_ip(x, clobbered)
    BY <1>2 DEF Resume
  <2>2. head \in Addrs /\ head # NULL
    <3>1. head \in Addrs
      BY <1>2, MatchingHead DEF Resume
    <3> QED BY <3>1, StockAssumption DEF Addrs, NULL
  <2>3. CASE mem[head].ip = x
    <3>1. head' = mem[head].next /\ mem' = Freed(mem, head, clobbered) /\ live' = live \ {head}
      BY <2>1, <2>3 DEF remove_by_ip, remove_first
    <3>2. mem[head].next \in Addrs \cup {NULL}
      BY <2>2 DEF HeapTypes, Node
    <3> QED BY <2>2, <3>1, <3>2, FreedTypes DEF HeapTypes
  <2>4. CASE mem[head].ip # x
    <3>1. PICK w : w = Walk(x, clobbered)
      OBVIOUS
    <3>2. head' = head /\ mem' = w.mem /\ live' = w.live
      BY <2>1, <2>4, <3>1 DEF remove_by_ip
    <3>3. WalkTypes(w)
      BY <2>2, <3>1, WalkKeepsTypes
    <3> QED BY <3>2, <3>3 DEF HeapTypes, WalkTypes
  <2> QED BY <2>3, <2>4
<1>3. ASSUME NEW x \in Ips, SearchLoops(x) PROVE HeapTypes'
  BY <1>3 DEF SearchLoops, HeapTypes
<1>4. CASE UNCHANGED vars
  BY <1>4 DEF vars, HeapTypes
<1> QED BY <1>1, <1>2, <1>3, <1>4 DEF Next

\* Whatever has been freed, the pointers of the list stay in the heap
\* (stock_ip.c:12-143).
THEOREM PointersStayInHeap == Spec => []HeapTypes
<1> QED BY HeapTypesInit, HeapTypesStep, PTL DEF Spec

-----------------------------------------------------------------------------
\* As long as the list is tight, registering and resuming are the steps of the
\* abstract list: each transfer is given once, the newest first (master.c:143-151,
\* 209-210, 259; stock_ip.c:10-67, 120-143).
THEOREM TightListIsTheAbstractList == Spec => TightListImplements
<1> DEFINE Implements ==
        (Tight /\ Tight') =>
          \A c \in Ips :
             /\ (Resume(c) /\ TakesOne(c)) => Abstract!Resume(c)
             /\ \A nb \in Offsets : Register(c, nb) => Abstract!Register(c, nb)
<1>1. HeapTypes => Implements
  BY ResumeImplements, RegisterImplements
<1>2. HeapTypes /\ [Next]_vars => [Implements]_vars
  BY <1>1
<1> HIDE DEF Implements
<1>3. Spec => [][Implements]_vars
  BY <1>2, PointersStayInHeap, PTL DEF Spec
<1> QED BY <1>3 DEF Implements, TightListImplements

\* The dispatcher loops in its list or is aborted by free only on a list that
\* already holds a freed node (stock_ip.c:44-67, 120-143).
THEOREM DispatcherFailsOnlyWhenDangling == Spec => FailsOnlyWhenDangling
<1> DEFINE Fails == status' # "ok" => ~Tight
<1>0. MaxNodes \in Nat \ {0}
  BY StockAssumption
<1>1. HeapTypes /\ Next => Fails
  <2> SUFFICES ASSUME HeapTypes, Next, Tight PROVE status' = "ok"
    OBVIOUS
  <2>1. ASSUME NEW x \in Ips, NEW nb \in Offsets, Register(x, nb) PROVE status' = "ok"
    BY <2>1 DEF Register
  <2>2. ASSUME NEW x \in Ips, SearchLoops(x) PROVE status' = "ok"
    BY <2>2 DEF SearchLoops, ContainLoops, Tight
  <2>3. ASSUME NEW x \in Ips, Resume(x) PROVE status' = "ok"
    <3>1. PICK clobbered \in BOOLEAN : remove_by_ip(x, clobbered)
      BY <2>3 DEF Resume
    <3>2. head \in Addrs /\ head # NULL
      <4>1. head \in Addrs
        BY <2>3, MatchingHead DEF Resume
      <4> QED BY <1>0, <4>1 DEF Addrs, NULL
    <3>3. CASE mem[head].ip = x
      <4>1. Path[0] = head /\ 0 \in 0 .. MaxNodes
        BY <1>0, PathFollows DEF Follows
      <4>2. head \in live
        BY <3>2, <4>1 DEF Tight
      <4> QED BY <3>1, <3>3, <4>2 DEF remove_by_ip, remove_first
    <3>4. CASE mem[head].ip # x
      <4>1. PICK w : w = Walk(x, clobbered)
        OBVIOUS
      <4>2. w.ok /\ w.current = NULL
        BY <3>2, <4>1, WalkEnds
      <4>3. status' = CASE ~w.ok -> "aborted"
                        [] w.ok /\ w.current # NULL -> "hung"
                        [] OTHER -> "ok"
        BY <3>1, <3>4, <4>1 DEF remove_by_ip
      <4> QED BY <4>2, <4>3
    <3> QED BY <3>3, <3>4
  <2> QED BY <2>1, <2>2, <2>3 DEF Next
<1>2. HeapTypes /\ [Next]_vars => [Fails]_vars
  BY <1>1
<1> HIDE DEF Fails
<1>3. Spec => [][Fails]_vars
  BY <1>2, PointersStayInHeap, PTL DEF Spec
<1> QED BY <1>3 DEF Fails, FailsOnlyWhenDangling
=============================================================================
