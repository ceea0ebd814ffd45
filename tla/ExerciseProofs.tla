---------------------------- MODULE ExerciseProofs ---------------------------
(***************************************************************************)
(* What the exercises promise, each by an invariant of its own program, for*)
(* any number of processes and of lines.                                   *)
(***************************************************************************)
EXTENDS ProcessProofs, FiniteSetTheorems

-----------------------------------------------------------------------------
(* Peterson's algorithm, with the stores that wait in the buffers.  The    *)
(* father is 1, the child 2: each stores its flag in the cell 2 - p, then  *)
(* its pid in Tpet.                                                        *)

Stages == {"flag", "turn", "test", "his", "section", "leave", "out"}

\* The labels of each of the two, by what they do there.
Stage(p) ==
    IF p = 2
    THEN [flag |-> "flag1", turn |-> "turn1", test |-> "test1", his |-> "his1",
          section |-> "section1", leave |-> "leave1", out |-> "end"]
    ELSE [flag |-> "flag2", turn |-> "turn2", test |-> "test2", his |-> "his2",
          section |-> "section2", leave |-> "leave2", out |-> "reap"]

On(p, stage) == procs[p].pc = Stage(p)[stage]
InSection(p) == On(p, "section") \/ On(p, "leave")
\* Both stores of p are in the memory, and p has not withdrawn its flag.
Committed(p) ==
    sbuf[p] = <<>> /\ (On(p, "test") \/ On(p, "his") \/ InSection(p))

\* What the memory and the buffer of p hold at each of its labels.
Buffered(p) ==
    LET set == <<2 - p, 1>>
        turn == <<Tpet, p>>
        mine == shm[2 - p]
    IN /\ On(p, "flag") => sbuf[p] = <<>> /\ mine = 0
       /\ On(p, "turn") =>
            \/ sbuf[p] = <<set>> /\ mine = 0
            \/ sbuf[p] = <<>> /\ mine = 1
       /\ On(p, "test") =>
            \/ sbuf[p] = <<set, turn>> /\ mine = 0
            \/ sbuf[p] = <<turn>> /\ mine = 1
            \/ sbuf[p] = <<>> /\ mine = 1
       /\ On(p, "his") \/ InSection(p) => sbuf[p] = <<>> /\ mine = 1
       /\ On(p, "out") =>
            \/ sbuf[p] = <<<<2 - p, 0>>>> /\ mine = 1
            \/ sbuf[p] = <<>> /\ mine = 0

\* One that is in its section gave the turn to the other, if both want it.
Excludes(p, q) ==
    InSection(p) /\ Committed(q) => shm[Tpet] = q /\ ~ InSection(q)

\* The father alone: the memory is set before the fork.
Alone ==
    LET init == <<<<C1, 0>>, <<C2, 0>>, <<Tpet, 1>>>> IN
    /\ 2 \in Pids => procs[2] = Unborn /\ sbuf[2] = <<>>
    /\ shm[C1] = 0 /\ shm[C2] = 0
    /\ \/ procs[1].pc = "main" /\ sbuf[1] = <<>>
       \/ procs[1].pc = "init2" /\ sbuf[1] \in {<<init[1]>>, <<>>}
       \/ procs[1].pc = "init3" /\ sbuf[1] \in {<<init[1], init[2]>>, <<init[2]>>, <<>>}
       \/ /\ procs[1].pc = "fork"
          /\ \/ sbuf[1] \in {init, <<init[2], init[3]>>, <<init[3]>>}
             \/ sbuf[1] = <<>> /\ shm[Tpet] = 1
       \/ procs[1].pc \in {"unix_error", "end"} /\ sbuf[1] = <<>>

\* One of the two: it runs, or it has ended.
Either(p) ==
    \/ Running(p) /\ (\E stage \in Stages : On(p, stage)) /\ Buffered(p)
    \/ /\ procs[p].pc \in {"main", "end"} /\ sbuf[p] = <<>>
       /\ IF p = 1 THEN procs[p].pc = "end" ELSE procs[p].st \in {"zombie", "gone"}

Both ==
    /\ 2 \in Pids /\ Either(1) /\ Either(2)
    /\ shm[Tpet] \in {1, 2}
    /\ Excludes(1, 2) /\ Excludes(2, 1)

PetersonSafe ==
    /\ shm = [c \in Cells |-> shm[c]] /\ sbuf = [p \in Pids |-> sbuf[p]]
    /\ 1 \in Pids => procs[1].ppid = 0 /\ procs[1].st # "zombie" /\ (Alone \/ Both)
    /\ \A p \in Pids : p > 2 => procs[p] = Unborn /\ sbuf[p] = <<>>

PetersonOK == prog = "peterson" => early \/ PetersonSafe

LEMMA PetersonCode ==
    ASSUME prog = "peterson", NEW p \in {1, 2}
    PROVE  /\ On(p, "flag") => Instr(p) = Store(2 - p, 1, Stage(p).turn)
           /\ On(p, "turn") => Instr(p) = Store(Tpet, p, Stage(p).test)
           /\ On(p, "test") => Instr(p) = Load(p - 1, 1, Stage(p).his, Stage(p).section)
           /\ On(p, "his") => Instr(p) = Load(Tpet, p, Stage(p).test, Stage(p).section)
           /\ On(p, "section") => Instr(p) = Sleep(Stage(p).leave)
           /\ On(p, "leave") => Instr(p) = Store(2 - p, 0, Stage(p).out)
           /\ procs[p].pc = "reap" => Instr(p) = Wait("end", "end")
           /\ procs[p].pc \in {"unix_error", "end"} => Instr(p) = Exit
           /\ procs[p].pc = "main" => Instr(p) = Store(C1, 0, "init2")
           /\ procs[p].pc = "init2" => Instr(p) = Store(C2, 0, "init3")
           /\ procs[p].pc = "init3" => Instr(p) = Store(Tpet, 1, "fork")
           /\ procs[p].pc = "fork" => Instr(p) = Fork("flag1", "flag2", "unix_error")
<1>1. Code[prog] = Peterson
  BY CodeOf
<1>2. CASE p = 1
  BY <1>1, <1>2 DEF Instr, Peterson, Stage, On, C1, C2, Tpet, TestFlag, WFork
<1>3. CASE p = 2
  BY <1>1, <1>3 DEF Instr, Peterson, Stage, On, C1, C2, Tpet, TestFlag, WFork
<1> QED BY <1>2, <1>3

\* One process leaves the other as it is.
LEMMA EitherKept ==
    ASSUME NEW q \in {1, 2}, Either(q), procs'[q].pc = procs[q].pc, procs'[q].st = procs[q].st,
           sbuf'[q] = sbuf[q], shm'[2 - q] = shm[2 - q]
    PROVE  Either(q)'
  BY DEF Either, Running, On, Buffered, InSection, Stage

\* The stages of a process exclude one another.
LEMMA OneStage ==
    ASSUME NEW p \in {1, 2}, NEW s \in Stages, On(p, s)
    PROVE  /\ \A t \in Stages : On(p, t) => t = s
           /\ procs[p].pc # "main" /\ (p = 1 => procs[p].pc # "end")
  BY DEF Stages, On, Stage

LEMMA RunsBuffered ==
    ASSUME NEW p \in {1, 2}, Either(p), Running(p), NEW s \in Stages, On(p, s)
    PROVE  Buffered(p)
  BY OneStage DEF Either, Running

LEMMA AppendKeeps ==
    ASSUME NEW S, NEW s \in Seq(S), NEW x \in S
    PROVE  \A i \in 1..Len(s) : Append(s, x)[i] = s[i]
  BY AppendProperties

LEMMA AppendOne ==
    ASSUME NEW S, NEW s \in Seq(S), Len(s) = 1, NEW x \in S,
           NEW t \in Seq(S), Len(t) = 2, t[1] = s[1], t[2] = x
    PROVE  Append(s, x) = t
<1>1. Append(s, x) \in Seq(S)
  BY AppendProperties
<1>2. Len(Append(s, x)) = Len(s) + 1
  BY AppendProperties
<1>3. Append(s, x)[Len(s) + 1] = x
  BY AppendProperties
<1>4. \A i \in 1..Len(s) : Append(s, x)[i] = s[i]
  BY AppendKeeps
<1> DEFINE u == Append(s, x)
<1> HIDE DEF u
<1>5. u = t
  <2>1. u \in Seq(S) /\ Len(u) = 2 /\ u[1] = s[1] /\ u[2] = x
    BY <1>1, <1>2, <1>3, <1>4 DEF u
  <2> QED BY <2>1, SeqEqual
<1> QED BY <1>5 DEF u

LEMMA AppendTwo ==
    ASSUME NEW S, NEW s \in Seq(S), Len(s) = 2, NEW x \in S,
           NEW t \in Seq(S), Len(t) = 3, t[1] = s[1], t[2] = s[2], t[3] = x
    PROVE  Append(s, x) = t
<1>1. Append(s, x) \in Seq(S)
  BY AppendProperties
<1>2. Len(Append(s, x)) = Len(s) + 1
  BY AppendProperties
<1>3. Append(s, x)[Len(s) + 1] = x
  BY AppendProperties
<1>4. \A i \in 1..Len(s) : Append(s, x)[i] = s[i]
  BY AppendKeeps
<1> DEFINE u == Append(s, x)
<1> HIDE DEF u
<1>5. u = t
  <2>1. u \in Seq(S) /\ Len(u) = 3 /\ u[1] = s[1] /\ u[2] = s[2] /\ u[3] = x
    BY <1>1, <1>2, <1>3, <1>4 DEF u
  <2> QED BY <2>1, SeqEqual
<1> QED BY <1>5 DEF u

LEMMA Appending ==
    ASSUME NEW a, NEW b, NEW c
    PROVE  /\ Append(<<>>, a) = <<a>> /\ Append(<<a>>, b) = <<a, b>>
           /\ Append(<<a, b>>, c) = <<a, b, c>>
           /\ <<a>> # <<>> /\ <<a, b>> # <<>> /\ <<a, b, c>> # <<>>
<1> DEFINE S == {a, b, c}
           one == <<a>>
           two == <<a, b>>
           three == <<a, b, c>>
<1>1. b \in S /\ c \in S
  OBVIOUS
<1>2. one \in Seq(S) /\ Len(one) = 1 /\ one[1] = a
  OBVIOUS
<1>3. two \in Seq(S) /\ Len(two) = 2 /\ two[1] = a /\ two[2] = b
  OBVIOUS
<1>4. three \in Seq(S) /\ Len(three) = 3 /\ three[1] = a /\ three[2] = b /\ three[3] = c
  OBVIOUS
<1>5. Append(<<>>, a) = one /\ one # <<>> /\ two # <<>> /\ three # <<>>
  OBVIOUS
<1> HIDE DEF S, one, two, three
<1>6. Append(one, b) = two
  BY <1>1, <1>2, <1>3, AppendOne
<1>7. Append(two, c) = three
  BY <1>1, <1>3, <1>4, AppendTwo
<1> QED BY <1>5, <1>6, <1>7 DEF one, two, three

LEMMA DrainAlone ==
    ASSUME PetersonSafe, NEW p \in Pids, Drain(p), 1 \in Pids, Alone
    PROVE  PetersonSafe'
<1>1. p = 1 /\ sbuf[1] # <<>>
  BY DEF Drain, PetersonSafe, Alone, Pids
<1>2. /\ shm' = [shm EXCEPT ![Head(sbuf[1])[1]] = Head(sbuf[1])[2]]
      /\ sbuf'[1] = Tail(sbuf[1]) /\ sbuf' = [q \in Pids |-> sbuf'[q]]
      /\ \A q \in Pids \ {1} : sbuf'[q] = sbuf[q]
      /\ procs' = procs
  BY <1>1 DEF Drain, PetersonSafe
<1>3. shm' = [c \in Cells |-> shm'[c]]
  BY <1>2 DEF PetersonSafe
<1> DEFINE Put(c, v) == \A d \in Cells : shm'[d] = IF d = c THEN v ELSE shm[d]
<1>4. ASSUME NEW c, NEW v, Head(sbuf[1]) = <<c, v>> PROVE Put(c, v)
  BY <1>2, <1>4 DEF PetersonSafe
<1> HIDE DEF Put
<1>5. Alone'
  <2>1. CASE procs[1].pc = "init2"
    <3>1. sbuf[1] = <<<<C1, 0>>>>
      BY <1>1, <2>1 DEF Alone
    <3>2. Put(C1, 0) /\ sbuf'[1] = <<>>
      BY <1>2, <1>4, <3>1
    <3> QED BY <1>2, <2>1, <3>2 DEF Alone, Put, C1, C2, Tpet, Cells, Pids
  <2>2. CASE procs[1].pc = "init3"
    <3>1. sbuf[1] \in {<<<<C1, 0>>, <<C2, 0>>>>, <<<<C2, 0>>>>}
      BY <1>1, <2>2 DEF Alone
    <3>2. \/ Put(C1, 0) /\ sbuf'[1] = <<<<C2, 0>>>>
          \/ Put(C2, 0) /\ sbuf'[1] = <<>>
      <4>1. CASE sbuf[1] = <<<<C1, 0>>, <<C2, 0>>>>
        BY <1>2, <1>4, <4>1
      <4>2. CASE sbuf[1] = <<<<C2, 0>>>>
        BY <1>2, <1>4, <4>2
      <4> QED BY <3>1, <4>1, <4>2
    <3> QED BY <1>2, <2>2, <3>2 DEF Alone, Put, C1, C2, Tpet, Cells, Pids
  <2>3. CASE procs[1].pc = "fork"
    <3>1. sbuf[1] \in {<<<<C1, 0>>, <<C2, 0>>, <<Tpet, 1>>>>, <<<<C2, 0>>, <<Tpet, 1>>>>, <<<<Tpet, 1>>>>}
      BY <1>1, <2>3 DEF Alone
    <3>2. \/ Put(C1, 0) /\ sbuf'[1] = <<<<C2, 0>>, <<Tpet, 1>>>>
          \/ Put(C2, 0) /\ sbuf'[1] = <<<<Tpet, 1>>>>
          \/ Put(Tpet, 1) /\ sbuf'[1] = <<>>
      <4>1. CASE sbuf[1] = <<<<C1, 0>>, <<C2, 0>>, <<Tpet, 1>>>>
        BY <1>2, <1>4, <4>1
      <4>2. CASE sbuf[1] = <<<<C2, 0>>, <<Tpet, 1>>>>
        BY <1>2, <1>4, <4>2
      <4>3. CASE sbuf[1] = <<<<Tpet, 1>>>>
        BY <1>2, <1>4, <4>3
      <4> QED BY <3>1, <4>1, <4>2, <4>3
    <3> QED BY <1>2, <2>3, <3>2 DEF Alone, Put, C1, C2, Tpet, Cells, Pids
  <2> QED BY <1>1, <2>1, <2>2, <2>3 DEF Alone
<1> QED BY <1>1, <1>2, <1>3, <1>5 DEF PetersonSafe, Pids

LEMMA DrainBoth ==
    ASSUME PetersonSafe, NEW p \in Pids, Drain(p), 1 \in Pids, Both
    PROVE  PetersonSafe'
<1> DEFINE q == 3 - p
<1>1. p \in {1, 2} /\ q \in {1, 2} /\ p # q /\ sbuf[p] # <<>>
  BY DEF Drain, PetersonSafe, Pids
<1>2. /\ shm' = [shm EXCEPT ![Head(sbuf[p])[1]] = Head(sbuf[p])[2]]
      /\ sbuf'[p] = Tail(sbuf[p]) /\ sbuf' = [r \in Pids |-> sbuf'[r]]
      /\ \A r \in Pids \ {p} : sbuf'[r] = sbuf[r]
      /\ procs' = procs
  BY <1>1 DEF Drain, PetersonSafe
<1>3. shm' = [c \in Cells |-> shm'[c]]
  BY <1>2 DEF PetersonSafe
<1>4. ASSUME NEW c, NEW v, Head(sbuf[p]) = <<c, v>>
      PROVE  \A d \in Cells : shm'[d] = IF d = c THEN v ELSE shm[d]
  BY <1>2, <1>4 DEF PetersonSafe
<1>5. Either(p) /\ Either(q) /\ Running(p) /\ q \in Pids /\ sbuf'[q] = sbuf[q]
  BY <1>1, <1>2 DEF Both, Either
<1>6. 2 - p \in Cells /\ 2 - q \in Cells /\ Tpet \in Cells /\ 2 - p # 2 - q /\ Tpet \notin {2 - p, 2 - q}
  BY <1>1 DEF Cells, Tpet
<1>7. Excludes(p, q) /\ Excludes(q, p) /\ shm[Tpet] \in {1, 2}
  BY <1>1 DEF Both
<1> DEFINE set == <<2 - p, 1>>
           turn == <<Tpet, p>>
<1> HIDE DEF q
<1>8. \/ /\ On(p, "turn") /\ sbuf[p] = <<set>> /\ sbuf'[p] = <<>>
         /\ shm'[2 - p] = 1 /\ shm'[2 - q] = shm[2 - q] /\ shm'[Tpet] = shm[Tpet]
      \/ /\ On(p, "test") /\ sbuf[p] = <<set, turn>> /\ sbuf'[p] = <<turn>>
         /\ shm'[2 - p] = 1 /\ shm'[2 - q] = shm[2 - q] /\ shm'[Tpet] = shm[Tpet]
      \/ /\ On(p, "test") /\ sbuf[p] = <<turn>> /\ sbuf'[p] = <<>>
         /\ shm'[2 - p] = 1 /\ shm'[2 - q] = shm[2 - q] /\ shm'[Tpet] = p
      \/ /\ On(p, "out") /\ sbuf[p] = <<<<2 - p, 0>>>> /\ sbuf'[p] = <<>>
         /\ shm'[2 - p] = 0 /\ shm'[2 - q] = shm[2 - q] /\ shm'[Tpet] = shm[Tpet]
  <2>1. \/ On(p, "turn") /\ sbuf[p] = <<set>>
        \/ On(p, "test") /\ sbuf[p] = <<set, turn>>
        \/ On(p, "test") /\ sbuf[p] = <<turn>> /\ shm[2 - p] = 1
        \/ On(p, "out") /\ sbuf[p] = <<<<2 - p, 0>>>>
    BY <1>1, <1>5 DEF Either, Buffered, Stages, InSection
  <2>2. CASE On(p, "turn") /\ sbuf[p] = <<set>>
    <3>1. Head(sbuf[p]) = set /\ sbuf'[p] = <<>>
      BY <1>2, <2>2
    <3> QED BY <1>4, <1>6, <2>2, <3>1
  <2>3. CASE On(p, "test") /\ sbuf[p] = <<set, turn>>
    <3>1. Head(sbuf[p]) = set /\ sbuf'[p] = <<turn>>
      BY <1>2, <2>3
    <3> QED BY <1>4, <1>6, <2>3, <3>1
  <2>4. CASE On(p, "test") /\ sbuf[p] = <<turn>> /\ shm[2 - p] = 1
    <3>1. Head(sbuf[p]) = turn /\ sbuf'[p] = <<>>
      BY <1>2, <2>4
    <3> QED BY <1>4, <1>6, <2>4, <3>1
  <2>5. CASE On(p, "out") /\ sbuf[p] = <<<<2 - p, 0>>>>
    <3>1. Head(sbuf[p]) = <<2 - p, 0>> /\ sbuf'[p] = <<>>
      BY <1>2, <2>5
    <3> QED BY <1>4, <1>6, <2>5, <3>1
  <2> QED BY <2>1, <2>2, <2>3, <2>4, <2>5
<1>9. \A r \in {1, 2}, s \in Stages : On(r, s)' <=> On(r, s)
  BY <1>2 DEF On, Stage
<1>10. Either(p)'
  <2>1. Running(p)' /\ \E stage \in Stages : On(p, stage)'
    BY <1>1, <1>2, <1>5, <1>8, <1>9 DEF Running, Stages
  <2>2. Buffered(p)'
    BY <1>1, <1>8, <1>9, OneStage DEF Buffered, Stages, InSection
  <2> QED BY <2>1, <2>2 DEF Either
<1>11. Either(q)'
  BY <1>1, <1>2, <1>5, <1>8, EitherKept
<1>12. Excludes(p, q)' /\ Excludes(q, p)' /\ shm'[Tpet] \in {1, 2}
  <2>1. \A r \in {1, 2} : InSection(r)' <=> InSection(r)
    BY <1>9 DEF InSection, Stages
  <2>2. Committed(q)' <=> Committed(q)
    BY <1>1, <1>5, <1>9, <2>1 DEF Committed, Stages
  <2>3. ~ InSection(p)
    BY <1>1, <1>8, OneStage DEF InSection, Stages
  <2>4. Committed(p)' => shm'[Tpet] = p
    BY <1>1, <1>8, <1>9, <2>1, <2>3, OneStage DEF Committed, Stages
  <2> QED BY <1>1, <1>7, <1>8, <2>1, <2>2, <2>3, <2>4 DEF Excludes
<1>13. Both'
  BY <1>1, <1>10, <1>11, <1>12 DEF Both, Pids
<1> QED BY <1>1, <1>2, <1>3, <1>13 DEF PetersonSafe, Pids

\* The father alone takes a step.
LEMMA PetersonAlone ==
    ASSUME ProcTypeOK, SilentOK, prog = "peterson", PetersonSafe,
           NEW p \in Pids, Acts(p), 1 \in Pids, Alone
    PROVE  PetersonSafe'
<1>1. Running(p) /\ Shape /\ NoChld
  BY ActsByOp, SilentActs DEF ProcTypeOK, Silent
<1>2. p = 1
  <2>1. p # 2 /\ ~ p > 2
    BY <1>1 DEF PetersonSafe, Alone, Unborn, Running
  <2> QED BY <2>1 DEF Pids
<1>3. procs[1].ppid = 0 /\ procs[1].ppid # 1 /\ procs[1].st = "run"
  BY <1>1, <1>2 DEF PetersonSafe, Running
<1>4. ASSUME NEW F, F \subseteq Fields \ {"st", "ppid"}, Changes(1, F),
             shm' = shm, sbuf' = [sbuf EXCEPT ![1] = sbuf'[1]],
             \/ procs'[1].pc = "init2" /\ sbuf'[1] \in {<<<<C1, 0>>>>, <<>>}
             \/ procs'[1].pc = "init3" /\ sbuf'[1] \in {<<<<C1, 0>>, <<C2, 0>>>>, <<<<C2, 0>>>>, <<>>}
             \/ /\ procs'[1].pc = "fork"
                /\ sbuf'[1] \in {<<<<C1, 0>>, <<C2, 0>>, <<Tpet, 1>>>>, <<<<C2, 0>>, <<Tpet, 1>>>>,
                                 <<<<Tpet, 1>>>>}
             \/ procs'[1].pc = "unix_error" /\ sbuf'[1] = <<>>
      PROVE  PetersonSafe'
  <2>1. procs'[1].ppid = 0 /\ procs'[1].st = "run"
    BY <1>2, <1>3, <1>4 DEF Changes, Keeps, Fields
  <2>2. \A q \in Pids \ {1} : procs'[q] = procs[q] /\ sbuf'[q] = sbuf[q]
    BY <1>2, <1>4 DEF Changes, Others, PetersonSafe
  <2>3. Alone'
    BY <1>4, <2>2 DEF Alone, Pids
  <2>4. sbuf' = [q \in Pids |-> sbuf'[q]] /\ shm' = [c \in Cells |-> shm'[c]]
    BY <1>4 DEF PetersonSafe
  <2> QED BY <1>2, <2>1, <2>2, <2>3, <2>4 DEF PetersonSafe, Pids
<1>5. ASSUME NEW c, NEW v, NEW label, Instr(1) = Store(c, v, label)
      PROVE  /\ shm' = shm /\ Changes(1, {"pc"}) /\ procs'[1].pc = label
             /\ sbuf' = [sbuf EXCEPT ![1] = sbuf'[1]]
             /\ sbuf'[1] = Append(sbuf[1], <<c, v>>)
  <2>1. /\ Instr(1).op = "store" /\ Instr(1).cell = c /\ Instr(1).val = v
        /\ Instr(1).next = label
    BY <1>5 DEF Store
  <2> QED BY <1>1, <1>2, <2>1, Storing DEF PetersonSafe
<1>6. {"pc"} \subseteq Fields \ {"st", "ppid"}
  BY DEF Fields
<1>7. CASE procs[1].pc = "main"
  <2>1. Instr(1) = Store(C1, 0, "init2") /\ sbuf[1] = <<>>
    BY <1>7, PetersonCode DEF Alone
  <2>2. sbuf'[1] = <<<<C1, 0>>>>
    BY <1>5, <2>1, Appending
  <2> QED BY <1>4, <1>5, <1>6, <2>1, <2>2
<1>8. CASE procs[1].pc = "init2"
  <2>1. Instr(1) = Store(C2, 0, "init3") /\ sbuf[1] \in {<<<<C1, 0>>>>, <<>>}
    BY <1>8, PetersonCode DEF Alone
  <2>2. sbuf'[1] \in {<<<<C1, 0>>, <<C2, 0>>>>, <<<<C2, 0>>>>}
    <3>1. sbuf'[1] = Append(sbuf[1], <<C2, 0>>)
      BY <1>5, <2>1
    <3>2. CASE sbuf[1] = <<<<C1, 0>>>>
      BY <3>1, <3>2, Appending
    <3>3. CASE sbuf[1] = <<>>
      BY <3>1, <3>3, Appending
    <3> QED BY <2>1, <3>2, <3>3
  <2> QED BY <1>4, <1>5, <1>6, <2>1, <2>2
<1>9. CASE procs[1].pc = "init3"
  <2>1. /\ Instr(1) = Store(Tpet, 1, "fork")
        /\ sbuf[1] \in {<<<<C1, 0>>, <<C2, 0>>>>, <<<<C2, 0>>>>, <<>>}
    BY <1>9, PetersonCode DEF Alone
  <2>2. sbuf'[1] \in {<<<<C1, 0>>, <<C2, 0>>, <<Tpet, 1>>>>, <<<<C2, 0>>, <<Tpet, 1>>>>,
                      <<<<Tpet, 1>>>>}
    <3>1. sbuf'[1] = Append(sbuf[1], <<Tpet, 1>>)
      BY <1>5, <2>1
    <3>2. CASE sbuf[1] = <<<<C1, 0>>, <<C2, 0>>>>
      <4>1. Append(<<<<C1, 0>>, <<C2, 0>>>>, <<Tpet, 1>>) = <<<<C1, 0>>, <<C2, 0>>, <<Tpet, 1>>>>
        BY Appending
      <4>2. sbuf'[1] = <<<<C1, 0>>, <<C2, 0>>, <<Tpet, 1>>>>
        BY <3>1, <3>2, <4>1
      <4> QED BY <4>2
    <3>3. CASE sbuf[1] = <<<<C2, 0>>>>
      BY <3>1, <3>3, Appending
    <3>4. CASE sbuf[1] = <<>>
      BY <3>1, <3>4, Appending
    <3> QED BY <2>1, <3>2, <3>3, <3>4
  <2> QED BY <1>4, <1>5, <1>6, <2>1, <2>2
<1>10. CASE procs[1].pc = "fork"
  <2>1. /\ Instr(1).op = "fork" /\ Instr(1).next = "flag2" /\ Instr(1).child = "flag1"
        /\ Instr(1).other = "unix_error"
    BY <1>10, PetersonCode DEF Fork
  <2>2. sbuf[1] = <<>> /\ shm' = shm /\ sbuf' = sbuf
    BY <1>1, <1>2, <2>1, Forking DEF memory
  <2>3. shm[Tpet] = 1
    BY <1>10, <2>2 DEF Alone
  <2>4. CASE \E q \in Pids : Born(1, q)
    <3> PICK q \in Pids : Born(1, q)
      BY <2>4
    <3>1. q = 2
      <4>1. q \in Pids /\ q # 1 /\ procs[q].st = "none" /\ \A r \in 1..(q - 1) : procs[r].st # "none"
        BY DEF Born
      <4>2. ~ q > 2
        <5>1. CASE q > 2
          <6>1. 2 \in Pids /\ 2 \in 1..(q - 1)
            BY <4>1, <5>1, ProcAssumption DEF Pids
          <6> QED BY <4>1, <6>1 DEF Alone, Unborn
        <5> QED BY <5>1
      <4> QED BY <4>1, <4>2 DEF Pids
    <3>2. /\ procs'[1].pc = "flag2" /\ procs'[2].pc = "flag1" /\ procs'[2].st = "run"
          /\ procs'[1].st = "run" /\ procs'[1].ppid = 0 /\ Others({1, 2})
      BY <1>3, <2>1, <3>1 DEF Born, Keeps, Fields
    <3>3. sbuf[2] = <<>> /\ shm[0] = 0 /\ shm[1] = 0
      BY <3>1 DEF Alone, C1, C2
    <3>4. Either(1)' /\ Either(2)'
      <4>1. On(1, "flag")' /\ On(2, "flag")'
        BY <3>2 DEF On, Stage
      <4>2. \A r \in {1, 2} : Buffered(r)'
        <5>1. ASSUME NEW r \in {1, 2} PROVE Buffered(r)'
          <6>1. procs'[r].pc \in {"flag1", "flag2"} /\ sbuf'[r] = <<>> /\ shm'[2 - r] = 0
            BY <2>2, <3>2, <3>3
          <6> QED BY <6>1 DEF Buffered, On, Stage, InSection
        <5> QED BY <5>1
      <4> QED BY <3>2, <4>1, <4>2 DEF Either, Running, Stages
    <3>5. Excludes(1, 2)' /\ Excludes(2, 1)'
      BY <3>2 DEF Excludes, InSection, On, Stage
    <3>6. Both'
      BY <2>2, <2>3, <3>1, <3>4, <3>5 DEF Both, Pids
    <3> QED BY <2>2, <3>2, <3>6 DEF PetersonSafe, Others, Pids
  <2>5. CASE Changes(1, {"pc", "regs"}) /\ procs'[1].pc = "unix_error"
    <3>1. {"pc", "regs"} \subseteq Fields \ {"st", "ppid"}
      BY DEF Fields
    <3>2. sbuf' = [sbuf EXCEPT ![1] = sbuf'[1]]
      BY <2>2 DEF PetersonSafe
    <3> QED BY <1>4, <2>2, <2>5, <3>1, <3>2
  <2> QED BY <1>1, <1>2, <2>1, <2>4, <2>5, Forking
<1>11. CASE procs[1].pc \in {"unix_error", "end"}
  <2>1. Instr(1).op = "exit"
    BY <1>11, PetersonCode DEF Exit
  <2>2. Death(1, 0) /\ shm' = shm /\ sbuf' = sbuf
    BY <1>1, <1>2, <1>3, <2>1, Ending DEF Calm, memory
  <2>3. /\ procs'[1].st = "gone" /\ procs'[1].pc = "end" /\ procs'[1].ppid = 0
    BY <1>3, <2>2 DEF Death
  <2>4. \A q \in Pids \ {1} : procs'[q] = procs[q]
    <3> SUFFICES ASSUME NEW q \in Pids \ {1} PROVE procs'[q] = procs[q]
      OBVIOUS
    <3>1. procs[q] = Unborn
      BY DEF PetersonSafe, Alone, Pids
    <3>2. procs[q].ppid # 1
      BY <3>1 DEF Unborn
    <3> QED BY <2>2, <3>2 DEF Death
  <2>5. sbuf[1] = <<>>
    BY <1>11 DEF Alone
  <2>6. Alone'
    BY <2>2, <2>3, <2>4, <2>5 DEF Alone, Pids
  <2> QED BY <2>2, <2>3, <2>4, <2>6 DEF PetersonSafe, Pids
<1> QED BY <1>7, <1>8, <1>9, <1>10, <1>11 DEF Alone

\* One of the two takes a step.
LEMMA PetersonBoth ==
    ASSUME ProcTypeOK, SilentOK, prog = "peterson", PetersonSafe,
           NEW p \in Pids, Acts(p), 1 \in Pids, Both, ~ early'
    PROVE  PetersonSafe'
<1> DEFINE q == 3 - p
<1>1. Running(p) /\ Shape /\ NoChld
  BY ActsByOp, SilentActs DEF ProcTypeOK, Silent
<1>2. p \in {1, 2} /\ q \in {1, 2} /\ q \in Pids /\ p # q
  <2>1. ~ p > 2
    BY <1>1 DEF PetersonSafe, Unborn, Running
  <2> QED BY <2>1 DEF Pids, Both
<1>3. Either(p) /\ Either(q) /\ procs[p].ppid # p
  BY <1>2 DEF Both, ProcTypeOK, Placed
<1>4. 2 - p \in Cells /\ 2 - q \in Cells /\ Tpet \in Cells /\ 2 - p # 2 - q /\ p - 1 = 2 - q
  BY <1>2 DEF Cells, Tpet
<1>5. Excludes(p, q) /\ Excludes(q, p) /\ shm[Tpet] \in {1, 2}
  BY <1>2 DEF Both
<1> HIDE DEF q
<1>6. ASSUME shm' = shm, sbuf' = [sbuf EXCEPT ![p] = sbuf'[p]],
             procs'[q].pc = procs[q].pc /\ procs'[q].st = procs[q].st,
             1 \in {p, q} => procs'[1].ppid = 0 /\ procs'[1].st # "zombie",
             Others({p, q}), Either(p)', Excludes(p, q)', Excludes(q, p)'
      PROVE  PetersonSafe'
  <2>1. sbuf'[q] = sbuf[q] /\ sbuf' = [r \in Pids |-> sbuf'[r]] /\ shm' = [c \in Cells |-> shm'[c]]
        /\ \A r \in Pids \ {p} : sbuf'[r] = sbuf[r]
    BY <1>2, <1>6 DEF PetersonSafe
  <2>2. Either(q)'
    BY <1>2, <1>3, <1>6, <2>1, EitherKept
  <2>3. Both'
    BY <1>2, <1>5, <1>6, <2>2 DEF Both, Pids
  <2> QED BY <1>2, <1>6, <2>1, <2>3 DEF PetersonSafe, Others, Pids
<1>7. ASSUME NEW s \in Stages, NEW F, F \subseteq Fields \ {"st", "ppid"}, Changes(p, F),
             shm' = shm, sbuf' = [sbuf EXCEPT ![p] = sbuf'[p]],
             procs'[p].pc = Stage(p)[s], Buffered(p)', Excludes(p, q)', Excludes(q, p)'
      PROVE  PetersonSafe'
  <2>1. Others({p, q}) /\ procs'[q] = procs[q]
    BY <1>2, <1>7 DEF Changes, Others
  <2>2. procs'[p].ppid = procs[p].ppid /\ procs'[p].st = procs[p].st
    BY <1>7 DEF Changes, Keeps, Fields
  <2>3. Either(p)'
    BY <1>1, <1>7, <2>2 DEF Either, On, Running
  <2>4. 1 \in {p, q} => procs'[1].ppid = 0 /\ procs'[1].st # "zombie"
    BY <2>1, <2>2 DEF PetersonSafe
  <2> QED BY <1>6, <1>7, <2>1, <2>3, <2>4
<1>8. ASSUME NEW c, NEW v, NEW label, Instr(p) = Store(c, v, label)
      PROVE  /\ shm' = shm /\ Changes(p, {"pc"}) /\ procs'[p].pc = label
             /\ sbuf' = [sbuf EXCEPT ![p] = sbuf'[p]]
             /\ sbuf'[p] = Append(sbuf[p], <<c, v>>)
  <2>1. /\ Instr(p).op = "store" /\ Instr(p).cell = c /\ Instr(p).val = v
        /\ Instr(p).next = label
    BY <1>8 DEF Store
  <2> QED BY <1>1, <2>1, Storing DEF PetersonSafe
<1>9. ASSUME NEW c, NEW v, NEW a, NEW b, Instr(p) = Load(c, v, a, b)
      PROVE  /\ shm' = shm /\ Changes(p, {"pc"}) /\ sbuf' = sbuf /\ sbuf[p] = <<>>
             /\ sbuf' = [sbuf EXCEPT ![p] = sbuf'[p]]
             /\ procs'[p].pc = IF shm[c] = v THEN a ELSE b
  <2>1. /\ Instr(p).op = "load" /\ Instr(p).cell = c /\ Instr(p).val = v
        /\ Instr(p).next = a /\ Instr(p).other = b
    BY <1>9 DEF Load
  <2>2. shm' = shm /\ sbuf' = sbuf /\ Changes(p, {"pc"}) /\ sbuf[p] = <<>>
    BY <1>1, <2>1, Loading
  <2> QED BY <1>1, <2>1, <2>2, Loading DEF PetersonSafe
<1>10. {"pc"} \subseteq Fields \ {"st", "ppid"} /\ {"pc", "asleep"} \subseteq Fields \ {"st", "ppid"}
       /\ {"asleep"} \subseteq Fields \ {"st", "ppid"}
  BY DEF Fields
\* The section of q, and its commitment, do not move with p.
<1>11. ASSUME Others({p}), sbuf'[q] = sbuf[q]
       PROVE  (InSection(q)' <=> InSection(q)) /\ (Committed(q)' <=> Committed(q))
  <2>1. \A s \in Stages : On(q, s)' <=> On(q, s)
    BY <1>2, <1>11 DEF On, Others, Stage
  <2> QED BY <1>11, <2>1 DEF InSection, Committed, Stages
<1>12. ASSUME NEW s \in Stages, procs'[p].pc = Stage(p)[s]
       PROVE  \A t \in Stages : On(p, t)' <=> t = s
  BY <1>2, <1>12 DEF On, Stage, Stages
<1>13. ASSUME Others({p}), shm' = shm, sbuf'[q] = sbuf[q], ~ InSection(p)', ~ Committed(p)'
       PROVE  Excludes(p, q)' /\ Excludes(q, p)'
  BY <1>13 DEF Excludes
<1>14. ASSUME NEW s \in Stages \ {"test", "his", "section", "leave"}, procs'[p].pc = Stage(p)[s]
       PROVE  ~ InSection(p)' /\ ~ Committed(p)'
  BY <1>12, <1>14 DEF InSection, Committed, Stages
<1>15. CASE On(p, "flag")
  <2>1. Instr(p) = Store(2 - p, 1, Stage(p).turn) /\ sbuf[p] = <<>> /\ shm[2 - p] = 0
    BY <1>1, <1>2, <1>3, <1>15, PetersonCode, OneStage, RunsBuffered DEF Buffered, Stages
  <2>2. /\ shm' = shm /\ Changes(p, {"pc"}) /\ procs'[p].pc = Stage(p)["turn"]
        /\ sbuf' = [sbuf EXCEPT ![p] = sbuf'[p]] /\ sbuf'[p] = <<<<2 - p, 1>>>>
    BY <1>8, <2>1
  <2>3. Buffered(p)'
    BY <1>12, <2>1, <2>2 DEF Buffered, Stages, InSection
  <2>4. Excludes(p, q)' /\ Excludes(q, p)'
    BY <1>2, <1>13, <1>14, <2>2 DEF Changes, PetersonSafe, Stages
  <2> QED BY <1>7, <1>10, <2>2, <2>3, <2>4 DEF Stages
<1>16. CASE On(p, "turn")
  <2>1. /\ Instr(p) = Store(Tpet, p, Stage(p).test)
        /\ \/ sbuf[p] = <<<<2 - p, 1>>>> /\ shm[2 - p] = 0
           \/ sbuf[p] = <<>> /\ shm[2 - p] = 1
    BY <1>1, <1>2, <1>3, <1>16, PetersonCode, OneStage, RunsBuffered DEF Buffered, Stages
  <2>2. /\ shm' = shm /\ Changes(p, {"pc"}) /\ procs'[p].pc = Stage(p)["test"]
        /\ sbuf' = [sbuf EXCEPT ![p] = sbuf'[p]] /\ sbuf'[p] = Append(sbuf[p], <<Tpet, p>>)
    BY <1>8, <2>1
  <2>3. \/ sbuf'[p] = <<<<2 - p, 1>>, <<Tpet, p>>>> /\ shm[2 - p] = 0
        \/ sbuf'[p] = <<<<Tpet, p>>>> /\ shm[2 - p] = 1
    <3>1. CASE sbuf[p] = <<<<2 - p, 1>>>> /\ shm[2 - p] = 0
      BY <2>2, <3>1, Appending
    <3>2. CASE sbuf[p] = <<>> /\ shm[2 - p] = 1
      BY <2>2, <3>2, Appending
    <3> QED BY <2>1, <3>1, <3>2
  <2>4. Buffered(p)'
    BY <1>12, <2>2, <2>3 DEF Buffered, Stages, InSection
  <2>5. ~ InSection(p)' /\ sbuf'[p] # <<>>
    <3>1. ~ InSection(p)'
      BY <1>12, <2>2 DEF InSection, Stages
    <3>2. sbuf'[p] # <<>>
      BY <2>3, Appending
    <3> QED BY <3>1, <3>2
  <2>6. Excludes(p, q)' /\ Excludes(q, p)'
    BY <2>5 DEF Excludes, Committed
  <2> QED BY <1>7, <1>10, <2>2, <2>4, <2>6 DEF Stages
<1>17. CASE On(p, "test")
  <2>1. Instr(p) = Load(2 - q, 1, Stage(p).his, Stage(p).section)
    BY <1>2, <1>4, <1>17, PetersonCode
  <2>2. /\ shm' = shm /\ Changes(p, {"pc"}) /\ sbuf' = sbuf /\ sbuf[p] = <<>>
        /\ sbuf' = [sbuf EXCEPT ![p] = sbuf'[p]]
        /\ procs'[p].pc = IF shm[2 - q] = 1 THEN Stage(p)["his"] ELSE Stage(p)["section"]
    BY <1>9, <2>1
  <2>3. shm[2 - p] = 1 /\ Committed(p)
    BY <1>1, <1>2, <1>3, <1>17, <2>2, OneStage, RunsBuffered DEF Buffered, Stages, Committed
  <2>4. PICK s \in {"his", "section"} :
            procs'[p].pc = Stage(p)[s] /\ (s = "section" => shm[2 - q] # 1)
    BY <2>2
  <2>5. \A t \in Stages : On(p, t)' <=> t = s
    BY <1>12, <2>4 DEF Stages
  <2>6. Buffered(p)'
    BY <2>2, <2>3, <2>5 DEF Buffered, Stages, InSection
  <2>7. (InSection(q)' <=> InSection(q)) /\ (Committed(q)' <=> Committed(q))
    BY <1>11, <2>2 DEF Changes
  <2>8. Committed(q) => shm[2 - q] = 1
    BY <1>3 DEF Committed, Either, Buffered, On, Stage, InSection
  <2>9. s = "section" => ~ Committed(q) /\ ~ InSection(q)
    <3>1. InSection(q) => Committed(q)
      BY <1>3 DEF Committed, Either, Buffered, On, Stage, InSection
    <3> QED BY <2>4, <2>8, <3>1
  <2>10. InSection(p)' => s = "section"
    BY <2>4, <2>5 DEF InSection, Stages
  <2>11. Excludes(p, q)' /\ Excludes(q, p)'
    BY <1>5, <2>2, <2>3, <2>7, <2>9, <2>10 DEF Excludes
  <2> QED BY <1>7, <1>10, <2>2, <2>4, <2>6, <2>11 DEF Stages
<1>18. CASE On(p, "his")
  <2>1. Instr(p) = Load(Tpet, p, Stage(p).test, Stage(p).section)
    BY <1>2, <1>18, PetersonCode
  <2>2. /\ shm' = shm /\ Changes(p, {"pc"}) /\ sbuf' = sbuf /\ sbuf[p] = <<>>
        /\ sbuf' = [sbuf EXCEPT ![p] = sbuf'[p]]
        /\ procs'[p].pc = IF shm[Tpet] = p THEN Stage(p)["test"] ELSE Stage(p)["section"]
    BY <1>9, <2>1
  <2>3. shm[2 - p] = 1 /\ Committed(p)
    BY <1>1, <1>2, <1>3, <1>18, <2>2, OneStage, RunsBuffered DEF Buffered, Stages, Committed
  <2>4. PICK s \in {"test", "section"} :
            procs'[p].pc = Stage(p)[s] /\ (s = "section" => shm[Tpet] = q)
    BY <1>2, <1>5, <2>2 DEF q
  <2>5. \A t \in Stages : On(p, t)' <=> t = s
    BY <1>12, <2>4 DEF Stages
  <2>6. Buffered(p)'
    BY <2>2, <2>3, <2>5 DEF Buffered, Stages, InSection
  <2>7. (InSection(q)' <=> InSection(q)) /\ (Committed(q)' <=> Committed(q))
    BY <1>11, <2>2 DEF Changes
  <2>8. InSection(q) => shm[Tpet] = p
    BY <1>5, <2>3 DEF Excludes
  <2>9. InSection(p)' => s = "section"
    BY <2>4, <2>5 DEF InSection, Stages
  <2>10. Excludes(p, q)' /\ Excludes(q, p)'
    BY <1>2, <1>5, <2>2, <2>3, <2>4, <2>7, <2>8, <2>9 DEF Excludes
  <2> QED BY <1>7, <1>10, <2>2, <2>4, <2>6, <2>10 DEF Stages
<1>19. CASE On(p, "section")
  <2>1. Instr(p) = Sleep(Stage(p).leave)
    BY <1>2, <1>19, PetersonCode
  <2>2. Instr(p).op = "sleep" /\ Instr(p).next = Stage(p)["leave"]
    BY <2>1 DEF Sleep
  <2>3. /\ shm' = shm /\ sbuf' = sbuf /\ sbuf' = [sbuf EXCEPT ![p] = sbuf'[p]]
    BY <1>1, <2>2, Sleeping DEF memory, PetersonSafe
  <2>4. PICK s \in {"section", "leave"}, F \in {{"asleep"}, {"pc", "asleep"}} :
            Changes(p, F) /\ procs'[p].pc = Stage(p)[s]
    <3>1. Changes(p, {"asleep"}) => procs'[p].pc = Stage(p)["section"]
      BY <1>19 DEF Changes, Keeps, Fields, On
    <3>2. {"asleep", "pc"} = {"pc", "asleep"}
      OBVIOUS
    <3> QED BY <1>1, <2>2, <3>1, <3>2, Sleeping
  <2>5. \A t \in Stages : On(p, t)' <=> t = s
    BY <1>12, <2>4 DEF Stages
  <2>6. Buffered(p)'
    BY <1>1, <1>2, <1>3, <1>19, <2>3, <2>5, OneStage, RunsBuffered DEF Buffered, Stages, InSection
  <2>7. (InSection(q)' <=> InSection(q)) /\ (Committed(q)' <=> Committed(q))
    BY <1>11, <2>3, <2>4 DEF Changes
  <2>8. InSection(p) /\ Committed(p)
    <3>1. Buffered(p)
      BY <1>1, <1>2, <1>3, <1>19, RunsBuffered DEF Stages
    <3> QED BY <1>19, <3>1 DEF InSection, Committed, Buffered
  <2>9. Excludes(p, q)' /\ Excludes(q, p)'
    BY <1>5, <2>3, <2>7, <2>8 DEF Excludes
  <2> QED BY <1>7, <1>10, <2>3, <2>4, <2>6, <2>9 DEF Stages
<1>20. CASE On(p, "leave")
  <2>1. Instr(p) = Store(2 - p, 0, Stage(p).out) /\ sbuf[p] = <<>> /\ shm[2 - p] = 1
    BY <1>1, <1>2, <1>3, <1>20, PetersonCode, OneStage, RunsBuffered DEF Buffered, Stages, InSection
  <2>2. /\ shm' = shm /\ Changes(p, {"pc"}) /\ procs'[p].pc = Stage(p)["out"]
        /\ sbuf' = [sbuf EXCEPT ![p] = sbuf'[p]] /\ sbuf'[p] = <<<<2 - p, 0>>>>
    BY <1>8, <2>1
  <2>3. Buffered(p)'
    BY <1>12, <2>1, <2>2 DEF Buffered, Stages, InSection
  <2>4. Excludes(p, q)' /\ Excludes(q, p)'
    BY <1>2, <1>13, <1>14, <2>2 DEF Changes, PetersonSafe, Stages
  <2> QED BY <1>7, <1>10, <2>2, <2>3, <2>4 DEF Stages
<1>21. CASE procs[p].pc = "end"
  <2>1. Instr(p).op = "exit"
    BY <1>2, <1>21, PetersonCode DEF Exit
  <2>2. Death(p, 0) /\ shm' = shm /\ sbuf' = sbuf /\ sbuf[p] = <<>>
    BY <1>1, <1>3, <2>1, Ending DEF Calm, memory
  <2>3. /\ procs'[p].st = IF procs[p].ppid = 0 THEN "gone" ELSE "zombie"
        /\ procs'[p].pc = "end" /\ procs'[p].ppid = procs[p].ppid
    BY <2>2 DEF Death
  <2>4. Either(p)'
    BY <1>2, <2>2, <2>3 DEF Either
  <2>5. \A r \in Pids \ {p, q} : procs[r].ppid = 0
    BY <1>2 DEF PetersonSafe, Unborn, Pids
  <2>6. Others({p, q})
    <3> SUFFICES ASSUME NEW r \in Pids \ {p, q} PROVE procs'[r] = procs[r]
      BY DEF Others
    <3>1. procs[r].ppid # p
      BY <1>2, <2>5
    <3> QED BY <2>2, <3>1 DEF Death
  <2>7. 1 \in {p, q} => procs'[1].ppid = 0 /\ procs'[1].st # "zombie"
    <3>1. procs[1].ppid = 0 /\ procs[1].st # "zombie"
      BY DEF PetersonSafe
    <3>2. CASE p = 1
      BY <2>3, <3>1, <3>2
    <3>3. CASE q = 1
      BY <1>2, <2>2, <3>1, <3>3 DEF Death
    <3> QED BY <3>2, <3>3
  <2>8. procs'[q].pc \in {procs[q].pc, "main"}
        /\ (procs'[q].pc = procs[q].pc => procs'[q].st = procs[q].st \/ procs'[q].st = "gone")
        /\ \/ procs'[q].pc = procs[q].pc /\ procs'[q].st = procs[q].st
           \/ procs'[q].st = "gone" /\ procs'[q].pc = "main" /\ q = 2 /\ procs[q].st # "run"
    <3>1. q = 1 => procs[q].ppid # p
      BY <1>2 DEF PetersonSafe
    <3>2. CASE procs[q].ppid # p
      BY <1>2, <2>2, <3>2 DEF Death
    <3>3. CASE procs[q].ppid = p /\ procs[q].st = "run"
      BY <1>2, <2>2, <3>3 DEF Death, Keeps, Fields
    <3>4. CASE procs[q].ppid = p /\ procs[q].st # "run"
      <4>1. procs'[q].st = "gone" /\ procs'[q].pc = "main"
        BY <1>2, <2>2, <3>4 DEF Death, Fields, Unborn
      <4> QED BY <1>2, <3>1, <3>4, <4>1
    <3> QED BY <3>2, <3>3, <3>4
  <2>9. Either(q)'
    <3>1. CASE procs'[q].pc = procs[q].pc /\ procs'[q].st = procs[q].st
      BY <1>2, <1>3, <2>2, <3>1, EitherKept
    <3>2. CASE procs'[q].st = "gone" /\ procs'[q].pc = "main" /\ q = 2 /\ procs[q].st # "run"
      BY <1>3, <2>2, <3>2 DEF Either, Running
    <3> QED BY <2>8, <3>1, <3>2
  <2>10. ~ InSection(p)' /\ ~ Committed(p)'
    BY <1>2, <2>3 DEF InSection, Committed, On, Stage
  <2>11. Excludes(p, q)' /\ Excludes(q, p)'
    BY <2>10 DEF Excludes
  <2>12. Both'
    BY <1>2, <1>5, <2>2, <2>4, <2>9, <2>11 DEF Both, Pids
  <2> QED BY <1>2, <2>2, <2>6, <2>7, <2>12 DEF PetersonSafe, Others, Pids
<1>22. CASE procs[p].pc = "reap"
  <2>1. p = 1 /\ q = 2 /\ On(p, "out")
    BY <1>2, <1>3, <1>22 DEF Either, Stages, On, Stage, q
  <2>2. Instr(p).op = "wait" /\ Instr(p).next = "end" /\ Instr(p).other = "end"
    BY <1>2, <1>22, PetersonCode DEF Wait
  <2>3. shm' = shm /\ sbuf' = sbuf
    BY <1>1, <1>3, <2>2, Reaping DEF Calm, memory
  <2>4. sbuf[p] = <<>>
    BY <1>1, <2>2, ActsByOp DEF Reap, Calls
  <2>5. CASE Changes(p, {"pc"}) /\ procs'[p].pc = "end"
    <3>1. Others({p, q}) /\ procs'[q] = procs[q] /\ procs'[1].ppid = 0 /\ procs'[1].st # "zombie"
      BY <1>2, <2>1, <2>5 DEF Changes, Others, Keeps, Fields, PetersonSafe
    <3>2. Either(p)'
      BY <2>1, <2>3, <2>4, <2>5 DEF Either
    <3>3. ~ InSection(p)' /\ ~ Committed(p)'
      BY <2>1, <2>5 DEF InSection, Committed, On, Stage
    <3>4. Excludes(p, q)' /\ Excludes(q, p)'
      BY <3>3 DEF Excludes
    <3>5. sbuf' = [sbuf EXCEPT ![p] = sbuf'[p]]
      BY <2>3 DEF PetersonSafe
    <3> QED BY <1>6, <2>3, <3>1, <3>2, <3>4, <3>5
  <2>6. CASE \E r \in Zombies(p) :
                    /\ r # p /\ Others({p, r}) /\ Keeps(p, {"pc", "regs"})
                    /\ procs'[p].pc = "end" /\ procs'[r].st = "gone"
                    /\ \A f \in Fields \ {"st"} : procs'[r][f] = Unborn[f]
    <3> PICK r \in Zombies(p) :
                    /\ r # p /\ Others({p, r}) /\ Keeps(p, {"pc", "regs"})
                    /\ procs'[p].pc = "end" /\ procs'[r].st = "gone"
                    /\ \A f \in Fields \ {"st"} : procs'[r][f] = Unborn[f]
      BY <2>6
    <3>1. r = q
      <4>1. r \in Pids /\ procs[r].st = "zombie"
        BY DEF Zombies, Children
      <4>2. ~ r > 2
        BY <4>1 DEF PetersonSafe, Unborn
      <4> QED BY <2>1, <4>1, <4>2 DEF Pids
    <3>2. procs'[q].st = "gone" /\ procs'[q].pc = "main"
      BY <3>1 DEF Fields, Unborn
    <3>3. procs'[1].ppid = 0 /\ procs'[1].st # "zombie" /\ procs'[1].pc = "end"
      BY <2>1 DEF Keeps, Fields, PetersonSafe
    <3>4. sbuf[q] = <<>>
      <4>1. ~ Running(q)
        BY <3>1 DEF Zombies, Running
      <4> QED BY <1>3, <4>1 DEF Either
    <3>5. Either(p)' /\ Either(q)'
      BY <2>1, <2>3, <2>4, <3>2, <3>3, <3>4 DEF Either
    <3>6. ~ InSection(p)' /\ ~ Committed(p)'
      BY <2>1 DEF InSection, Committed, On, Stage
    <3>7. Excludes(p, q)' /\ Excludes(q, p)'
      BY <3>6 DEF Excludes
    <3>8. Both'
      BY <1>2, <1>5, <2>1, <2>3, <3>5, <3>7 DEF Both, Pids
    <3> QED BY <1>2, <2>1, <2>3, <3>1, <3>3, <3>8 DEF PetersonSafe, Others, Pids
  <2> QED BY <1>1, <1>3, <2>2, <2>5, <2>6, Reaping
<1>23. \/ \E s \in {"flag", "turn", "test", "his", "section", "leave"} : On(p, s)
       \/ procs[p].pc \in {"end", "reap"}
  <2>1. CASE \E s \in Stages : On(p, s)
    <3>1. On(p, "out") => procs[p].pc \in {"end", "reap"}
      BY <1>2 DEF On, Stage
    <3> QED BY <2>1, <3>1 DEF Stages
  <2> QED BY <1>1, <1>2, <1>3, <2>1 DEF Either, Running
<1> QED BY <1>15, <1>16, <1>17, <1>18, <1>19, <1>20, <1>21, <1>22, <1>23

LEMMA PetersonStep ==
    ASSUME ProcTypeOK, SilentOK, PetersonOK, [ProcNext]_procVars PROVE PetersonOK'
<1> SUFFICES ASSUME prog = "peterson", prog' = prog, ~ early', ~ early PROVE PetersonSafe'
  <2>1. prog' = prog /\ (early => early')
    BY ProgStays
  <2> QED BY <2>1 DEF PetersonOK
<1>1. PetersonSafe
  BY DEF PetersonOK
<1>2. CASE UNCHANGED procVars
  <2>1. procs' = procs /\ sbuf' = sbuf /\ shm' = shm
    BY <1>2 DEF procVars, memory
  <2>2. \A p : (Either(p) => Either(p)') /\ (InSection(p)' <=> InSection(p))
               /\ (Committed(p)' <=> Committed(p))
    BY <2>1 DEF Either, Running, Buffered, Committed, InSection, On
  <2>3. (Alone => Alone') /\ (Both => Both')
    BY <2>1, <2>2 DEF Alone, Both, Excludes, Pids
  <2> QED BY <1>1, <2>1, <2>3 DEF PetersonSafe, Pids
<1>3. ASSUME NEW p \in Pids, Proceed(p) \/ Drain(p) PROVE PetersonSafe'
  <2>1. 1 \in Pids /\ (Alone \/ Both)
    BY <1>1, ProcAssumption DEF PetersonSafe, Pids
  <2>2. Proceed(p) => Acts(p)
    BY SilentActs DEF Silent
  <2> QED BY <1>1, <1>3, <2>1, <2>2, DrainAlone, DrainBoth, PetersonAlone, PetersonBoth
<1>4. ~ CtrlC /\ \A p \in Pids : ~ AcceptCall(p)
  BY OnlyPoolAccepts DEF CtrlC
<1> QED BY <1>2, <1>3, <1>4 DEF ProcNext

LEMMA PetersonInit == ProcInit => PetersonOK
<1> SUFFICES ASSUME ProcInit, prog = "peterson" PROVE PetersonSafe
  BY DEF PetersonOK
<1>1. shm = [c \in Cells |-> shm[c]] /\ sbuf = [p \in Pids |-> sbuf[p]]
  BY DEF ProcInit
<1>2. \A p \in Pids : sbuf[p] = <<>>
  BY DEF ProcInit
<1>3. shm[C1] = 0 /\ shm[C2] = 0
  <2>1. C1 \in Cells /\ C2 \in Cells
    BY DEF C1, C2, Cells
  <2> QED BY <2>1 DEF ProcInit
<1>4. \A p \in Pids : p # 1 => procs[p] = Unborn
  BY StartsAt DEF Entries
<1>5. ASSUME 1 \in Pids
      PROVE  procs[1].ppid = 0 /\ procs[1].st = "run" /\ procs[1].pc = "main"
  <2>1. 1 \in DOMAIN Entries(prog) /\ Entries(prog)[1] = "main"
    BY DEF Entries
  <2> QED BY <1>5, <2>1, StartsAt DEF Fields, Unborn
<1>6. 1 \in Pids => Alone
  BY <1>2, <1>3, <1>4, <1>5 DEF Alone
<1> QED BY <1>1, <1>2, <1>4, <1>5, <1>6 DEF PetersonSafe, Pids

\* The father and the child are in their sections by turns.
LEMMA PetersonExcludes ==
    ASSUME ProcTypeOK, PetersonOK, ~ early, prog = "peterson",
           NEW p \in Pids, Running(p), procs[p].pc \in {"section1", "leave1"},
           NEW q \in Pids, Running(q), procs[q].pc \in {"section2", "leave2"}
    PROVE  FALSE
<1>1. PetersonSafe /\ 1 \in Pids
  BY ProcAssumption DEF PetersonOK, Pids
<1>2. Both
  <2>1. p \in {1, 2}
    BY <1>1 DEF PetersonSafe, Unborn, Running, Pids
  <2>2. CASE Alone
    <3>1. p # 1
      BY <2>2 DEF Alone
    <3>2. p # 2
      BY <2>2 DEF Alone, Unborn, Running
    <3> QED BY <2>1, <3>1, <3>2
  <2> QED BY <1>1, <2>2 DEF PetersonSafe
<1>3. p = 2 /\ q = 1
  <2>1. \A r \in Pids : Running(r) => r \in {1, 2}
    BY <1>1 DEF PetersonSafe, Unborn, Running, Pids
  <2>2. p # 1 /\ q # 2
    BY <1>2 DEF Both, Either, On, Stage, Stages, Running
  <2> QED BY <2>1, <2>2
<1>4. InSection(1) /\ InSection(2)
  BY <1>3 DEF InSection, On, Stage
<1>5. Committed(1)
  <2>1. Buffered(1)
    BY <1>2, <1>3 DEF Both, Either, Running
  <2> QED BY <1>4, <2>1 DEF Buffered, Committed
<1> QED BY <1>2, <1>4, <1>5 DEF Both, Excludes

LEMMA SectionsApart ==
    ASSUME NEW name \in Programs, name # "peterson"
    PROVE  "section1" \notin DOMAIN Code[name] /\ "leave1" \notin DOMAIN Code[name]
<1>1. CASE name = "slow_write"
  BY <1>1, CodeOf DEF SlowWrite
<1>2. CASE name = "shm"
  BY <1>2, CodeOf DEF Together, ShmServer, ShmClient
<1>3. CASE name = "mask"
  BY <1>3, CodeOf DEF Mask
<1>4. CASE name = "counterprob"
  BY <1>4, CodeOf DEF Counterprob
<1>5. CASE name = "signal1"
  BY <1>5, CodeOf DEF Signal1
<1>6. CASE name = "exo2"
  BY <1>6, CodeOf DEF SleepExercise
<1>7. CASE name = "pause"
  BY <1>7, CodeOf DEF PauseExercise
<1>8. CASE name = "alarm"
  BY <1>8, CodeOf DEF Beep
<1>9. CASE name = "waitpid1"
  BY <1>9, CodeOf DEF Waitpid1, WaitpidOf
<1>10. CASE name = "waitpid1_segv"
  BY <1>10, CodeOf DEF Waitpid1Segv, WaitpidOf
<1>11. CASE name = "ex4"
  BY <1>11, CodeOf DEF Ex4
<1>12. CASE name = "ex3"
  BY <1>12, CodeOf DEF Ex3
<1>13. CASE name = "arbre"
  BY <1>13, CodeOf DEF Arbre
<1>14. CASE name = "chaine"
  BY <1>14, CodeOf DEF Chaine
<1>15. CASE name = "ex2"
  BY <1>15, CodeOf DEF Ex2
<1>16. CASE name = "echoserveri"
  BY <1>16, CodeOf DEF Echoserveri
<1>17. CASE name = "tube_simple"
  BY <1>17, CodeOf DEF TubeSimple
<1>18. CASE name = "pipe"
  BY <1>18, CodeOf DEF PipeStrings
<1>19. CASE name = "dialogue"
  BY <1>19, CodeOf DEF Dialogue
<1>20. CASE name = "q3"
  BY <1>20, CodeOf DEF Relay
<1>21. CASE name = "mycopy"
  BY <1>21, CodeOf DEF Mycopy
<1> QED BY <1>1, <1>2, <1>3, <1>4, <1>5, <1>6, <1>7, <1>8, <1>9, <1>10, <1>11,
           <1>12, <1>13, <1>14, <1>15, <1>16, <1>17, <1>18, <1>19, <1>20, <1>21 DEF Programs

-----------------------------------------------------------------------------
(* The pool of echoserveri.  Until the first handler_kill its processes    *)
(* are a chain, each but the last waiting for the next; from then on every *)
(* one of them is to be killed.                                            *)

Live(p) == procs[p].st \in {"run", "zombie"}

\* p waits for its child, or is the first on its way out.
Waits(p) == procs[p].pc = "pere" \/ (p = 1 /\ procs[p].pc = "handler_kill")

Chained ==
    /\ \A p, s \in Pids : Live(p) /\ Live(s) /\ p < s =>
        /\ Running(p) /\ Waits(p) /\ p <= procs[s].ppid
        /\ \E c \in Pids : p < c /\ c <= s /\ Live(c) /\ procs[c].ppid = p
    /\ \A s \in Pids : Live(s) => procs[s].ppid < s
    /\ \A p, s \in Pids : procs[p].st = "none" =>
        procs[p].ppid = 0 /\ (p < s => procs[s].st = "none")

\* What each has before it is killed: the interrupt may have reached the
\* first, whose tab names nobody and so the whole group.
Steady(p) ==
    LET r == procs[p] IN
    /\ r.mask = {} \/ (p = 1 /\ r.pc = "handler_kill")
    /\ r.pend \subseteq (IF p = 1 THEN {"INT"} ELSE {})
    /\ p = 1 => r.regs.tab = Unborn.regs.tab /\ r.pc # "fils"
    /\ "INT" \in r.pend => r.hand["INT"] = "handler_kill"
    /\ p # 1 => r.pc # "handler_kill"
    /\ r.alarm = FALSE

\* An interrupt waits for p, or p is leaving.
Doomed(p) ==
    procs[p].pc \in {"handler_kill", "end"} \/ "INT" \in procs[p].pend \ procs[p].mask

Servers == {p \in Pids : Running(p) /\ procs[p].pc \in Serving}

PoolSafe ==
    \/ Chained /\ \A p \in Pids : Running(p) => Steady(p)
    \/ /\ \A p \in Pids : Running(p) => Doomed(p)
       /\ \A p, q \in Servers : p = q

PoolOK == prog = "echoserveri" => PoolSafe

LEMMA PoolCode ==
    ASSUME ProcTypeOK, prog = "echoserveri", NEW p \in Pids, Running(p)
    PROVE  /\ procs[p].pc \in {"main", "fork", "fils", "pere", "next", "who", "accept", "echo",
                               "broken", "sigpipe", "reap", "reap2", "reap3", "handler_kill",
                               "end", "unix_error"}
           /\ procs[p].pc = "main" => Instr(p) = Handle("INT", "handler_kill", "fork")
           /\ procs[p].pc = "fork" => Instr(p) = RawFork("fils", "pere")
           /\ procs[p].pc = "fils" => Instr(p) = Set("tab", "self", "next")
           /\ procs[p].pc = "pere" => Instr(p) = RawWait("next")
           /\ procs[p].pc = "next" => Instr(p) = Loop("i", NPROC, "fork", "who")
           /\ procs[p].pc = "who" => Instr(p) = If("pid", 0, "accept", "reap")
           /\ procs[p].pc = "accept" => Instr(p) = Accept("echo")
           /\ procs[p].pc = "echo" => Instr(p) = Choose("accept", "broken")
           /\ procs[p].pc = "broken" => Instr(p) = Choose("unix_error", "sigpipe")
           /\ procs[p].pc = "sigpipe" => Instr(p) = Segv
           /\ procs[p].pc \in {"reap", "reap2", "reap3"} =>
                \E label \in {"reap2", "reap3", "end"} : Instr(p) = RawWait(label)
           /\ procs[p].pc = "handler_kill" => Instr(p) = Kill("tab", "INT", "end", "end")
           /\ procs[p].pc \in {"end", "unix_error"} => Instr(p) = Exit
<1>1. Code[prog] = Echoserveri /\ procs[p].pc \in Labels
  BY CodeOf DEF ProcTypeOK, Placed, Running
<1>2. procs[p].pc \in DOMAIN Echoserveri \cup {"unix_error"}
  BY <1>1 DEF Labels
<1>3. CASE procs[p].pc = "unix_error"
  BY <1>3 DEF Instr
<1>4. CASE procs[p].pc \in DOMAIN Echoserveri /\ procs[p].pc # "unix_error"
  <2>1. Instr(p) = Echoserveri[procs[p].pc]
    BY <1>1, <1>4 DEF Instr
  <2>2. procs[p].pc \in {"main", "fork", "fils", "pere", "next", "who", "accept", "echo",
                         "broken", "sigpipe", "reap", "reap2", "reap3", "handler_kill", "end"}
    BY <1>4 DEF Echoserveri
  <2> QED BY <2>1, <2>2 DEF Echoserveri, PoolWait
<1> QED BY <1>2, <1>3, <1>4

\* The last of the chain.
IsLast(p) == \A s \in Pids : Live(s) => s <= p

LEMMA ChainLast ==
    ASSUME Chained, NEW p \in Pids, Live(p), ~ Waits(p) \/ ~ Running(p)
    PROVE  IsLast(p)
<1> SUFFICES ASSUME NEW s \in Pids, Live(s), ~ s <= p PROVE FALSE
  BY DEF IsLast
<1>1. p < s
  BY DEF Pids
<1> QED BY <1>1 DEF Chained

\* One that waits goes on waiting, or the last moves.
LEMMA ChainKept ==
    ASSUME Chained, NEW p \in Pids, Live(p), Others({p}),
           procs'[p].st = procs[p].st, procs'[p].ppid = procs[p].ppid,
           (Running(p) /\ procs'[p].pc \in {"pere", "handler_kill"} /\ p = 1) \/ IsLast(p)
    PROVE  Chained'
<1>1. \A q \in Pids : procs'[q].st = procs[q].st /\ procs'[q].ppid = procs[q].ppid
  BY DEF Others
<1>2. ASSUME NEW q \in Pids, NEW s \in Pids, Live(q), Live(s), q < s
      PROVE  Running(q)' /\ Waits(q)'
  <2>1. CASE q = p
    <3>1. ~ IsLast(p)
      BY <1>2, <2>1 DEF IsLast, Pids
    <3> QED BY <2>1, <3>1, <1>1 DEF Running, Waits
  <2>2. CASE q # p
    BY <1>2, <2>2 DEF Chained, Others, Running, Waits
  <2> QED BY <2>1, <2>2
<1>3. \A q \in Pids : Live(q)' <=> Live(q)
  BY <1>1 DEF Live
<1>4. \A q, s \in Pids : Live(q) /\ Live(s) /\ q < s =>
        /\ q <= procs'[s].ppid
        /\ \E c \in Pids : q < c /\ c <= s /\ Live(c) /\ procs'[c].ppid = q
  BY <1>1 DEF Chained
<1>5. /\ \A s \in Pids : Live(s) => procs'[s].ppid < s
      /\ \A q, s \in Pids : procs'[q].st = "none" =>
            procs'[q].ppid = 0 /\ (q < s => procs'[s].st = "none")
  BY <1>1 DEF Chained
<1>6. Pids' = Pids
  BY DEF Pids
<1> QED BY <1>2, <1>3, <1>4, <1>5, <1>6 DEF Chained

\* The last makes a child and waits for it.
LEMMA ChainGrows ==
    ASSUME Chained, NEW p \in Pids, Running(p), IsLast(p), NEW q \in Pids, Born(p, q),
           Instr(p).next = "pere"
    PROVE  Chained'
<1>1. /\ procs'[q].st = "run" /\ procs'[q].ppid = p /\ procs[q].st = "none" /\ q # p
      /\ procs'[p].st = "run" /\ procs'[p].ppid = procs[p].ppid /\ procs'[p].pc = "pere"
      /\ Others({p, q})
  BY DEF Born, Keeps, Fields, Running
<1>2. p < q
  <2>1. ~ q < p
    BY <1>1 DEF Chained, Running
  <2> QED BY <1>1, <2>1 DEF Pids
<1>3. \A r \in Pids : Live(r)' <=> Live(r) \/ r = q
  BY <1>1 DEF Live, Others, Running
<1>4. \A r \in Pids \ {q} : procs'[r].ppid = procs[r].ppid /\ procs'[r].st = procs[r].st
  BY <1>1 DEF Others, Running
<1>5. Live(p) /\ ~ Live(q) /\ Waits(p)' /\ Running(p)'
  BY <1>1 DEF Live, Running, Waits
<1>6. \A r \in Pids : Live(r) => r <= p
  BY DEF IsLast
<1>7. ASSUME NEW r \in Pids, NEW s \in Pids, Live(r)', Live(s)', r < s
      PROVE  /\ Running(r)' /\ Waits(r)' /\ r <= procs'[s].ppid
             /\ \E c \in Pids : r < c /\ c <= s /\ Live(c)' /\ procs'[c].ppid = r
  <2>1. Live(r)
    BY <1>2, <1>3, <1>6, <1>7 DEF Pids
  <2>2. CASE r = p
    <3>1. s = q
      BY <1>3, <1>6, <1>7, <2>2 DEF Pids
    <3> QED BY <1>1, <1>2, <1>3, <1>5, <2>2, <3>1 DEF Pids
  <2>3. CASE r # p
    <3>1. r < p
      BY <1>6, <2>1, <2>3 DEF Pids
    <3>2. Running(r) /\ Waits(r)
      BY <1>5, <2>1, <3>1 DEF Chained
    <3>3. Running(r)' /\ Waits(r)'
      BY <1>1, <1>5, <2>1, <2>3, <3>2 DEF Others, Running, Waits, Live
    <3>4. CASE s = q
      <4>1. PICK c \in Pids : r < c /\ c <= p /\ Live(c) /\ procs[c].ppid = r
        BY <1>5, <2>1, <3>1 DEF Chained
      <4>2. c <= s /\ Live(c)' /\ procs'[c].ppid = r
        BY <1>2, <1>3, <1>4, <1>5, <3>4, <4>1 DEF Pids
      <4>3. r <= procs'[s].ppid
        BY <1>1, <3>1, <3>4 DEF Pids
      <4> QED BY <3>3, <4>1, <4>2, <4>3
    <3>5. CASE s # q
      <4>1. Live(s) /\ procs'[s].ppid = procs[s].ppid
        BY <1>3, <1>4, <1>7, <3>5
      <4>2. PICK c \in Pids : r < c /\ c <= s /\ Live(c) /\ procs[c].ppid = r
        BY <1>7, <2>1, <4>1 DEF Chained
      <4>3. Live(c)' /\ procs'[c].ppid = r
        BY <1>3, <1>4, <1>5, <4>2
      <4>4. r <= procs'[s].ppid
        BY <1>7, <2>1, <4>1 DEF Chained
      <4> QED BY <3>3, <4>2, <4>3, <4>4
    <3> QED BY <3>4, <3>5
  <2> QED BY <2>2, <2>3
<1>8. ASSUME NEW s \in Pids, Live(s)' PROVE procs'[s].ppid < s
  BY <1>1, <1>2, <1>3, <1>4, <1>8 DEF Chained
<1>9. ASSUME NEW r \in Pids, NEW s \in Pids, procs'[r].st = "none"
      PROVE  procs'[r].ppid = 0 /\ (r < s => procs'[s].st = "none")
  <2>1. r # q /\ procs[r].st = "none"
    BY <1>1, <1>4, <1>9
  <2>2. r < q => procs[r].st # "none"
    BY DEF Born, Pids
  <2>3. r < s => s # q
    BY <2>1, <2>2
  <2> QED BY <1>4, <2>1, <2>3 DEF Chained
<1>10. Pids' = Pids
  BY DEF Pids
<1> QED BY <1>7, <1>8, <1>9, <1>10 DEF Chained

\* The last ends: it stays a zombie, or is gone.
LEMMA ChainDies ==
    ASSUME ProcTypeOK, Chained, NEW p \in Pids, Running(p), IsLast(p), NEW code, Death(p, code)
    PROVE  /\ Chained'
           /\ \A q \in Pids : Running(q)' => Running(q) /\ q # p /\ procs'[q] = procs[q]
<1>1. ASSUME NEW q \in Pids, q # p, procs[q].ppid = p
      PROVE  procs[q].st = "gone" /\ procs'[q].st = "gone" /\ procs'[q].ppid = 0
  <2>1. ~ Live(q)
    <3>1. Live(q) => p < q /\ q <= p
      BY <1>1 DEF Chained, IsLast
    <3> QED BY <3>1 DEF Pids
  <2>2. procs[q].st # "none"
    BY <1>1 DEF Chained, Pids
  <2>3. procs[q].st = "gone"
    BY <2>1, <2>2 DEF ProcTypeOK, Placed, Live
  <2> QED BY <1>1, <2>3 DEF Death, Fields, Unborn
<1>2. \A q \in Pids : q # p /\ procs[q].ppid # p => procs'[q] = procs[q]
  BY DEF Death
<1>3. procs'[p].st \in {"gone", "zombie"} /\ procs'[p].ppid = procs[p].ppid
  BY DEF Death
<1>4. \A q \in Pids : Live(q)' => Live(q)
  BY <1>1, <1>2, <1>3 DEF Live, Running
<1>5. \A q \in Pids : q # p /\ Live(q) => Live(q)' /\ procs'[q] = procs[q]
  BY <1>1, <1>2 DEF Live
<1>6. \A q \in Pids : procs'[q].st = "none" <=> procs[q].st = "none"
  BY <1>1, <1>2, <1>3 DEF Running
<1>7. ASSUME NEW r \in Pids, NEW s \in Pids, Live(r)', Live(s)', r < s
      PROVE  /\ Running(r)' /\ Waits(r)' /\ r <= procs'[s].ppid
             /\ \E c \in Pids : r < c /\ c <= s /\ Live(c)' /\ procs'[c].ppid = r
  <2>1. Live(r) /\ Live(s) /\ s <= p
    BY <1>4, <1>7 DEF IsLast
  <2>2. r # p
    BY <1>7, <2>1 DEF Pids
  <2>3. Running(r) /\ Waits(r) /\ r <= procs[s].ppid
    BY <1>7, <2>1 DEF Chained
  <2>4. PICK c \in Pids : r < c /\ c <= s /\ Live(c) /\ procs[c].ppid = r
    BY <1>7, <2>1 DEF Chained
  <2>5. procs'[s].ppid = procs[s].ppid /\ procs'[c].ppid = r
    BY <1>3, <1>5, <2>1, <2>4
  <2>6. Live(c)'
    <3>1. CASE c = p
      <4>1. s = p
        BY <2>1, <2>4, <3>1 DEF Pids
      <4> QED BY <1>7, <3>1, <4>1
    <3> QED BY <1>5, <2>4, <3>1
  <2>7. Running(r)' /\ Waits(r)'
    BY <1>5, <2>1, <2>2, <2>3 DEF Running, Waits
  <2> QED BY <2>3, <2>4, <2>5, <2>6, <2>7
<1>8. \A s \in Pids : Live(s)' => procs'[s].ppid < s
  BY <1>3, <1>4, <1>5 DEF Chained
<1>9. ASSUME NEW r \in Pids, NEW s \in Pids, procs'[r].st = "none"
      PROVE  procs'[r].ppid = 0 /\ (r < s => procs'[s].st = "none")
  <2>1. procs[r].st = "none"
    BY <1>6, <1>9
  <2>2. procs[r].ppid = 0 /\ (r < s => procs[s].st = "none")
    BY <2>1 DEF Chained
  <2>3. procs'[r].ppid = 0
    BY <1>1, <1>2, <1>3, <2>2
  <2> QED BY <1>6, <2>2, <2>3
<1>10. Pids' = Pids
  BY DEF Pids
<1>11. \A q \in Pids : Running(q)' => Running(q) /\ q # p /\ procs'[q] = procs[q]
  BY <1>1, <1>2, <1>3 DEF Running
<1> QED BY <1>7, <1>8, <1>9, <1>10, <1>11 DEF Chained

\* One that waited has its child back, and is the last.
LEMMA ChainShrinks ==
    ASSUME ProcTypeOK, Chained, NEW p \in Pids, Running(p), NEW q \in Zombies(p), Others({p, q}),
           Keeps(p, {"pc", "regs"}), procs'[q].st = "gone", procs'[q].ppid = 0
    PROVE  Chained' /\ IsLast(p)'
<1>1. q \in Pids /\ q # p /\ Live(q) /\ ~ Running(q) /\ Live(p) /\ procs[q].ppid = p
      /\ procs[q].st = "zombie"
  BY DEF Zombies, Children, Live, Running, ProcTypeOK, Placed
<1>2. IsLast(q) /\ p < q
  <2>1. p < q
    BY <1>1 DEF Chained
  <2> QED BY <1>1, <2>1, ChainLast
<1>3. procs'[p].st = procs[p].st /\ procs'[p].ppid = procs[p].ppid
  BY DEF Keeps, Fields
<1>4. \A r \in Pids \ {q} : procs'[r].st = procs[r].st /\ procs'[r].ppid = procs[r].ppid
  BY <1>3 DEF Others
<1>5. \A r \in Pids : Live(r)' <=> Live(r) /\ r # q
  BY <1>1, <1>4 DEF Live
<1>6. \A r \in Pids : Live(r)' => r <= p
  <2> SUFFICES ASSUME NEW r \in Pids, Live(r)', ~ r <= p PROVE FALSE
    OBVIOUS
  <2>1. Live(r) /\ r < q
    <3>1. Live(r) /\ r # q
      BY <1>5
    <3>2. r <= q
      BY <1>2, <3>1 DEF IsLast
    <3> QED BY <1>1, <3>1, <3>2 DEF Pids
  <2>2. r <= p
    BY <1>1, <2>1 DEF Chained
  <2> QED BY <2>2
<1>7. ASSUME NEW r \in Pids, NEW s \in Pids, Live(r)', Live(s)', r < s
      PROVE  /\ Running(r)' /\ Waits(r)' /\ r <= procs'[s].ppid
             /\ \E c \in Pids : r < c /\ c <= s /\ Live(c)' /\ procs'[c].ppid = r
  <2>1. Live(r) /\ Live(s) /\ s <= p /\ s # q /\ r # q
    BY <1>5, <1>6, <1>7
  <2>2. r # p
    BY <1>7, <2>1 DEF Pids
  <2>3. Running(r) /\ Waits(r) /\ r <= procs[s].ppid
    BY <1>7, <2>1 DEF Chained
  <2>4. PICK c \in Pids : r < c /\ c <= s /\ Live(c) /\ procs[c].ppid = r
    BY <1>7, <2>1 DEF Chained
  <2>5. c # q
    BY <1>2, <2>1, <2>4 DEF Pids
  <2>6. Running(r)' /\ Waits(r)'
    BY <2>1, <2>2, <2>3 DEF Others, Running, Waits
  <2> QED BY <1>4, <1>5, <2>1, <2>3, <2>4, <2>5, <2>6
<1>8. \A s \in Pids : Live(s)' => procs'[s].ppid < s
  BY <1>4, <1>5 DEF Chained
<1>9. \A r, s \in Pids : procs'[r].st = "none" =>
            procs'[r].ppid = 0 /\ (r < s => procs'[s].st = "none")
  <2> SUFFICES ASSUME NEW r \in Pids, NEW s \in Pids, procs'[r].st = "none"
               PROVE  procs'[r].ppid = 0 /\ (r < s => procs'[s].st = "none")
    OBVIOUS
  <2>1. r # q /\ procs[r].st = "none" /\ procs'[r].ppid = procs[r].ppid
    BY <1>4
  <2>2. procs[r].ppid = 0 /\ (r < s => procs[s].st = "none")
    BY <2>1 DEF Chained
  <2>3. r < s => s # q
    BY <1>1, <2>2
  <2> QED BY <1>4, <2>1, <2>2, <2>3
<1>10. Pids' = Pids
  BY DEF Pids
<1> QED BY <1>6, <1>7, <1>8, <1>9, <1>10 DEF Chained, IsLast

\* Once everyone is to be killed.
Falls(q) ==
    Running(q)' =>
        /\ Running(q)
        /\ \/ /\ procs'[q].pc = procs[q].pc /\ procs'[q].mask = procs[q].mask
              /\ procs[q].pend \subseteq procs'[q].pend
           \/ procs'[q].pc \in {"handler_kill", "end"}

LEMMA DoomKept ==
    ASSUME \A q \in Pids : Running(q) => Doomed(q),
           \A p, q \in Servers : p = q,
           \A q \in Pids : Falls(q)
    PROVE  PoolSafe'
<1>1. \A q \in Pids : Running(q)' => Doomed(q)'
  BY DEF Falls, Doomed
<1>2. Servers' \subseteq Servers
  BY DEF Falls, Servers, Serving, Pids
<1> QED BY <1>1, <1>2 DEF PoolSafe, Pids

LEMMA DoomBegins ==
    ASSUME Chained, \A q \in Pids : Running(q)' => Doomed(q)' /\ Running(q)
                        /\ (procs'[q].pc \in Serving => procs[q].pc \in Serving)
    PROVE  PoolSafe'
<1>1. \A p, q \in Servers' : p = q
  <2> SUFFICES ASSUME NEW p \in Servers', NEW q \in Servers', p < q PROVE FALSE
    BY DEF Servers, Pids
  <2>1. /\ p \in Pids /\ q \in Pids /\ Live(p) /\ Live(q) /\ procs[p].pc \in Serving
    BY DEF Servers, Live, Running, Pids
  <2> QED BY <2>1 DEF Chained, Waits, Serving
<1> QED BY <1>1 DEF PoolSafe, Pids

\* A process of the chain makes a call.
LEMMA ChainActs ==
    ASSUME ProcTypeOK, SilentOK, prog = "echoserveri", Chained,
           \A q \in Pids : Running(q) => Steady(q), NEW p \in Pids, Acts(p)
    PROVE  PoolSafe'
<1>1. Running(p) /\ Shape /\ NoChld /\ procs[p].ppid # p /\ Live(p) /\ Deliverable(p) = {}
      /\ Steady(p)
  BY ActsByOp DEF ProcTypeOK, Placed, SilentOK, Live, Running
<1>2. Instr(p).op \in Ops
  BY OpsActed
<1>3. procs[p].pc # "handler_kill" => procs[p].mask = {} /\ procs[p].pend = {} /\ ~ procs[p].alarm
  BY <1>1 DEF Deliverable, Blocked, Steady
<1>4. procs[p].pc \notin {"pere", "handler_kill"} => IsLast(p)
  BY <1>1, ChainLast DEF Waits
\* p goes on, and is or becomes the last.
<1>5. ASSUME NEW q \in Pids, procs'[q] = procs[q], Running(q)' PROVE Steady(q)'
  BY <1>5 DEF Steady, Running, Pids
<1>6. ASSUME Keeps(p, {"pc", "regs", "hand"}), procs[p].pc # "handler_kill",
             procs'[p].pc # "handler_kill",
             p = 1 => procs'[p].pc # "fils" /\ procs'[p].regs.tab = procs[p].regs.tab
      PROVE  Steady(p)'
  <2>1. procs'[p].mask = {} /\ procs'[p].pend = {} /\ procs'[p].alarm = FALSE
    BY <1>1, <1>3, <1>6 DEF Keeps, Fields, Steady
  <2>2. p = 1 => procs'[p].pc # "fils" /\ procs'[p].regs.tab = Unborn.regs.tab
    BY <1>1, <1>6 DEF Steady
  <2> QED BY <1>6, <2>1, <2>2 DEF Steady
<1>7. ASSUME NEW F, F \subseteq {"pc", "regs", "hand"}, Changes(p, F), IsLast(p),
             procs[p].pc # "handler_kill", procs'[p].pc # "handler_kill",
             p = 1 => procs'[p].pc # "fils" /\ procs'[p].regs.tab = procs[p].regs.tab
      PROVE  PoolSafe'
  <2>1. Keeps(p, {"pc", "regs", "hand"}) /\ Others({p})
    BY <1>7 DEF Changes, Keeps
  <2>2. procs'[p].st = procs[p].st /\ procs'[p].ppid = procs[p].ppid
    BY <2>1 DEF Keeps, Fields
  <2>3. Chained'
    BY <1>1, <1>7, <2>1, <2>2, ChainKept
  <2>4. \A q \in Pids : Running(q)' => Steady(q)'
    BY <1>5, <1>6, <1>7, <2>1 DEF Others
  <2> QED BY <2>3, <2>4 DEF PoolSafe, Pids
<1>8. {"pc"} \subseteq {"pc", "regs", "hand"} /\ {"pc", "regs"} \subseteq {"pc", "regs", "hand"}
      /\ {"pc", "hand"} \subseteq {"pc", "regs", "hand"}
      /\ (Keeps(p, {"pc"}) => procs'[p].regs = procs[p].regs)
      /\ (Keeps(p, {"pc", "hand"}) => procs'[p].regs = procs[p].regs)
      /\ "tab" \in RegNames /\ {"i", "pid"} \subseteq RegNames
  BY DEF Keeps, Fields, RegNames
<1>9. CASE procs[p].pc = "main"
  <2>1. /\ Instr(p).op = "handle" /\ Instr(p).next = "fork"
    BY <1>1, <1>9, PoolCode DEF Handle
  <2>2. Changes(p, {"pc", "hand"}) /\ procs'[p].pc = "fork"
    BY <1>1, <2>1, Signalling DEF Changes
  <2>3. procs'[p].regs = procs[p].regs
    BY <1>8, <2>2 DEF Changes
  <2> QED BY <1>4, <1>7, <1>8, <1>9, <2>2, <2>3
<1>10. CASE procs[p].pc = "fork"
  <2>1. /\ Instr(p).op = "fork" /\ Instr(p).next = "pere" /\ Instr(p).child = "fils"
        /\ Instr(p).other = "pere"
    BY <1>1, <1>10, PoolCode DEF RawFork, Fork
  <2>2. CASE \E q \in Pids : Born(p, q)
    <3> PICK q \in Pids : Born(p, q)
      BY <2>2
    <3>1. Chained'
      BY <1>1, <1>4, <1>10, <2>1, ChainGrows
    <3>2. /\ Others({p, q}) /\ Keeps(p, {"pc", "regs"}) /\ procs'[p].pc = "pere"
          /\ procs'[p].regs.tab = procs[p].regs.tab /\ q # p
          /\ procs'[q].pend = {} /\ procs'[q].mask = procs[p].mask /\ procs'[q].pc = "fils"
          /\ procs'[q].alarm = FALSE
      BY <1>8, <2>1 DEF Born, Fields
    <3>3. Keeps(p, {"pc", "regs", "hand"})
      BY <3>2 DEF Keeps
    <3>4. Steady(p)'
      BY <1>6, <1>10, <3>2, <3>3
    <3>5. Steady(q)'
      <4>1. q # 1
        <5>1. q = 1 => Live(p) /\ q < p
          BY <1>1, <3>2 DEF Pids
        <5>2. procs[q].st = "none" /\ procs[p].st = "run"
          BY <1>1 DEF Born, Running
        <5> QED BY <5>1, <5>2 DEF Chained
      <4> QED BY <1>3, <1>10, <3>2, <4>1 DEF Steady
    <3>6. \A r \in Pids : Running(r)' => Steady(r)'
      BY <1>5, <3>2, <3>4, <3>5 DEF Others
    <3> QED BY <3>1, <3>6 DEF PoolSafe, Pids
  <2>3. CASE /\ Changes(p, {"pc", "regs"}) /\ procs'[p].pc = "pere"
             /\ \A n \in RegNames \ {"pid"} : procs'[p].regs[n] = procs[p].regs[n]
    BY <1>4, <1>7, <1>8, <1>10, <2>3
  <2> QED BY <1>1, <2>1, <2>2, <2>3, Forking
<1>11. CASE procs[p].pc = "fils"
  <2>1. Instr(p).op = "set" /\ Instr(p).next = "next" /\ Instr(p).reg = "tab"
    BY <1>1, <1>11, PoolCode DEF Set
  <2>2. Changes(p, {"pc", "regs"}) /\ procs'[p].pc = "next"
    BY <1>1, <1>8, <2>1, Assigning
  <2>3. p # 1
    BY <1>1, <1>11 DEF Steady
  <2> QED BY <1>4, <1>7, <1>8, <1>11, <2>2, <2>3
<1>12. CASE procs[p].pc \in {"pere", "reap", "reap2", "reap3"}
  <2>1. PICK label \in {"next", "reap2", "reap3", "end"} : Instr(p) = RawWait(label)
    BY <1>1, <1>12, PoolCode
  <2>2. Instr(p).op = "wait" /\ Instr(p).next = label /\ Instr(p).other = label
    BY <2>1 DEF RawWait, Wait
  <2>3. CASE Zombies(p) = {} /\ Changes(p, {"pc"}) /\ Children(p) = {} /\ procs'[p].pc = label
    <3>1. IsLast(p)
      <4> SUFFICES ASSUME NEW s \in Pids, Live(s), p < s PROVE FALSE
        BY DEF IsLast, Pids
      <4>1. PICK c \in Pids : Live(c) /\ procs[c].ppid = p
        BY <1>1 DEF Chained
      <4> QED BY <2>3, <4>1 DEF Children, Live
    <3>2. procs'[p].regs = procs[p].regs
      BY <1>8, <2>3 DEF Changes
    <3> QED BY <1>7, <1>8, <1>12, <2>3, <3>1, <3>2
  <2>4. CASE \E q \in Zombies(p) :
                    /\ q # p /\ Others({p, q}) /\ Keeps(p, {"pc", "regs"})
                    /\ procs'[p].pc = label
                    /\ \A n \in RegNames \ {"status"} : procs'[p].regs[n] = procs[p].regs[n]
                    /\ procs'[q].st = "gone"
                    /\ \A f \in Fields \ {"st"} : procs'[q][f] = Unborn[f]
    <3> PICK q \in Zombies(p) :
                    /\ q # p /\ Others({p, q}) /\ Keeps(p, {"pc", "regs"})
                    /\ procs'[p].pc = label
                    /\ \A n \in RegNames \ {"status"} : procs'[p].regs[n] = procs[p].regs[n]
                    /\ procs'[q].st = "gone"
                    /\ \A f \in Fields \ {"st"} : procs'[q][f] = Unborn[f]
      BY <2>4
    <3>1. procs'[q].ppid = 0
      BY DEF Fields, Unborn
    <3>2. Chained'
      BY <1>1, <3>1, ChainShrinks
    <3>3. procs'[p].regs.tab = procs[p].regs.tab /\ Keeps(p, {"pc", "regs", "hand"})
      BY <1>8 DEF Keeps
    <3>4. Steady(p)'
      BY <1>6, <1>12, <3>3
    <3>5. ~ Running(q)'
      BY DEF Running
    <3>6. \A r \in Pids : Running(r)' => Steady(r)'
      BY <1>5, <3>4, <3>5 DEF Others
    <3> QED BY <3>2, <3>6 DEF PoolSafe, Pids
  <2> QED BY <1>1, <2>2, <2>3, <2>4, Reaping
<1>13. CASE procs[p].pc = "next"
  <2>1. /\ Instr(p).op = "loop" /\ Instr(p).next = "fork" /\ Instr(p).other = "who"
        /\ Instr(p).reg = "i"
    BY <1>1, <1>13, PoolCode DEF Loop
  <2>2. /\ Changes(p, {"pc", "regs"}) /\ procs'[p].pc \in {"fork", "who"}
        /\ \A n \in RegNames \ {"i"} : procs'[p].regs[n] = procs[p].regs[n]
    BY <1>1, <1>8, <2>1, Assigning
  <2> QED BY <1>4, <1>7, <1>8, <1>13, <2>2
<1>14. CASE procs[p].pc = "who"
  <2>1. /\ Instr(p).op = "if" /\ Instr(p).next = "accept" /\ Instr(p).other = "reap"
    BY <1>1, <1>14, PoolCode DEF If
  <2>2. Changes(p, {"pc"}) /\ procs'[p].pc \in {"accept", "reap"}
    BY <1>1, <2>1, Computing
  <2>3. procs'[p].regs = procs[p].regs
    BY <1>8, <2>2 DEF Changes
  <2> QED BY <1>4, <1>7, <1>8, <1>14, <2>2, <2>3
<1>15. CASE procs[p].pc = "handler_kill"
  <2>1. /\ Instr(p).op = "kill" /\ Instr(p).whom = "tab" /\ Instr(p).sig = "INT"
        /\ Instr(p).next = "end" /\ Instr(p).other = "end"
    BY <1>1, <1>15, PoolCode DEF Kill
  <2>2. p = 1 /\ procs[p].regs.tab = [n \in 0..2 |-> 0]
    BY <1>1, <1>15 DEF Steady, Unborn
  <2>3. Target(p) = Pids
    <3>1. 0 \in Range(procs[p].regs.tab)
      <4>1. 0 \in DOMAIN procs[p].regs.tab /\ procs[p].regs.tab[0] = 0
        BY <2>2
      <4> QED BY <4>1 DEF Range
    <3> QED BY <2>1, <3>1 DEF Target
  <2>4. /\ procs'[p].pc = "end" /\ Keeps(p, {"pc", "pend"})
        /\ \A q \in Pids \ {p} : Keeps(q, {"pend"})
        /\ \A q \in Pids : procs[q].st = "run" => procs'[q].pend = procs[q].pend \cup {"INT"}
    <3>1. \E q \in Target(p) : q # 0 /\ procs[q].st # "gone"
      BY <1>1, <2>2, <2>3 DEF Running
    <3> QED BY <1>1, <2>1, <2>3, <3>1, Killing
  <2>5. ASSUME NEW q \in Pids, Running(q)'
        PROVE  Doomed(q)' /\ Running(q) /\ (procs'[q].pc \in Serving => procs[q].pc \in Serving)
    <3>1. CASE q = p
      BY <1>1, <2>4, <3>1 DEF Doomed, Serving
    <3>2. CASE q # p
      <4>1. procs'[q].mask = procs[q].mask /\ procs'[q].pc = procs[q].pc /\ Running(q)
        BY <2>4, <2>5, <3>2 DEF Keeps, Fields, Running
      <4>2. procs[q].mask = {} /\ procs'[q].pend = procs[q].pend \cup {"INT"}
        BY <2>2, <2>4, <3>2, <4>1 DEF Steady, Running
      <4> QED BY <4>1, <4>2 DEF Doomed
    <3> QED BY <3>1, <3>2
  <2> QED BY <2>5, DoomBegins
<1>16. CASE procs[p].pc \in {"end", "unix_error", "sigpipe"}
  <2>1. Instr(p).op \in {"exit", "segv"}
    BY <1>1, <1>16, PoolCode DEF Exit, Segv
  <2>2. PICK code : Death(p, code)
    BY <1>1, <2>1, Ending
  <2>3. Chained' /\ \A q \in Pids : Running(q)' => Running(q) /\ q # p /\ procs'[q] = procs[q]
    BY <1>1, <1>4, <1>16, <2>2, ChainDies
  <2>4. \A q \in Pids : Running(q)' => Steady(q)'
    BY <1>5, <2>3
  <2> QED BY <2>3, <2>4 DEF PoolSafe, Pids
<1>17. CASE procs[p].pc \in {"echo", "broken"}
  <2>1. /\ Instr(p).op = "choose"
        /\ {Instr(p).next, Instr(p).other} \subseteq {"accept", "broken", "sigpipe", "unix_error"}
    BY <1>1, <1>17, PoolCode DEF Choose
  <2>2. Changes(p, {"pc"}) /\ procs'[p].pc \in {"accept", "broken", "sigpipe", "unix_error"}
    BY <1>1, <2>1, Computing
  <2>3. procs'[p].regs = procs[p].regs
    BY <1>8, <2>2 DEF Changes
  <2> QED BY <1>4, <1>7, <1>8, <1>17, <2>2, <2>3
<1>18. procs[p].pc # "accept"
  <2>1. procs[p].pc = "accept" => Instr(p).op = "accept"
    BY <1>1, PoolCode DEF Accept
  <2> QED BY <1>2, <2>1 DEF Ops
<1> QED BY <1>1, <1>9, <1>10, <1>11, <1>12, <1>13, <1>14, <1>15, <1>16, <1>17, <1>18, PoolCode

\* The last of the chain, which serves, has a client or ends.
LEMMA ChainServes ==
    ASSUME ProcTypeOK, prog = "echoserveri", Chained,
           \A q \in Pids : Running(q) => Steady(q), NEW p \in Pids, AcceptCall(p)
    PROVE  PoolSafe'
<1>1. /\ Running(p) /\ Live(p) /\ Instr(p).op = "accept" /\ Changes(p, {"pc"})
      /\ procs'[p].pc \in {Instr(p).next, Instr(p).other}
  BY Accepting DEF ProcTypeOK, Live, Running
<1>2. procs[p].pc = "accept" /\ Instr(p) = Accept("echo")
  BY <1>1, PoolCode DEF Handle, RawFork, Fork, Set, RawWait, Wait, Loop, If, Choose, Segv, Kill, Exit
<1>3. procs'[p].pc \in {"echo", "unix_error"}
  BY <1>1, <1>2 DEF Accept
<1>4. /\ Others({p}) /\ procs'[p].st = procs[p].st /\ procs'[p].ppid = procs[p].ppid
      /\ procs'[p].mask = procs[p].mask /\ procs'[p].pend = procs[p].pend
      /\ procs'[p].alarm = procs[p].alarm /\ procs'[p].hand = procs[p].hand
      /\ procs'[p].regs = procs[p].regs
  BY <1>1 DEF Changes, Keeps, Fields
<1>5. Chained'
  <2>1. IsLast(p)
    BY <1>1, <1>2, ChainLast DEF Waits
  <2> QED BY <1>1, <1>4, <2>1, ChainKept
<1>6. ASSUME NEW q \in Pids, Running(q)' PROVE Steady(q)'
  <2>1. CASE q = p
    BY <1>1, <1>2, <1>3, <1>4, <2>1 DEF Steady
  <2>2. CASE q # p
    BY <1>4, <1>6, <2>2 DEF Others, Steady, Running
  <2> QED BY <2>1, <2>2
<1> QED BY <1>5, <1>6 DEF PoolSafe, Pids

\* The interrupt reaches the first of the chain, which handles it.
LEMMA ChainHandles ==
    ASSUME ProcTypeOK, SilentOK, prog = "echoserveri", Chained,
           \A q \in Pids : Running(q) => Steady(q), NEW p \in Pids, Deliver(p)
    PROVE  PoolSafe'
<1>1. Running(p) /\ Shape /\ NoChld /\ procs[p].ppid # p /\ Live(p)
  BY DEF ProcTypeOK, Placed, SilentOK, Live, Running, Deliver
<1>2. Steady(p)
  BY <1>1
<1>3. PICK sig \in Deliverable(p) :
        (procs[p].hand[sig] = "default" /\ Death(p, 1)) \/ Handled(p, sig)
  BY <1>1, Delivering
<1>4. p = 1 /\ sig = "INT" /\ procs[p].hand["INT"] = "handler_kill" /\ procs[p].pend = {"INT"}
  BY <1>2, <1>3 DEF Steady, Deliverable
<1>5. Handled(p, "INT")
  BY <1>3, <1>4
<1>6. /\ Others({p}) /\ procs'[p].pc = "handler_kill" /\ procs'[p].st = procs[p].st
      /\ procs'[p].ppid = procs[p].ppid /\ procs'[p].regs = procs[p].regs
      /\ procs'[p].pend = {} /\ procs'[p].alarm = procs[p].alarm
  BY <1>4, <1>5 DEF Handled, Changes, Keeps, Fields
<1>7. Chained'
  BY <1>1, <1>4, <1>6, ChainKept
<1>8. Steady(p)'
  BY <1>2, <1>4, <1>6 DEF Steady
<1>9. ASSUME NEW q \in Pids, q # p, Running(q)' PROVE Steady(q)'
  BY <1>6, <1>9 DEF Steady, Others, Running
<1> QED BY <1>7, <1>8, <1>9 DEF PoolSafe, Pids

\* Whatever a process does once everyone is to be killed.
LEMMA DoomGoesOn ==
    ASSUME ProcTypeOK, SilentOK, prog = "echoserveri", \A q \in Pids : Running(q) => Doomed(q),
           \A r, q \in Servers : r = q, NEW p \in Pids, Proceed(p)
    PROVE  PoolSafe'
<1>1. Running(p) /\ Shape /\ NoChld /\ procs[p].ppid # p /\ Doomed(p)
  BY DEF ProcTypeOK, Placed, SilentOK, Running, Proceed
<1>2. ASSUME NEW code, Death(p, code) PROVE PoolSafe'
  <2>1. ASSUME NEW q \in Pids PROVE Falls(q)
    <3>1. CASE q = p
      BY <1>2, <3>1 DEF Falls, Death, Running
    <3>2. CASE q # p /\ procs[q].ppid # p
      BY <1>2, <3>2 DEF Falls, Death, Running
    <3>3. CASE q # p /\ procs[q].ppid = p
      BY <1>2, <3>3 DEF Falls, Death, Running, Keeps, Fields
    <3> QED BY <3>1, <3>2, <3>3
  <2> QED BY <2>1, DoomKept
<1>3. CASE Deliver(p)
  <2>1. PICK sig \in Deliverable(p) :
            (procs[p].hand[sig] = "default" /\ Death(p, 1)) \/ Handled(p, sig)
    BY <1>1, <1>3, Delivering
  <2>2. CASE Handled(p, sig)
    <3>1. procs[p].hand[sig] = "handler_kill"
      <4>1. sig \in Signals /\ procs[p].hand[sig] \in Handlers(prog) \cup {"default"}
        BY <2>1, <2>2 DEF ProcTypeOK, Placed, Handled
      <4>2. Handlers(prog) = {"handler_kill"}
        BY HandlersOf DEF ProcTypeOK
      <4> QED BY <2>2, <4>1, <4>2 DEF Handled
    <3>2. \A q \in Pids : Falls(q)
      BY <1>1, <2>2, <3>1 DEF Handled, Changes, Others, Falls, Running
    <3> QED BY <3>2, DoomKept
  <2> QED BY <1>2, <2>1, <2>2
<1>4. CASE AlarmRings(p)
  <2>1. Changes(p, {"alarm", "pend"}) /\ procs'[p].pend = procs[p].pend \cup {"ALRM"}
    BY <1>1, <1>4, Ringing
  <2>2. ASSUME NEW q \in Pids PROVE Falls(q)
    <3>1. CASE q = p
      BY <1>1, <2>1, <3>1 DEF Falls, Changes, Keeps, Fields, Running
    <3>2. CASE q # p
      BY <2>1, <3>2 DEF Falls, Changes, Others, Running
    <3> QED BY <3>1, <3>2
  <2> QED BY <2>2, DoomKept
<1>5. CASE Acts(p)
  <2>1. Deliverable(p) = {}
    BY <1>5, ActsByOp
  <2>2. procs[p].pc \in {"handler_kill", "end"}
    <3>1. Instr(p).op # "suspend"
      BY <1>1, PoolCode
      DEF Handle, RawFork, Fork, Set, RawWait, Wait, Loop, If, Accept, Choose, Segv, Kill, Exit
    <3> QED BY <1>1, <2>1, <3>1 DEF Doomed, Deliverable, Blocked
  <2>3. CASE procs[p].pc = "end"
    <3>1. Instr(p).op = "exit"
      BY <1>1, <2>3, PoolCode DEF Exit
    <3>2. Death(p, 0)
      BY <1>1, <1>5, <3>1, Ending
    <3> QED BY <1>2, <3>2
  <2>4. CASE procs[p].pc = "handler_kill"
    <3>1. /\ Instr(p).op = "kill" /\ Instr(p).next = "end" /\ Instr(p).other = "end"
          /\ Instr(p).sig = "INT"
      BY <1>1, <2>4, PoolCode DEF Kill
    <3>2. /\ procs'[p].pc = "end" /\ Keeps(p, {"pc", "pend"})
          /\ \A q \in Pids \ {p} : Keeps(q, {"pend"})
      BY <1>1, <1>5, <3>1, Killing
    <3>3. \A q \in Pids : procs[q].pend \subseteq procs'[q].pend
      <4>1. \A q \in Pids : procs'[q].pend \in {procs[q].pend, procs[q].pend \cup {"INT"}}
        BY <1>1, <1>5, <3>1, Killing
      <4> QED BY <4>1
    <3>4. ASSUME NEW q \in Pids PROVE Falls(q)
      <4>1. CASE q = p
        BY <1>1, <3>2, <4>1 DEF Falls
      <4>2. CASE q # p
        BY <3>2, <3>3, <4>2 DEF Falls, Keeps, Fields, Running
      <4> QED BY <4>1, <4>2
    <3> QED BY <3>4, DoomKept
  <2> QED BY <2>2, <2>3, <2>4
<1> QED BY <1>3, <1>4, <1>5 DEF Acts

\* The user strikes Ctrl-C, or kills the first.
LEMMA PoolStruck ==
    ASSUME ProcTypeOK, PoolSafe, CtrlC, prog = "echoserveri"
    PROVE  PoolSafe'
<1>1. Shape
  BY DEF ProcTypeOK
<1>2. PICK Q \in {Pids, {1}} : \A q \in Pids :
            procs'[q].pend = IF q \in Q /\ procs[q].st = "run"
                             THEN procs[q].pend \cup {"INT"} ELSE procs[q].pend
  BY <1>1, Striking
<1>3. \A q \in Pids : Keeps(q, {"pend"}) /\ procs[q].pend \subseteq procs'[q].pend
  BY <1>1, <1>2, Striking
<1>4. \A q \in Pids :
        /\ procs'[q].st = procs[q].st /\ procs'[q].pc = procs[q].pc /\ procs'[q].mask = procs[q].mask
        /\ procs'[q].ppid = procs[q].ppid /\ procs'[q].hand = procs[q].hand
        /\ procs'[q].regs = procs[q].regs /\ procs'[q].alarm = procs[q].alarm
  BY <1>3 DEF Keeps, Fields
<1>5. CASE \A q \in Pids : Running(q) => Doomed(q)
  <2>1. \A q \in Pids : Falls(q)
    BY <1>3, <1>4 DEF Falls, Running
  <2>2. CASE \A r, q \in Servers : r = q
    BY <1>5, <2>1, <2>2, DoomKept
  <2>3. CASE Chained
    <3>1. \A q \in Pids : Running(q)' => Doomed(q)' /\ Running(q)
                        /\ (procs'[q].pc \in Serving => procs[q].pc \in Serving)
      BY <1>3, <1>4, <1>5 DEF Doomed, Running
    <3> QED BY <2>3, <3>1, DoomBegins
  <2> QED BY <2>2, <2>3 DEF PoolSafe
<1>6. CASE Chained /\ \A q \in Pids : Running(q) => Steady(q)
  <2>1. CASE Q = Pids
    <3>1. ASSUME NEW q \in Pids, Running(q)' PROVE Doomed(q)' /\ Running(q)
      <4>1. Running(q) /\ "INT" \in procs'[q].pend
        BY <1>2, <1>4, <2>1, <3>1 DEF Running
      <4> QED BY <1>4, <1>6, <4>1 DEF Steady, Doomed
    <3> QED BY <1>4, <1>6, <3>1, DoomBegins
  <2>2. CASE Q = {1}
    <3>1. Chained'
      <4>1. \A q \in Pids : (Live(q)' <=> Live(q)) /\ (Running(q)' <=> Running(q))
                            /\ (Waits(q)' <=> Waits(q))
        BY <1>4 DEF Live, Running, Waits
      <4>2. Pids' = Pids
        BY DEF Pids
      <4>3. \A q, s \in Pids : Live(q) /\ Live(s) /\ q < s =>
                /\ Running(q) /\ Waits(q) /\ q <= procs'[s].ppid
                /\ \E c \in Pids : q < c /\ c <= s /\ Live(c) /\ procs'[c].ppid = q
        BY <1>4, <1>6 DEF Chained
      <4>4. /\ \A s \in Pids : Live(s) => procs'[s].ppid < s
            /\ \A q, s \in Pids : procs'[q].st = "none" =>
                    procs'[q].ppid = 0 /\ (q < s => procs'[s].st = "none")
        BY <1>4, <1>6 DEF Chained
      <4> QED BY <4>1, <4>2, <4>3, <4>4 DEF Chained
    <3>2. ASSUME NEW q \in Pids, Running(q)' PROVE Steady(q)'
      <4>1. Running(q) /\ Steady(q)
        BY <1>4, <1>6, <3>2 DEF Running
      <4>2. CASE q = 1
        <5>1. procs[1].hand["INT"] = "handler_kill"
          <6>1. procs[1].hand["INT"] # "default"
            BY <1>1, Striking
          <6>2. procs[1].hand["INT"] \in Handlers(prog) \cup {"default"}
            BY <4>2 DEF ProcTypeOK, Placed, Signals
          <6>3. Handlers(prog) = {"handler_kill"}
            BY HandlersOf DEF ProcTypeOK
          <6> QED BY <6>1, <6>2, <6>3
        <5>2. procs'[q].pend \subseteq {"INT"}
          BY <1>2, <4>1, <4>2 DEF Steady
        <5> QED BY <1>4, <4>1, <4>2, <5>1, <5>2 DEF Steady
      <4>3. CASE q # 1
        <5>1. procs'[q].pend = procs[q].pend
          BY <1>2, <2>2, <4>3
        <5> QED BY <1>4, <4>1, <4>3, <5>1 DEF Steady
      <4> QED BY <4>2, <4>3
    <3> QED BY <3>1, <3>2 DEF PoolSafe, Pids
  <2> QED BY <2>1, <2>2
<1> QED BY <1>5, <1>6 DEF PoolSafe

LEMMA PoolSame == ASSUME PoolSafe, procs' = procs PROVE PoolSafe'
<1>1. \A q : /\ Live(q)' <=> Live(q)
             /\ Running(q)' <=> Running(q)
             /\ Waits(q)' <=> Waits(q)
             /\ Steady(q)' <=> Steady(q)
             /\ Doomed(q)' <=> Doomed(q)
  BY DEF Live, Running, Waits, Steady, Doomed
<1>2. Servers' = Servers /\ Pids' = Pids
  BY <1>1 DEF Servers, Pids
<1>3. Chained' <=> Chained
  BY <1>1, <1>2 DEF Chained
<1> QED BY <1>1, <1>2, <1>3 DEF PoolSafe

LEMMA PoolStep ==
    ASSUME ProcTypeOK, SilentOK, PoolOK, [ProcNext]_procVars PROVE PoolOK'
<1> SUFFICES ASSUME prog = "echoserveri", prog' = prog PROVE PoolSafe'
  BY ProgStays DEF PoolOK
<1>1. PoolSafe
  BY DEF PoolOK
<1>2. ASSUME NEW p \in Pids, Proceed(p) PROVE PoolSafe'
  <2>1. CASE \A q \in Pids : Running(q) => Doomed(q)
    <3>1. \A r, q \in Servers : r = q
      <4>1. CASE Chained
        <5> SUFFICES ASSUME NEW r \in Servers, NEW q \in Servers, r < q PROVE FALSE
          BY DEF Servers, Pids
        <5>1. r \in Pids /\ q \in Pids /\ Live(r) /\ Live(q) /\ procs[r].pc \in Serving
          BY DEF Servers, Live, Running
        <5> QED BY <4>1, <5>1 DEF Chained, Waits, Serving
      <4> QED BY <1>1, <4>1 DEF PoolSafe
    <3> QED BY <1>2, <2>1, <3>1, DoomGoesOn
  <2>2. CASE Chained /\ \A q \in Pids : Running(q) => Steady(q)
    <3>1. ~ AlarmRings(p)
      BY <2>2 DEF AlarmRings, Steady
    <3> QED BY <1>2, <2>2, <3>1, ChainActs, ChainHandles DEF Acts
  <2> QED BY <1>1, <2>1, <2>2 DEF PoolSafe
<1>3. ASSUME NEW p \in Pids, Drain(p) PROVE PoolSafe'
  BY <1>1, <1>3, PoolSame DEF Drain
<1>4. CASE UNCHANGED procVars
  BY <1>1, <1>4, PoolSame DEF procVars
<1>5. ASSUME NEW p \in Pids, AcceptCall(p) PROVE PoolSafe'
  <2>1. Deliverable(p) = {} /\ Running(p) /\ Instr(p).op = "accept"
    BY <1>5 DEF AcceptCall, Calls, At
  <2>2. ~ Doomed(p)
    <3>1. procs[p].pc \notin {"handler_kill", "end"}
      BY <2>1, PoolCode DEF Kill, Exit
    <3> QED BY <2>1, <3>1 DEF Doomed, Deliverable, Blocked
  <2>3. Chained /\ \A q \in Pids : Running(q) => Steady(q)
    BY <1>1, <2>1, <2>2 DEF PoolSafe
  <2> QED BY <1>5, <2>3, ChainServes
<1> QED BY <1>1, <1>2, <1>3, <1>4, <1>5, PoolStruck DEF ProcNext

LEMMA PoolInit == ProcInit => PoolOK
<1> SUFFICES ASSUME ProcInit, prog = "echoserveri" PROVE PoolSafe
  BY DEF PoolOK
<1>1. \A p \in Pids : p # 1 => procs[p] = Unborn
  BY StartsAt DEF Entries
<1>2. ASSUME 1 \in Pids
      PROVE  /\ procs[1].st = "run" /\ procs[1].pc = "main"
             /\ \A f \in Fields \ {"st", "pc"} : procs[1][f] = Unborn[f]
  <2>1. 1 \in DOMAIN Entries(prog) /\ Entries(prog)[1] = "main"
    BY DEF Entries
  <2> QED BY <1>2, <2>1, StartsAt
<1>3. ASSUME NEW p \in Pids PROVE (p # 1 => procs[p].st = "none") /\ procs[p].ppid = 0
  BY <1>1, <1>2 DEF Fields, Unborn
<1>4. Chained
  BY <1>2, <1>3 DEF Chained, Live, Pids
<1>5. ASSUME NEW p \in Pids, Running(p) PROVE Steady(p)
  <2>1. p = 1
    BY <1>3, <1>5 DEF Running
  <2>2. /\ procs[1].mask = {} /\ procs[1].pend = {} /\ procs[1].regs.tab = Unborn.regs.tab
        /\ procs[1].alarm = FALSE /\ procs[1].pc = "main"
    BY <1>2, <2>1 DEF Fields, Unborn
  <2> QED BY <2>1, <2>2 DEF Steady
<1> QED BY <1>4, <1>5 DEF PoolSafe

\* A single process of the pool serves.
LEMMA PoolServes ==
    ASSUME PoolOK, prog = "echoserveri"
    PROVE  Cardinality({p \in Pids : Running(p) /\ procs[p].pc \in Serving}) <= 1
<1>1. \A p, q \in Servers : p = q
  <2>1. CASE Chained
    <3> SUFFICES ASSUME NEW r \in Servers, NEW q \in Servers, r < q PROVE FALSE
      BY DEF Servers, Pids
    <3>1. r \in Pids /\ q \in Pids /\ Live(r) /\ Live(q) /\ procs[r].pc \in Serving
      BY DEF Servers, Live, Running
    <3> QED BY <2>1, <3>1 DEF Chained, Waits, Serving
  <2> QED BY <2>1 DEF PoolOK, PoolSafe
<1>2. CASE Servers = {}
  BY <1>2, FS_EmptySet DEF Servers
<1>3. CASE Servers # {}
  <2>1. PICK a : Servers = {a}
    BY <1>1, <1>3
  <2>2. Cardinality({a}) = 1
    BY FS_Singleton
  <2>3. Cardinality(Servers) <= 1
    BY <2>1, <2>2
  <2> QED BY <2>3 DEF Servers
<1> QED BY <1>2, <1>3

\* The critical sections of peterson.c exclude each other as long as no load
\* overtakes a store, and one process of echoserveri.c serves at a time.
THEOREM OneAtATimeHolds == ProcSpec => []OneAtATime
<1> DEFINE IInv == ProcTypeOK /\ SilentOK /\ PetersonOK /\ PoolOK
<1>1. ProcInit => IInv
  BY PlacedInit, SilentInit, PetersonInit, PoolInit
<1>2. IInv /\ [ProcNext]_procVars => IInv'
  BY PlacedStep, SilentNext, PetersonStep, PoolStep
<1>3. IInv => OneAtATime
  <2> SUFFICES ASSUME IInv PROVE OneAtATime
    OBVIOUS
  <2>1. prog = "echoserveri" =>
            Cardinality({p \in Pids : Running(p) /\ procs[p].pc \in Serving}) <= 1
    BY PoolServes
  <2>2. early \/ ~ \E p, q \in Pids :
            /\ Running(p) /\ procs[p].pc \in {"section1", "leave1"}
            /\ Running(q) /\ procs[q].pc \in {"section2", "leave2"}
    <3> SUFFICES ASSUME ~ early, NEW p \in Pids, NEW q \in Pids,
                        Running(p), procs[p].pc \in {"section1", "leave1"},
                        Running(q), procs[q].pc \in {"section2", "leave2"}
                 PROVE  FALSE
      OBVIOUS
    <3>1. procs[p].pc \in DOMAIN Code[prog] /\ prog \in Programs
      BY DEF ProcTypeOK, Placed, Running, Labels
    <3>2. prog = "peterson"
      BY <3>1, SectionsApart
    <3> QED BY <3>2, PetersonExcludes
  <2> QED BY <2>1, <2>2 DEF OneAtATime
<1> QED BY <1>1, <1>2, <1>3, PTL DEF ProcSpec

-----------------------------------------------------------------------------
(* The lines typed, on their way to the screen: in q3.c through the buffer *)
(* of the father (1), the pipe and the buffer of the child (2).            *)

\* The lines after the a-th, up to the b-th.
Lines(a, b) == [k \in 1..(b - a) |-> a + k]

\* What each holds, at the label pc, of the two ends of the pipe.
EndsAt(pc) ==
    {"pipe1"} \X (CASE pc \in {"fork", "pere", "fils"} -> {"r", "w"}
                    [] pc \in {"input", "write", "eof"} -> {"w"}
                    [] pc \in {"read", "screen", "close"} -> {"r"}
                    [] OTHER -> {})

RelayAlone ==
    /\ typed = 0 /\ shown = <<>> /\ chan["pipe1"] = <<>>
    /\ 2 \in Pids => procs[2] = Unborn
    /\ 1 \in Pids => Running(1) /\ procs[1].pc \in {"main", "pipe", "fork"}

\* Up to which line each has come.
Content(a, b, c) ==
    /\ a <= b /\ b <= c /\ c <= typed
    /\ shown = Lines(0, a) /\ chan["pipe1"] = Lines(b, c)
    /\ IF procs[2].pc = "screen" THEN procs[2].buf = Lines(a, b) ELSE a = b
    /\ IF procs[1].pc = "write" THEN procs[1].buf = Lines(c, typed) ELSE c = typed

\* The father has closed its writing end, the child has read its last line.
FatherPast == procs[1].pc \in {"wait", "end"}
ChildPast == procs[2].pc \in {"close", "end", "main"}

RelayBoth ==
    /\ 2 \in Pids
    /\ IF Running(1) THEN procs[1].pc \in {"pere", "input", "write", "eof", "wait", "end"}
                     ELSE procs[1].pc = "end"
    /\ IF Running(2) THEN procs[2].pc \in {"fils", "read", "screen", "close", "end"}
                     ELSE procs[2].pc \in {"end", "main"}
    /\ procs[2].st # "gone" => procs[2].ppid = 1 /\ procs[2].st \in {"run", "zombie"}
    /\ procs[1].pc = "end" <=> procs[2].st = "gone"
    /\ ChildPast => FatherPast /\ chan["pipe1"] = <<>>
    /\ \E a, b, c \in 0..typed : Content(a, b, c)

RelaySafe ==
    /\ typed \in Nat /\ chan = [c \in Pipes |-> chan[c]]
    /\ \A p \in Pids : /\ p > 2 => procs[p] = Unborn
                       /\ procs[p].fds = IF Running(p) THEN EndsAt(procs[p].pc) ELSE {}
    /\ 1 \in Pids => procs[1].ppid = 0
    /\ RelayAlone \/ RelayBoth

\* mycopy.c alone.
CopySafe ==
    /\ typed \in Nat
    /\ \A p \in Pids : p > 1 => procs[p] = Unborn
    /\ 1 \in Pids =>
        /\ procs[1].ppid = 0
        /\ IF Running(1) THEN procs[1].pc \in {"main", "read", "write", "lost", "end"}
                         ELSE procs[1].pc = "end"
    /\ IF 1 \in Pids /\ procs[1].pc = "write"
       THEN typed > 0 /\ shown = Lines(0, typed - 1) /\ procs[1].buf = Lines(typed - 1, typed)
       ELSE shown = Lines(0, typed)

RelayOK ==
    /\ prog = "q3" => failed \/ RelaySafe
    /\ prog = "mycopy" => CopySafe

LEMMA LinesAre ==
    ASSUME NEW a \in Nat, NEW b \in Nat, a <= b
    PROVE  /\ Lines(a, b) \in Seq(Nat) /\ Len(Lines(a, b)) = b - a
           /\ \A k \in 1..(b - a) : Lines(a, b)[k] = a + k
<1>1. b - a \in Nat /\ \A k \in 1..(b - a) : a + k \in Nat
  OBVIOUS
<1> QED BY <1>1 DEF Lines

LEMMA LinesJoin ==
    ASSUME NEW a \in Nat, NEW b \in Nat, NEW c \in Nat, a <= b, b <= c
    PROVE  Lines(a, b) \o Lines(b, c) = Lines(a, c)
<1> DEFINE s == Lines(a, b)
           t == Lines(b, c)
           u == Lines(a, c)
<1>1. s \in Seq(Nat) /\ Len(s) = b - a /\ \A k \in 1..(b - a) : s[k] = a + k
  BY LinesAre
<1>2. t \in Seq(Nat) /\ Len(t) = c - b /\ \A k \in 1..(c - b) : t[k] = b + k
  BY LinesAre
<1>3. u \in Seq(Nat) /\ Len(u) = c - a /\ \A k \in 1..(c - a) : u[k] = a + k
  BY LinesAre
<1> HIDE DEF s, t, u
<1>4. s \o t \in Seq(Nat)
  BY <1>1, <1>2, ConcatProperties
<1>5. Len(s \o t) = Len(s) + Len(t)
  BY <1>1, <1>2, ConcatProperties
<1>6. \A i \in 1..(Len(s) + Len(t)) :
        (s \o t)[i] = IF i <= Len(s) THEN s[i] ELSE t[i - Len(s)]
  BY <1>1, <1>2, ConcatProperties
<1> DEFINE v == s \o t
<1> HIDE DEF v
<1>7. v \in Seq(Nat) /\ Len(v) = c - a
  BY <1>1, <1>2, <1>4, <1>5 DEF v
<1>8. ASSUME NEW i \in 1..(c - a) PROVE v[i] = u[i]
  <2>1. v[i] = IF i <= b - a THEN s[i] ELSE t[i - (b - a)]
    BY <1>1, <1>2, <1>6 DEF v
  <2>2. CASE i <= b - a
    BY <1>1, <1>3, <2>1, <2>2
  <2>3. CASE ~ i <= b - a
    <3>1. i - (b - a) \in 1..(c - b)
      BY <2>3
    <3>2. t[i - (b - a)] = b + (i - (b - a))
      BY <1>2, <3>1
    <3> QED BY <1>3, <2>1, <2>3, <3>2
  <2> QED BY <2>2, <2>3
<1>9. v = u
  BY <1>3, <1>7, <1>8, SeqEqual
<1> QED BY <1>9 DEF s, t, u, v

LEMMA LinesNone ==
    ASSUME NEW a \in Nat, NEW b \in Nat, a <= b
    PROVE  Lines(a, b) = <<>> <=> a = b
<1>1. a = b => Lines(a, b) = <<>>
  BY DEF Lines
<1>2. Lines(a, b) = <<>> => a = b
  <2>1. Len(Lines(a, b)) = b - a
    BY LinesAre
  <2>2. Lines(a, b) = <<>> => Len(Lines(a, b)) = 0
    OBVIOUS
  <2> QED BY <2>1, <2>2
<1> QED BY <1>1, <1>2

LEMMA LinesOne == ASSUME NEW n \in Nat PROVE Lines(n, n + 1) = <<n + 1>>
<1> DEFINE s == Lines(n, n + 1)
           t == <<n + 1>>
<1>1. s \in Seq(Nat) /\ Len(s) = 1 /\ s[1] = n + 1
  <2>1. n + 1 \in Nat /\ n <= n + 1
    OBVIOUS
  <2>2. s \in Seq(Nat) /\ Len(s) = (n + 1) - n /\ \A k \in 1..((n + 1) - n) : s[k] = n + k
    BY <2>1, LinesAre
  <2> HIDE DEF s
  <2> QED BY <2>2
<1>2. t \in Seq(Nat) /\ Len(t) = 1 /\ t[1] = n + 1
  OBVIOUS
<1> HIDE DEF s, t
<1>3. s = t
  BY <1>1, <1>2, SeqEqual
<1> QED BY <1>3 DEF s, t

LEMMA LinesPrefix ==
    ASSUME NEW a \in Nat, NEW b \in Nat, a <= b
    PROVE  IsPrefix(Lines(0, a), Lines(0, b))
<1> DEFINE s == Lines(0, a)
           t == Lines(0, b)
<1>1. s \in Seq(Nat) /\ Len(s) = a /\ \A k \in 1..a : s[k] = k
  BY LinesAre
<1>2. t \in Seq(Nat) /\ Len(t) = b /\ \A k \in 1..b : t[k] = k
  BY LinesAre
<1> HIDE DEF s, t
<1>3. SubSeq(s, 1, a) = SubSeq(t, 1, a)
  <2>1. \A k \in 1..a : s[k] = t[k]
    BY <1>1, <1>2
  <2> QED BY <1>1, <1>2, <2>1
<1> QED BY <1>1, <1>2, <1>3 DEF IsPrefix, s, t

LEMMA RelayCode ==
    ASSUME prog = "q3", NEW p \in Pids
    PROVE  /\ procs[p].pc = "main" => Instr(p) = Handle("USR1", "Traitant", "pipe")
           /\ procs[p].pc = "pipe" => Instr(p) = Pipe("pipe1", "fork")
           /\ procs[p].pc = "fork" => Instr(p) = WFork("fils", "pere")
           /\ procs[p].pc = "fils" => Instr(p) = Close("pipe1", "w", "read")
           /\ procs[p].pc = "read" => Instr(p) = Read("pipe1", "screen", "close")
           /\ procs[p].pc = "screen" => Instr(p) = Show("read")
           /\ procs[p].pc = "close" => Instr(p) = Close("pipe1", "r", "end")
           /\ procs[p].pc = "pere" => Instr(p) = Close("pipe1", "r", "input")
           /\ procs[p].pc = "input" => Instr(p) = Input("write", "eof")
           /\ procs[p].pc = "write" => Instr(p) = Write("pipe1", "input")
           /\ procs[p].pc = "eof" => Instr(p) = Close("pipe1", "w", "wait")
           /\ procs[p].pc = "wait" => Instr(p) = WWait("end")
           /\ procs[p].pc = "end" => Instr(p) = Exit
<1>1. Code[prog] = Relay
  BY CodeOf
<1> QED BY <1>1 DEF Instr, Relay, ShowAll, CloseTube

\* The labels of one process alone have changed.
LEMMA RelayGoes ==
    ASSUME RelaySafe, NEW p \in {1, 2}, p \in Pids, 1 \in Pids, Running(p), Others({p}),
           procs'[p].st = procs[p].st, procs'[p].ppid = procs[p].ppid,
           procs'[p].fds = EndsAt(procs'[p].pc), typed' \in Nat,
           chan' = [c \in Pipes |-> chan'[c]], RelayAlone' \/ RelayBoth'
    PROVE  RelaySafe'
<1>1. \A q \in Pids \ {p} : procs'[q] = procs[q]
  BY DEF Others
<1>2. \A q \in Pids : /\ q > 2 => procs'[q] = Unborn
                      /\ procs'[q].fds = IF procs'[q].st = "run" THEN EndsAt(procs'[q].pc) ELSE {}
  BY <1>1 DEF RelaySafe, Running
<1>3. procs'[1].ppid = 0
  BY <1>1 DEF RelaySafe
<1> QED BY <1>2, <1>3 DEF RelaySafe, Running, Pids, Pipes

\* Before the fork.
LEMMA RelayStarts ==
    ASSUME ProcTypeOK, SilentOK, prog = "q3", ~ failed', RelaySafe, RelayAlone,
           NEW p \in Pids, Acts(p)
    PROVE  RelaySafe'
<1>1. Running(p) /\ Shape /\ NoChld
  BY ActsByOp, SilentActs DEF ProcTypeOK, Silent
<1>2. p = 1 /\ procs[1].fds = EndsAt(procs[1].pc)
  <2>1. p # 2 /\ ~ p > 2
    BY <1>1 DEF RelaySafe, RelayAlone, Unborn, Running
  <2>2. p = 1
    BY <2>1 DEF Pids
  <2> QED BY <1>1, <2>2 DEF RelaySafe
<1>3. ASSUME NEW F, F \subseteq {"pc", "hand", "fds"}, Changes(1, F), Calm,
             procs'[1].pc \in {"pipe", "fork"}, procs'[1].fds = EndsAt(procs'[1].pc)
      PROVE  RelaySafe'
  <2>1. procs'[1].st = procs[1].st /\ procs'[1].ppid = procs[1].ppid /\ Others({1})
    BY <1>3 DEF Changes, Keeps, Fields
  <2>2. typed' = typed /\ shown' = shown /\ chan' = chan
    BY <1>3 DEF Calm, pipes
  <2>3. RelayAlone'
    BY <1>2, <1>3, <2>1, <2>2 DEF RelayAlone, Others, Running, Pids
  <2> QED BY <1>1, <1>2, <1>3, <2>1, <2>2, <2>3, RelayGoes DEF RelaySafe
<1>4. {"pc", "hand"} \subseteq {"pc", "hand", "fds"} /\ {"pc", "fds"} \subseteq {"pc", "hand", "fds"}
  OBVIOUS
<1>5. CASE procs[1].pc = "main"
  <2>1. Instr(p).op = "handle" /\ Instr(p).next = "pipe"
    BY <1>2, <1>5, RelayCode DEF Handle
  <2>2. Changes(1, {"pc", "hand"}) /\ procs'[1].pc = "pipe" /\ Calm
    BY <1>1, <1>2, <2>1, Signalling DEF Changes
  <2>3. procs'[1].fds = procs[1].fds
    BY <2>2 DEF Changes, Keeps, Fields
  <2>4. EndsAt("main") = EndsAt("pipe")
    BY DEF EndsAt
  <2> QED BY <1>2, <1>3, <1>4, <1>5, <2>2, <2>3, <2>4
<1>6. CASE procs[1].pc = "pipe"
  <2>1. Instr(p).op = "pipe" /\ Instr(p).next = "fork" /\ Instr(p).chan = "pipe1"
    BY <1>2, <1>6, RelayCode DEF Pipe
  <2>2. Changes(1, {"pc", "fds"}) /\ procs'[1].pc = "fork" /\ Calm
        /\ procs'[1].fds = procs[1].fds \cup ({"pipe1"} \X {"r", "w"})
    BY <1>1, <1>2, <2>1, Piping
  <2>3. EndsAt("fork") = EndsAt("pipe") \cup ({"pipe1"} \X {"r", "w"})
    BY DEF EndsAt
  <2> QED BY <1>2, <1>3, <1>4, <1>6, <2>2, <2>3
<1>7. CASE procs[1].pc = "fork"
  <2>1. /\ Instr(p).op = "fork" /\ Instr(p).next = "pere" /\ Instr(p).child = "fils"
    BY <1>2, <1>7, RelayCode DEF WFork, Fork
  <2>2. PICK q \in Pids : Born(1, q)
    BY <1>1, <1>2, <2>1, Forking
  <2>3. typed' = typed /\ shown' = shown /\ chan' = chan
    BY <1>1, <2>1, Forking DEF pipes
  <2>4. q = 2
    <3>1. q # 1 /\ procs[q].st = "none" /\ \A r \in 1..(q - 1) : procs[r].st # "none"
      BY <2>2 DEF Born
    <3>2. ~ q > 2
      <4> SUFFICES ASSUME q > 2 PROVE FALSE
        OBVIOUS
      <4>1. 2 \in Pids /\ 2 \in 1..(q - 1)
        BY ProcAssumption DEF Pids
      <4> QED BY <3>1, <4>1 DEF RelayAlone, Unborn
    <3> QED BY <3>1, <3>2 DEF Pids
  <2>5. /\ Others({1, 2}) /\ procs'[1].pc = "pere" /\ procs'[2].pc = "fils"
        /\ procs'[1].st = "run" /\ procs'[2].st = "run" /\ procs'[2].ppid = 1
        /\ procs'[1].ppid = procs[1].ppid /\ procs'[1].fds = procs[1].fds
        /\ procs'[2].fds = procs[1].fds
    BY <1>1, <1>2, <2>1, <2>2, <2>4 DEF Born, Keeps, Fields, Running
  <2>6. EndsAt("fork") = EndsAt("pere") /\ EndsAt("fork") = EndsAt("fils")
    BY DEF EndsAt
  <2>7. \A r \in Pids : /\ r > 2 => procs'[r] = Unborn
                        /\ procs'[r].fds = IF procs'[r].st = "run" THEN EndsAt(procs'[r].pc) ELSE {}
    <3> SUFFICES ASSUME NEW r \in Pids
                 PROVE  /\ r > 2 => procs'[r] = Unborn
                        /\ procs'[r].fds = IF procs'[r].st = "run" THEN EndsAt(procs'[r].pc) ELSE {}
      OBVIOUS
    <3>1. CASE r \in {1, 2}
      BY <1>2, <1>7, <2>5, <2>6, <3>1
    <3>2. CASE r \notin {1, 2}
      BY <2>5, <3>2 DEF RelaySafe, Others, Running
    <3> QED BY <3>1, <3>2
  <2>8. Content(0, 0, 0)'
    <3>1. typed' = 0 /\ shown' = <<>> /\ chan'["pipe1"] = <<>> /\ Lines(0, 0) = <<>>
      BY <2>3, LinesNone DEF RelayAlone
    <3> QED BY <2>5, <3>1 DEF Content
  <2>9. RelayBoth'
    <3>1. \E a, b, c \in 0..typed' : Content(a, b, c)'
      <4>1. 0 \in 0..typed'
        BY <2>3 DEF RelayAlone
      <4> QED BY <2>8, <4>1
    <3> QED BY <2>4, <2>5, <3>1 DEF RelayBoth, Running, ChildPast, Pids
  <2> QED BY <1>2, <2>3, <2>5, <2>7, <2>9 DEF RelaySafe, Running, Pids
<1> QED BY <1>2, <1>5, <1>6, <1>7 DEF RelayAlone

\* One of the two goes on.
LEMMA RelayTurns ==
    ASSUME RelaySafe, RelayBoth, NEW p \in {1, 2}, 1 \in Pids, Running(p),
           NEW F, F \subseteq {"pc", "fds", "buf"}, Changes(p, F),
           procs'[p].fds = EndsAt(procs'[p].pc), typed' \in Nat,
           chan' = [c \in Pipes |-> chan'[c]],
           procs'[p].pc \in (IF p = 1 THEN {"pere", "input", "write", "eof", "wait"}
                             ELSE {"fils", "read", "screen", "close", "end"}),
           procs[1].pc # "end", ChildPast' => FatherPast' /\ chan'["pipe1"] = <<>>,
           \E a, b, c \in 0..typed' : Content(a, b, c)'
    PROVE  RelaySafe'
<1>1. Others({p}) /\ procs'[p].st = procs[p].st /\ procs'[p].ppid = procs[p].ppid
  BY DEF Changes, Keeps, Fields
<1>2. p \in Pids /\ 2 \in Pids
  BY DEF RelayBoth
<1>3. RelayBoth'
  <2>1. CASE p = 1
    <3>1. procs'[2] = procs[2] /\ procs'[1].st = "run"
      BY <1>1, <1>2, <2>1 DEF Others, Running
    <3> QED BY <1>2, <2>1, <3>1 DEF RelayBoth, Running, Pids
  <2>2. CASE p = 2
    <3>1. procs'[1] = procs[1] /\ procs'[2].st = "run" /\ procs'[2].ppid = procs[2].ppid
      BY <1>1, <2>2 DEF Others, Running
    <3> QED BY <1>2, <2>2, <3>1 DEF RelayBoth, Running, Pids
  <2> QED BY <2>1, <2>2
<1> QED BY <1>1, <1>2, <1>3, RelayGoes

LEMMA RelayFather ==
    ASSUME ProcTypeOK, SilentOK, prog = "q3", RelaySafe, RelayBoth, 1 \in Pids, Acts(1)
    PROVE  RelaySafe'
<1>1. Running(1) /\ Shape /\ NoChld /\ 2 \in Pids
  BY ActsByOp, SilentActs DEF ProcTypeOK, Silent, RelayBoth
<1>2. procs[1].fds = EndsAt(procs[1].pc) /\ procs[1].ppid = 0 /\ procs[1].ppid # 1 /\ typed \in Nat
      /\ chan = [c \in Pipes |-> chan[c]]
  BY <1>1 DEF RelaySafe
<1>3. PICK a \in 0..typed, b \in 0..typed, c \in 0..typed : Content(a, b, c)
  BY DEF RelayBoth
<1>4. {"pc"} \subseteq {"pc", "fds", "buf"} /\ {"pc", "fds"} \subseteq {"pc", "fds", "buf"}
      /\ {"pc", "buf"} \subseteq {"pc", "fds", "buf"}
  OBVIOUS
<1>5. ASSUME NEW F, F \subseteq {"pc", "fds", "buf"}, Changes(1, F)
      PROVE  procs'[2] = procs[2] /\ ("fds" \notin F => procs'[1].fds = procs[1].fds)
  BY <1>1, <1>5 DEF Changes, Others, Keeps, Fields
<1>6. CASE procs[1].pc = "pere"
  <2>1. Instr(1).op = "close" /\ Instr(1).next = "input" /\ Instr(1).chan = "pipe1"
        /\ Instr(1).end = "r"
    BY <1>6, RelayCode DEF Close
  <2>2. Changes(1, {"pc", "fds"}) /\ procs'[1].pc = "input" /\ Calm
        /\ procs'[1].fds = procs[1].fds \ {<<"pipe1", "r">>}
    BY <1>1, <2>1, Piping
  <2>3. EndsAt("input") = EndsAt("pere") \ {<<"pipe1", "r">>}
    BY DEF EndsAt
  <2>4. typed' = typed /\ shown' = shown /\ chan' = chan /\ procs'[2] = procs[2]
    BY <1>4, <1>5, <2>2 DEF Calm, pipes
  <2>5. Content(a, b, c)'
    BY <1>3, <1>6, <2>2, <2>4 DEF Content
  <2>6. ~ ChildPast'
    BY <1>6, <2>4 DEF RelayBoth, ChildPast, FatherPast
  <2> QED BY <1>1, <1>2, <1>3, <1>4, <1>6, <2>2, <2>3, <2>4, <2>5, <2>6, RelayTurns
<1>7. CASE procs[1].pc = "input"
  <2>1. Instr(1).op = "input" /\ Instr(1).next = "write" /\ Instr(1).other = "eof"
    BY <1>7, RelayCode DEF Input
  <2>2. shown' = shown /\ chan' = chan
    BY <1>1, <2>1, Typing
  <2>3. c = typed
    BY <1>3, <1>7 DEF Content
  <2>4. CASE /\ typed' = typed + 1 /\ Changes(1, {"pc", "buf"}) /\ procs'[1].buf = <<typed + 1>>
             /\ procs'[1].pc = "write"
    <3>1. procs'[2] = procs[2] /\ procs'[1].fds = procs[1].fds
      BY <1>4, <1>5, <2>4
    <3>2. procs'[1].buf = Lines(c, typed') /\ c <= typed'
      BY <1>2, <2>3, <2>4, LinesOne
    <3>3. Content(a, b, c)'
      BY <1>3, <1>7, <2>2, <2>4, <3>1, <3>2 DEF Content
    <3>4. a \in 0..typed' /\ b \in 0..typed' /\ c \in 0..typed' /\ typed' \in Nat
      BY <1>2, <2>4
    <3>5. ~ ChildPast'
      BY <1>7, <3>1 DEF RelayBoth, ChildPast, FatherPast
    <3>6. EndsAt("write") = EndsAt("input")
      BY DEF EndsAt
    <3> QED BY <1>1, <1>2, <1>4, <1>7, <2>2, <2>4, <3>1, <3>3, <3>4, <3>5, <3>6, RelayTurns
  <2>5. CASE typed' = typed /\ Changes(1, {"pc"}) /\ procs'[1].pc = "eof"
    <3>1. procs'[2] = procs[2] /\ procs'[1].fds = procs[1].fds
      BY <1>4, <1>5, <2>5
    <3>2. Content(a, b, c)'
      BY <1>3, <2>2, <2>3, <2>5, <3>1 DEF Content
    <3>3. ~ ChildPast'
      BY <1>7, <3>1 DEF RelayBoth, ChildPast, FatherPast
    <3>4. EndsAt("eof") = EndsAt("input")
      BY DEF EndsAt
    <3> QED BY <1>1, <1>2, <1>3, <1>4, <1>7, <2>2, <2>5, <3>1, <3>2, <3>3, <3>4, RelayTurns
  <2> QED BY <1>1, <2>1, <2>4, <2>5, Typing
<1>8. CASE procs[1].pc = "write"
  <2>1. Instr(1).op = "write" /\ Instr(1).next = "input" /\ Instr(1).chan = "pipe1"
    BY <1>8, RelayCode DEF Write
  <2>2. ~ ChildPast /\ Running(2) /\ procs[2].pc \in {"fils", "read", "screen"}
    BY <1>8 DEF RelayBoth, ChildPast, FatherPast
  <2>3. OpenEnd("pipe1", "r")
    <3>1. procs[2].fds = EndsAt(procs[2].pc)
      BY <1>1, <2>2 DEF RelaySafe
    <3>2. <<"pipe1", "r">> \in EndsAt(procs[2].pc)
      BY <2>2 DEF EndsAt
    <3> QED BY <1>1, <3>1, <3>2 DEF OpenEnd
  <2>4. /\ chan' = [chan EXCEPT !["pipe1"] = @ \o procs[1].buf] /\ shown' = shown /\ typed' = typed
        /\ Changes(1, {"pc"}) /\ procs'[1].pc = "input"
    BY <1>1, <1>2, <2>1, <2>3, Writing
  <2>5. procs'[2] = procs[2] /\ procs'[1].fds = procs[1].fds
    BY <1>4, <1>5, <2>4
  <2>6. chan' = [d \in Pipes |-> chan'[d]] /\ chan'["pipe1"] = Lines(b, typed)
    <3>1. chan'["pipe1"] = chan["pipe1"] \o procs[1].buf /\ chan' = [d \in Pipes |-> chan'[d]]
      BY <1>2, <2>4 DEF Pipes
    <3>2. chan["pipe1"] = Lines(b, c) /\ procs[1].buf = Lines(c, typed) /\ b <= c /\ c <= typed
      BY <1>3, <1>8 DEF Content
    <3>3. Lines(b, c) \o Lines(c, typed) = Lines(b, typed)
      <4>1. b \in Nat /\ c \in Nat
        BY <1>2
      <4> QED BY <1>2, <3>2, <4>1, LinesJoin
    <3> QED BY <3>1, <3>2, <3>3
  <2>7. Content(a, b, typed)'
    <3>1. b <= typed
      BY <1>2
    <3> QED BY <1>2, <1>3, <2>4, <2>5, <2>6, <3>1 DEF Content
  <2>8. typed \in 0..typed' /\ a \in 0..typed' /\ b \in 0..typed'
    BY <1>2, <2>4
  <2>9. ~ ChildPast'
    BY <2>2, <2>5 DEF ChildPast
  <2>10. EndsAt("write") = EndsAt("input")
    BY DEF EndsAt
  <2> QED BY <1>1, <1>2, <1>4, <1>8, <2>4, <2>5, <2>6, <2>7, <2>8, <2>9, <2>10, RelayTurns
<1>9. CASE procs[1].pc = "eof"
  <2>1. Instr(1).op = "close" /\ Instr(1).next = "wait" /\ Instr(1).chan = "pipe1"
        /\ Instr(1).end = "w"
    BY <1>9, RelayCode DEF Close
  <2>2. Changes(1, {"pc", "fds"}) /\ procs'[1].pc = "wait" /\ Calm
        /\ procs'[1].fds = procs[1].fds \ {<<"pipe1", "w">>}
    BY <1>1, <2>1, Piping
  <2>3. EndsAt("wait") = EndsAt("eof") \ {<<"pipe1", "w">>}
    BY DEF EndsAt
  <2>4. typed' = typed /\ shown' = shown /\ chan' = chan /\ procs'[2] = procs[2]
    BY <1>4, <1>5, <2>2 DEF Calm, pipes
  <2>5. Content(a, b, c)'
    BY <1>3, <1>9, <2>2, <2>4 DEF Content
  <2>6. ~ ChildPast'
    BY <1>9, <2>4 DEF RelayBoth, ChildPast, FatherPast
  <2> QED BY <1>1, <1>2, <1>3, <1>4, <1>9, <2>2, <2>3, <2>4, <2>5, <2>6, RelayTurns
<1>10. CASE procs[1].pc = "wait"
  <2>1. Instr(1).op = "wait" /\ Instr(1).next = "end"
    BY <1>10, RelayCode DEF WWait, Wait
  <2>2. typed' = typed /\ shown' = shown /\ chan' = chan
    BY <1>1, <1>2, <2>1, Reaping DEF Calm, pipes
  <2>3. Children(1) # {}
    <3>1. procs[2].st \in {"run", "zombie"} /\ procs[2].ppid = 1
      BY <1>10 DEF RelayBoth
    <3> QED BY <1>1, <3>1 DEF Children
  <2>4. PICK q \in Zombies(1) :
                    /\ q # 1 /\ Others({1, q}) /\ Keeps(1, {"pc", "regs"})
                    /\ procs'[1].pc = "end" /\ procs'[q].st = "gone"
                    /\ \A f \in Fields \ {"st"} : procs'[q][f] = Unborn[f]
    BY <1>1, <1>2, <2>1, <2>3, Reaping
  <2>5. q = 2
    <3>1. q \in Pids /\ procs[q].st = "zombie"
      BY DEF Zombies, Children
    <3>2. ~ q > 2
      BY <3>1 DEF RelaySafe, Unborn
    <3> QED BY <2>4, <3>1, <3>2 DEF Pids
  <2>6. /\ procs'[2].st = "gone" /\ procs'[2].pc = "main" /\ procs'[2].fds = {}
        /\ procs'[1].st = "run" /\ procs'[1].fds = EndsAt("wait") /\ procs'[1].ppid = 0
    BY <1>1, <1>2, <1>10, <2>4, <2>5 DEF Keeps, Fields, Unborn, Running
  <2>7. EndsAt("end") = EndsAt("wait")
    BY DEF EndsAt
  <2>8. chan["pipe1"] = <<>> /\ procs[2].pc # "screen"
    <3>1. procs[2].pc \in {"end", "main"}
      BY <2>5 DEF RelayBoth, Running, Zombies
    <3> QED BY <3>1 DEF RelayBoth, ChildPast
  <2>9. Content(a, b, c)'
    BY <1>3, <1>10, <2>2, <2>4, <2>6, <2>8 DEF Content
  <2>10. RelayBoth'
    BY <1>1, <1>3, <2>2, <2>4, <2>6, <2>8, <2>9
    DEF RelayBoth, Running, ChildPast, FatherPast, Pids
  <2>11. \A r \in Pids : /\ r > 2 => procs'[r] = Unborn
                         /\ procs'[r].fds = IF procs'[r].st = "run" THEN EndsAt(procs'[r].pc) ELSE {}
    <3> SUFFICES ASSUME NEW r \in Pids
                 PROVE  /\ r > 2 => procs'[r] = Unborn
                        /\ procs'[r].fds = IF procs'[r].st = "run" THEN EndsAt(procs'[r].pc) ELSE {}
      OBVIOUS
    <3>1. CASE r \in {1, 2}
      BY <2>4, <2>6, <2>7, <3>1
    <3>2. CASE r \notin {1, 2}
      BY <2>4, <2>5, <3>2 DEF RelaySafe, Others, Running
    <3> QED BY <3>1, <3>2
  <2> QED BY <1>2, <2>2, <2>6, <2>10, <2>11 DEF RelaySafe, Running, Pids, Pipes
<1>11. CASE procs[1].pc = "end"
  <2>1. Instr(1).op = "exit"
    BY <1>11, RelayCode DEF Exit
  <2>2. Death(1, 0) /\ typed' = typed /\ shown' = shown /\ chan' = chan
    BY <1>1, <1>2, <2>1, Ending DEF Calm, pipes
  <2>3. procs'[1].st = "gone" /\ procs'[1].pc = "end" /\ procs'[1].ppid = 0 /\ procs'[1].fds = {}
    BY <1>2, <2>2 DEF Death, Fields, Unborn
  <2>4. procs[2].st = "gone" /\ procs[2].pc \in {"end", "main"} /\ procs[2].fds = {}
    BY <1>1, <1>11 DEF RelayBoth, RelaySafe, Running
  <2>5. procs'[2].st = "gone" /\ procs'[2].pc \in {"end", "main"} /\ procs'[2].fds = {}
    BY <1>1, <2>2, <2>4 DEF Death, Fields, Unborn
  <2>6. \A r \in Pids : r > 2 => procs'[r] = Unborn
    <3> SUFFICES ASSUME NEW r \in Pids, r > 2 PROVE procs'[r] = Unborn
      OBVIOUS
    <3>1. procs[r] = Unborn
      BY DEF RelaySafe
    <3>2. procs[r].ppid # 1 /\ r # 1
      BY <3>1 DEF Unborn
    <3> QED BY <2>2, <3>1, <3>2 DEF Death
  <2>7. Content(a, b, c)'
    BY <1>3, <1>11, <2>2, <2>3, <2>4, <2>5 DEF Content
  <2>8. chan["pipe1"] = <<>>
    BY <2>4 DEF RelayBoth, ChildPast
  <2>9. RelayBoth'
    BY <1>1, <1>3, <2>2, <2>3, <2>5, <2>7, <2>8 DEF RelayBoth, Running, ChildPast, FatherPast, Pids
  <2>10. \A r \in Pids : procs'[r].fds = IF procs'[r].st = "run" THEN EndsAt(procs'[r].pc) ELSE {}
    <3> SUFFICES ASSUME NEW r \in Pids
                 PROVE  procs'[r].fds = IF procs'[r].st = "run" THEN EndsAt(procs'[r].pc) ELSE {}
      OBVIOUS
    <3>1. CASE r \in {1, 2}
      BY <2>3, <2>5, <3>1
    <3>2. CASE r \notin {1, 2}
      <4>1. procs'[r] = Unborn
        BY <2>6, <3>2 DEF Pids
      <4> QED BY <4>1 DEF Unborn
    <3> QED BY <3>1, <3>2
  <2> QED BY <1>2, <2>2, <2>3, <2>6, <2>9, <2>10 DEF RelaySafe, Running, Pids, Pipes
<1> QED BY <1>1, <1>6, <1>7, <1>8, <1>9, <1>10, <1>11 DEF RelayBoth

LEMMA RelayChild ==
    ASSUME ProcTypeOK, SilentOK, prog = "q3", RelaySafe, RelayBoth, 1 \in Pids, Acts(2)
    PROVE  RelaySafe'
<1>1. Running(2) /\ Shape /\ NoChld /\ 2 \in Pids /\ procs[2].ppid = 1
  BY ActsByOp, SilentActs DEF ProcTypeOK, Silent, RelayBoth, Running
<1>2. procs[2].fds = EndsAt(procs[2].pc) /\ typed \in Nat /\ chan = [c \in Pipes |-> chan[c]]
  BY <1>1 DEF RelaySafe
<1>3. PICK a \in 0..typed, b \in 0..typed, c \in 0..typed : Content(a, b, c)
  BY DEF RelayBoth
<1>4. {"pc"} \subseteq {"pc", "fds", "buf"} /\ {"pc", "fds"} \subseteq {"pc", "fds", "buf"}
      /\ {"pc", "buf"} \subseteq {"pc", "fds", "buf"}
  OBVIOUS
<1>5. ASSUME NEW F, F \subseteq {"pc", "fds", "buf"}, Changes(2, F)
      PROVE  procs'[1] = procs[1] /\ ("fds" \notin F => procs'[2].fds = procs[2].fds)
  BY <1>1, <1>5 DEF Changes, Others, Keeps, Fields
<1>6. procs[1].pc # "end"
  BY <1>1 DEF RelayBoth, Running
<1>7. a \in Nat /\ b \in Nat /\ c \in Nat
  BY <1>2
<1>8. CASE procs[2].pc \in {"fils", "close"}
  <2> DEFINE last == procs[2].pc = "close"
             label == IF last THEN "end" ELSE "read"
             end == IF last THEN "r" ELSE "w"
  <2>1. Instr(2).op = "close" /\ Instr(2).next = label /\ Instr(2).chan = "pipe1"
        /\ Instr(2).end = end
    BY <1>1, <1>8, RelayCode DEF Close
  <2>2. Changes(2, {"pc", "fds"}) /\ procs'[2].pc = label /\ Calm
        /\ procs'[2].fds = procs[2].fds \ {<<"pipe1", end>>}
    BY <1>1, <2>1, Piping
  <2>3. EndsAt(label) = EndsAt(procs[2].pc) \ {<<"pipe1", end>>}
    BY <1>8 DEF EndsAt
  <2>4. typed' = typed /\ shown' = shown /\ chan' = chan /\ procs'[1] = procs[1]
    BY <1>4, <1>5, <2>2 DEF Calm, pipes
  <2>5. Content(a, b, c)'
    BY <1>3, <1>8, <2>2, <2>4 DEF Content
  <2>6. ChildPast' => FatherPast' /\ chan'["pipe1"] = <<>>
    <3>1. ChildPast' => ChildPast
      BY <1>8, <2>2 DEF ChildPast
    <3>2. FatherPast' <=> FatherPast
      BY <2>4 DEF FatherPast
    <3> QED BY <2>4, <3>1, <3>2 DEF RelayBoth
  <2>7. label \in {"fils", "read", "screen", "close", "end"}
    OBVIOUS
  <2> HIDE DEF label, end, last
  <2> QED BY <1>1, <1>2, <1>3, <1>4, <1>6, <2>2, <2>3, <2>4, <2>5, <2>6, <2>7, RelayTurns
<1>9. CASE procs[2].pc = "read"
  <2>1. Instr(2).op = "read" /\ Instr(2).next = "screen" /\ Instr(2).other = "close"
        /\ Instr(2).chan = "pipe1"
    BY <1>1, <1>9, RelayCode DEF Read
  <2>2. /\ typed' = typed /\ shown' = shown
        /\ chan["pipe1"] # <<>> \/ ~ OpenEnd("pipe1", "w")
        /\ chan' = [chan EXCEPT !["pipe1"] = <<>>]
        /\ Changes(2, {"pc", "buf"}) /\ procs'[2].buf = chan["pipe1"]
        /\ procs'[2].pc = IF chan["pipe1"] = <<>> THEN "close" ELSE "screen"
    BY <1>1, <2>1, Reading
  <2>3. procs'[1] = procs[1] /\ procs'[2].fds = procs[2].fds
    BY <1>4, <1>5, <2>2
  <2>4. chan' = [d \in Pipes |-> chan'[d]] /\ chan'["pipe1"] = <<>>
    BY <1>2, <2>2 DEF Pipes
  <2>5. a = b /\ b <= c /\ chan["pipe1"] = Lines(b, c) /\ Lines(c, c) = <<>>
    BY <1>3, <1>7, <1>9, LinesNone DEF Content
  <2>6. EndsAt("read") = EndsAt("screen") /\ EndsAt("read") = EndsAt("close")
    BY DEF EndsAt
  <2>7. CASE chan["pipe1"] # <<>>
    <3>1. Content(b, c, c)'
      <4>1. procs'[2].pc = "screen" /\ procs'[2].buf = Lines(b, c)
        BY <2>2, <2>5, <2>7
      <4>2. /\ b <= c /\ c <= c /\ c <= typed /\ shown = Lines(0, b)
            /\ IF procs[1].pc = "write" THEN procs[1].buf = Lines(c, typed) ELSE c = typed
        BY <1>3, <1>7, <2>5 DEF Content
      <4> QED BY <2>2, <2>3, <2>4, <2>5, <4>1, <4>2 DEF Content
    <3>2. ~ ChildPast' /\ procs'[2].pc = "screen"
      BY <2>2, <2>7 DEF ChildPast
    <3> QED BY <1>1, <1>2, <1>3, <1>4, <1>6, <1>9, <2>2, <2>3, <2>4, <2>6, <3>1, <3>2, RelayTurns
  <2>8. CASE chan["pipe1"] = <<>>
    <3>1. b = c
      BY <1>7, <2>5, <2>8, LinesNone
    <3>2. procs'[2].pc = "close"
      BY <2>2, <2>8
    <3>3. Content(a, b, c)'
      <4>1. chan'["pipe1"] = Lines(b, c)
        BY <2>4, <2>5, <3>1
      <4> QED BY <1>3, <2>2, <2>3, <2>5, <3>2, <4>1 DEF Content
    <3>4. FatherPast'
      <4>1. ~ OpenEnd("pipe1", "w")
        BY <2>2, <2>8
      <4>2. <<"pipe1", "w">> \notin procs[1].fds
        BY <4>1 DEF OpenEnd
      <4>3. procs[1].pc \notin {"pere", "input", "write", "eof"}
        <5>1. ASSUME Running(1) PROVE procs[1].fds = EndsAt(procs[1].pc)
          BY <5>1 DEF RelaySafe
        <5>2. Running(1)
          BY <1>6 DEF RelayBoth
        <5> QED BY <4>2, <5>1, <5>2 DEF EndsAt
      <4> QED BY <1>6, <2>3, <4>3 DEF RelayBoth, FatherPast
    <3> QED BY <1>1, <1>2, <1>3, <1>4, <1>6, <1>9, <2>2, <2>3, <2>4, <2>6, <3>2, <3>3, <3>4, RelayTurns
  <2> QED BY <2>7, <2>8
<1>10. CASE procs[2].pc = "screen"
  <2>1. Instr(2).op = "show" /\ Instr(2).next = "read"
    BY <1>1, <1>10, RelayCode DEF Show
  <2>2. /\ typed' = typed /\ chan' = chan /\ shown' = shown \o procs[2].buf
        /\ Changes(2, {"pc"}) /\ procs'[2].pc = "read"
    BY <1>1, <2>1, Showing
  <2>3. procs'[1] = procs[1] /\ procs'[2].fds = procs[2].fds
    BY <1>4, <1>5, <2>2
  <2>4. shown' = Lines(0, b)
    <3>1. shown = Lines(0, a) /\ procs[2].buf = Lines(a, b) /\ a <= b /\ 0 <= a
      BY <1>3, <1>7, <1>10 DEF Content
    <3>2. Lines(0, a) \o Lines(a, b) = Lines(0, b)
      BY <1>7, <3>1, LinesJoin
    <3> QED BY <2>2, <3>1, <3>2
  <2>5. Content(b, b, c)'
    <3>1. b <= b /\ b <= c /\ c <= typed
      BY <1>3, <1>7 DEF Content
    <3> QED BY <1>3, <2>2, <2>3, <2>4, <3>1 DEF Content
  <2>6. ~ ChildPast'
    BY <2>2 DEF ChildPast
  <2>7. EndsAt("read") = EndsAt("screen")
    BY DEF EndsAt
  <2> QED BY <1>1, <1>2, <1>3, <1>4, <1>6, <1>10, <2>2, <2>3, <2>5, <2>6, <2>7, RelayTurns
<1>11. CASE procs[2].pc = "end"
  <2>1. Instr(2).op = "exit"
    BY <1>1, <1>11, RelayCode DEF Exit
  <2>2. Death(2, 0) /\ typed' = typed /\ shown' = shown /\ chan' = chan
    BY <1>1, <2>1, Ending DEF Calm, pipes
  <2>3. /\ procs'[2].st = "zombie" /\ procs'[2].pc = "end" /\ procs'[2].ppid = 1
        /\ procs'[2].fds = {}
    BY <1>1, <2>2 DEF Death, Fields, Unborn
  <2>4. \A r \in Pids : r # 2 => procs'[r] = procs[r]
    <3> SUFFICES ASSUME NEW r \in Pids, r # 2 PROVE procs'[r] = procs[r]
      OBVIOUS
    <3>1. procs[r].ppid # 2
      <4>1. CASE r = 1
        BY <4>1 DEF RelaySafe
      <4>2. CASE r # 1
        <5>1. procs[r] = Unborn
          BY <4>2 DEF RelaySafe, Pids
        <5> QED BY <5>1 DEF Unborn
      <4> QED BY <4>1, <4>2
    <3> QED BY <2>2, <3>1 DEF Death
  <2>5. Content(a, b, c)'
    BY <1>3, <1>11, <2>2, <2>3, <2>4 DEF Content
  <2>6. FatherPast /\ chan["pipe1"] = <<>>
    BY <1>11 DEF RelayBoth, ChildPast
  <2>7. RelayBoth'
    BY <1>1, <1>3, <1>6, <2>2, <2>3, <2>4, <2>5, <2>6
    DEF RelayBoth, Running, ChildPast, FatherPast, Pids
  <2>8. \A r \in Pids : /\ r > 2 => procs'[r] = Unborn
                        /\ procs'[r].fds = IF procs'[r].st = "run" THEN EndsAt(procs'[r].pc) ELSE {}
    <3> SUFFICES ASSUME NEW r \in Pids
                 PROVE  /\ r > 2 => procs'[r] = Unborn
                        /\ procs'[r].fds = IF procs'[r].st = "run" THEN EndsAt(procs'[r].pc) ELSE {}
      OBVIOUS
    <3>1. CASE r = 2
      BY <2>3, <3>1
    <3>2. CASE r # 2
      BY <2>4, <3>2 DEF RelaySafe, Running
    <3> QED BY <3>1, <3>2
  <2>9. procs'[1].ppid = 0
    BY <2>4 DEF RelaySafe
  <2> QED BY <1>2, <2>2, <2>7, <2>8, <2>9 DEF RelaySafe, Running, Pids, Pipes
<1> QED BY <1>1, <1>8, <1>9, <1>10, <1>11 DEF RelayBoth

LEMMA RelayInit == ProcInit => RelayOK
<1> SUFFICES ASSUME ProcInit, prog \in {"q3", "mycopy"}
             PROVE  IF prog = "q3" THEN RelaySafe ELSE CopySafe
  BY DEF RelayOK
<1>1. \A p \in Pids : p # 1 => procs[p] = Unborn
  BY StartsAt DEF Entries
<1>2. ASSUME 1 \in Pids
      PROVE  /\ procs[1].st = "run" /\ procs[1].pc = "main"
             /\ procs[1].ppid = 0 /\ procs[1].fds = {}
  <2>1. 1 \in DOMAIN Entries(prog) /\ Entries(prog)[1] = "main"
    BY DEF Entries
  <2>2. \A f \in Fields \ {"st", "pc"} : procs[1][f] = Unborn[f]
    BY <1>2, <2>1, StartsAt
  <2> QED BY <1>2, <2>1, <2>2, StartsAt DEF Fields, Unborn
<1>3. typed = 0 /\ shown = <<>> /\ chan = [c \in Pipes |-> chan[c]] /\ chan["pipe1"] = <<>>
  BY DEF ProcInit, Pipes
<1>4. CASE prog = "q3"
  <2>1. RelayAlone
    BY <1>1, <1>2, <1>3 DEF RelayAlone, Running
  <2>2. ASSUME NEW p \in Pids
        PROVE  /\ p > 2 => procs[p] = Unborn
               /\ procs[p].fds = IF Running(p) THEN EndsAt(procs[p].pc) ELSE {}
    <3>1. CASE p = 1
      BY <1>2, <3>1 DEF EndsAt, Running
    <3>2. CASE p # 1
      <4>1. procs[p] = Unborn
        BY <1>1, <3>2
      <4>2. procs[p].fds = {} /\ procs[p].st = "none"
        BY <4>1 DEF Unborn
      <4> QED BY <4>1, <4>2 DEF Running
    <3> QED BY <3>1, <3>2
  <2> QED BY <1>2, <1>3, <1>4, <2>1, <2>2 DEF RelaySafe
<1>5. CASE prog = "mycopy"
  <2>1. Lines(0, typed) = <<>>
    <3>1. Lines(0, 0) = <<>>
      BY LinesNone
    <3> QED BY <1>3, <3>1
  <2> QED BY <1>1, <1>2, <1>3, <1>5, <2>1 DEF CopySafe, Running
<1> QED BY <1>4, <1>5

LEMMA RelayStep ==
    ASSUME ProcTypeOK, SilentOK, RelaySafe, prog = "q3", ~ failed', NEW p \in Pids, Acts(p)
    PROVE  RelaySafe'
<1>1. CASE RelayAlone
  BY <1>1, RelayStarts
<1>2. CASE RelayBoth
  <2>1. Running(p)
    BY ActsByOp DEF ProcTypeOK
  <2>2. ~ p > 2
    BY <2>1 DEF RelaySafe, Running, Unborn
  <2>3. 1 \in Pids /\ p \in {1, 2}
    BY <2>2, ProcAssumption DEF Pids
  <2> QED BY <1>2, <2>3, RelayFather, RelayChild
<1> QED BY <1>1, <1>2 DEF RelaySafe

LEMMA CopyStep ==
    ASSUME ProcTypeOK, SilentOK, CopySafe, prog = "mycopy", NEW p \in Pids, Acts(p)
    PROVE  CopySafe'
<1>1. Running(p) /\ Shape /\ NoChld
  BY ActsByOp, SilentActs DEF ProcTypeOK, Silent
<1>2. p = 1 /\ 1 \in Pids
  <2>1. ~ p > 1
    BY <1>1 DEF CopySafe, Running, Unborn
  <2> QED BY <2>1, ProcAssumption DEF Pids
<1>3. /\ procs[1].ppid = 0 /\ typed \in Nat
      /\ procs[1].pc \in {"main", "read", "write", "lost", "end"}
  BY <1>1, <1>2 DEF CopySafe
<1>4. /\ procs[1].pc = "main" => Instr(1) = Choose("read", "lost")
      /\ procs[1].pc = "read" => Instr(1) = Input("write", "end")
      /\ procs[1].pc = "write" => Instr(1) = Show("read")
      /\ procs[1].pc = "lost" => Instr(1) = Step("lost")
      /\ procs[1].pc = "end" => Instr(1) = Exit
  <2>1. Code[prog] = Mycopy
    BY CodeOf
  <2> QED BY <2>1 DEF Instr, Mycopy
<1>5. ASSUME NEW F, F \subseteq {"pc", "buf"}, Changes(1, F), typed' \in Nat,
             procs'[1].pc \in {"main", "read", "write", "lost", "end"},
             IF procs'[1].pc = "write"
             THEN typed' > 0 /\ shown' = Lines(0, typed' - 1)
                  /\ procs'[1].buf = Lines(typed' - 1, typed')
             ELSE shown' = Lines(0, typed')
      PROVE  CopySafe'
  <2>1. Others({1}) /\ procs'[1].st = procs[1].st /\ procs'[1].ppid = procs[1].ppid
    BY <1>5 DEF Changes, Keeps, Fields
  <2>2. \A q \in Pids : q > 1 => procs'[q] = Unborn
    BY <2>1 DEF Others, CopySafe
  <2>3. procs'[1].st = "run" /\ procs'[1].ppid = 0
    BY <1>1, <1>2, <1>3, <2>1 DEF Running
  <2>4. Pids' = Pids
    BY DEF Pids
  <2> QED BY <1>2, <1>5, <2>2, <2>3, <2>4 DEF CopySafe, Running
<1>6. {"pc"} \subseteq {"pc", "buf"} /\ {"pc", "buf"} \subseteq {"pc", "buf"}
  OBVIOUS
<1>7. procs[1].pc # "write" => shown = Lines(0, typed)
  BY <1>2 DEF CopySafe
<1>8. CASE procs[1].pc \in {"main", "lost"}
  <2>1. /\ Instr(1).op \in {"choose", "step"}
        /\ Instr(1).op = "choose" => Instr(1).next = "read" /\ Instr(1).other = "lost"
        /\ Instr(1).op = "step" => Instr(1).next = "lost"
    BY <1>4, <1>8 DEF Choose, Step
  <2>2. /\ Calm /\ Changes(1, {"pc"})
        /\ Instr(1).op = "step" => procs'[1].pc = Instr(1).next
        /\ procs'[1].pc \in {Instr(1).next, Instr(1).other}
    BY <1>1, <1>2, <2>1, Computing
  <2>3. procs'[1].pc \in {"read", "lost"} /\ typed' = typed /\ shown' = shown
    BY <2>1, <2>2 DEF Calm, pipes
  <2> QED BY <1>3, <1>5, <1>6, <1>7, <1>8, <2>2, <2>3
<1>9. CASE procs[1].pc = "read"
  <2>1. Instr(1).op = "input" /\ Instr(1).next = "write" /\ Instr(1).other = "end"
    BY <1>4, <1>9 DEF Input
  <2>2. shown' = shown
    BY <1>1, <1>2, <2>1, Typing
  <2>3. CASE /\ typed' = typed + 1 /\ Changes(1, {"pc", "buf"}) /\ procs'[1].buf = <<typed + 1>>
             /\ procs'[1].pc = "write"
    <3>1. typed' \in Nat /\ typed' > 0 /\ typed' - 1 = typed
      BY <1>3, <2>3
    <3>2. procs'[1].buf = Lines(typed, typed + 1)
      BY <1>3, <2>3, LinesOne
    <3>3. procs'[1].buf = Lines(typed' - 1, typed') /\ shown' = Lines(0, typed' - 1)
      BY <1>7, <1>9, <2>2, <2>3, <3>1, <3>2
    <3> QED BY <1>5, <1>6, <2>3, <3>1, <3>3
  <2>4. CASE typed' = typed /\ Changes(1, {"pc"}) /\ procs'[1].pc = "end"
    BY <1>3, <1>5, <1>6, <1>7, <1>9, <2>2, <2>4
  <2> QED BY <1>1, <1>2, <2>1, <2>3, <2>4, Typing
<1>10. CASE procs[1].pc = "write"
  <2>1. Instr(1).op = "show" /\ Instr(1).next = "read"
    BY <1>4, <1>10 DEF Show
  <2>2. /\ typed' = typed /\ shown' = shown \o procs[1].buf
        /\ Changes(1, {"pc"}) /\ procs'[1].pc = "read"
    BY <1>1, <1>2, <2>1, Showing
  <2>3. typed > 0 /\ shown = Lines(0, typed - 1) /\ procs[1].buf = Lines(typed - 1, typed)
    BY <1>2, <1>10 DEF CopySafe
  <2>4. Lines(0, typed - 1) \o Lines(typed - 1, typed) = Lines(0, typed)
    <3>1. typed - 1 \in Nat /\ 0 <= typed - 1 /\ typed - 1 <= typed
      BY <1>3, <2>3
    <3> QED BY <1>3, <3>1, LinesJoin
  <2> QED BY <1>3, <1>5, <1>6, <2>2, <2>3, <2>4
<1>11. CASE procs[1].pc = "end"
  <2>1. Instr(1).op = "exit"
    BY <1>4, <1>11 DEF Exit
  <2>2. Death(1, 0) /\ typed' = typed /\ shown' = shown
    <3>1. procs[1].ppid # 1
      BY <1>3
    <3> QED BY <1>1, <1>2, <2>1, <3>1, Ending DEF Calm, pipes
  <2>3. procs'[1].st = "gone" /\ procs'[1].pc = "end" /\ procs'[1].ppid = 0
    BY <1>3, <2>2 DEF Death
  <2>4. \A q \in Pids : q > 1 => procs'[q] = Unborn
    <3> SUFFICES ASSUME NEW q \in Pids, q > 1 PROVE procs'[q] = Unborn
      OBVIOUS
    <3>1. procs[q] = Unborn
      BY DEF CopySafe
    <3>2. procs[q].ppid # 1 /\ q # 1
      BY <3>1 DEF Unborn
    <3> QED BY <2>2, <3>1, <3>2 DEF Death
  <2>5. Pids' = Pids
    BY DEF Pids
  <2> QED BY <1>3, <1>7, <1>11, <2>2, <2>3, <2>4, <2>5 DEF CopySafe, Running
<1> QED BY <1>3, <1>8, <1>9, <1>10, <1>11

LEMMA RelayNext ==
    ASSUME ProcTypeOK, SilentOK, RelayOK, [ProcNext]_procVars PROVE RelayOK'
<1>1. prog' = prog /\ (failed => failed')
  BY ProgStays
<1> SUFFICES ASSUME prog \in {"q3", "mycopy"}, prog = "q3" => ~ failed'
             PROVE  IF prog = "q3" THEN RelaySafe' ELSE CopySafe'
  BY <1>1 DEF RelayOK
<1>2. IF prog = "q3" THEN RelaySafe ELSE CopySafe
  BY <1>1 DEF RelayOK
<1>3. ASSUME procs' = procs, pipes' = pipes
      PROVE  IF prog = "q3" THEN RelaySafe' ELSE CopySafe'
  <2>1. /\ typed' = typed /\ shown' = shown /\ chan' = chan /\ Pids' = Pids /\ Pipes' = Pipes
        /\ \A p : Running(p)' <=> Running(p)
    BY <1>3 DEF pipes, Pids, Pipes, Running
  <2>2. /\ (RelayAlone' <=> RelayAlone) /\ (ChildPast' <=> ChildPast) /\ (FatherPast' <=> FatherPast)
        /\ \A a, b, c : Content(a, b, c)' <=> Content(a, b, c)
    BY <1>3, <2>1 DEF RelayAlone, ChildPast, FatherPast, Content
  <2>3. RelayBoth' <=> RelayBoth
    BY <1>3, <2>1, <2>2 DEF RelayBoth
  <2>4. RelaySafe => RelaySafe'
    BY <1>3, <2>1, <2>2, <2>3 DEF RelaySafe
  <2>5. CopySafe => CopySafe'
    BY <1>3, <2>1 DEF CopySafe
  <2> QED BY <1>2, <2>4, <2>5
<1>4. ASSUME NEW p \in Pids, Proceed(p)
      PROVE  IF prog = "q3" THEN RelaySafe' ELSE CopySafe'
  <2>1. Acts(p)
    BY <1>4, SilentActs DEF Silent
  <2> QED BY <1>2, <2>1, RelayStep, CopyStep
<1>5. ASSUME NEW p \in Pids, Drain(p)
      PROVE  IF prog = "q3" THEN RelaySafe' ELSE CopySafe'
  BY <1>3, <1>5 DEF Drain
<1>6. CASE UNCHANGED procVars
  BY <1>3, <1>6 DEF procVars
<1>7. ~ CtrlC /\ \A p \in Pids : ~ AcceptCall(p)
  BY OnlyPoolAccepts DEF CtrlC
<1> QED BY <1>4, <1>5, <1>6, <1>7 DEF ProcNext

LEMMA AllIsShown ==
    ASSUME RelaySafe, AllOver PROVE shown = Lines(0, typed)
<1>1. typed \in Nat /\ \A p \in Pids : ~ Running(p)
  BY DEF RelaySafe, AllOver, Over, Running
<1>2. CASE RelayAlone
  BY <1>1, <1>2, LinesNone DEF RelayAlone
<1>3. CASE RelayBoth
  <2>1. PICK a \in 0..typed, b \in 0..typed, c \in 0..typed : Content(a, b, c)
    BY <1>3 DEF RelayBoth
  <2>2. ~ Running(1) /\ ~ Running(2)
    <3>1. 1 \in Pids /\ 2 \in Pids
      BY <1>3, ProcAssumption DEF RelayBoth, Pids
    <3> QED BY <1>1, <3>1
  <2>3. procs[1].pc = "end" /\ procs[2].pc \in {"end", "main"} /\ chan["pipe1"] = <<>>
    BY <1>3, <2>2 DEF RelayBoth, ChildPast
  <2>4. a = b /\ c = typed /\ Lines(b, c) = <<>> /\ b <= c /\ shown = Lines(0, a)
    BY <2>1, <2>3 DEF Content
  <2>5. b = c
    <3>1. b \in Nat /\ c \in Nat
      BY <1>1
    <3> QED BY <2>4, <3>1, LinesNone
  <2> QED BY <2>4, <2>5
<1> QED BY <1>2, <1>3 DEF RelaySafe

\* What q3.c and mycopy.c display is what was typed, in order, and all of it
\* once they have ended, whatever the buffers and the pipe hold meanwhile.
THEOREM RelayCompleteHolds == ProcSpec => []RelayComplete
<1> DEFINE IInv == ProcTypeOK /\ SilentOK /\ RelayOK
<1>1. ProcInit => IInv
  BY PlacedInit, SilentInit, RelayInit
<1>2. IInv /\ [ProcNext]_procVars => IInv'
  BY PlacedStep, SilentNext, RelayNext
<1>3. IInv => RelayComplete
  <2> SUFFICES ASSUME IInv, prog \in {"q3", "mycopy"}, ~ failed
               PROVE  /\ IsPrefix(shown, [n \in 1..typed |-> n])
                      /\ AllOver => shown = [n \in 1..typed |-> n]
    BY DEF RelayComplete
  <2>1. IF prog = "q3" THEN RelaySafe ELSE CopySafe
    BY DEF RelayOK
  <2>2. typed \in Nat
    BY <2>1 DEF RelaySafe, CopySafe
  <2>3. [n \in 1..typed |-> n] = Lines(0, typed)
    BY <2>2 DEF Lines
  <2>4. \E a \in 0..typed : shown = Lines(0, a)
    <3>1. CASE prog = "q3"
      <4>1. CASE RelayAlone
        BY <4>1, LinesNone, <2>2 DEF RelayAlone
      <4>2. CASE RelayBoth
        BY <4>2 DEF RelayBoth, Content
      <4> QED BY <2>1, <3>1, <4>1, <4>2 DEF RelaySafe
    <3>2. CASE prog = "mycopy"
      <4>1. typed > 0 => typed - 1 \in 0..typed
        BY <2>2
      <4>2. typed \in 0..typed
        BY <2>2
      <4> QED BY <2>1, <3>2, <4>1, <4>2 DEF CopySafe
    <3> QED BY <3>1, <3>2
  <2>5. IsPrefix(shown, Lines(0, typed))
    <3>1. PICK a \in 0..typed : shown = Lines(0, a)
      BY <2>4
    <3>2. a \in Nat /\ a <= typed
      BY <2>2
    <3> QED BY <2>2, <3>1, <3>2, LinesPrefix
  <2>6. AllOver => shown = Lines(0, typed)
    <3>1. CASE prog = "q3"
      BY <2>1, <3>1, AllIsShown
    <3>2. CASE prog = "mycopy"
      <4> SUFFICES ASSUME AllOver PROVE shown = Lines(0, typed)
        OBVIOUS
      <4>1. 1 \in Pids => procs[1].pc = "end"
        BY <2>1, <3>2 DEF CopySafe, AllOver, Over, Running
      <4> QED BY <2>1, <3>2, <4>1 DEF CopySafe
    <3> QED BY <3>1, <3>2
  <2> QED BY <2>3, <2>5, <2>6
<1> QED BY <1>1, <1>2, <1>3, PTL DEF ProcSpec

-----------------------------------------------------------------------------
(* The programs that wait for their children: where a process may have     *)
(* one, no label leads out but through the wait that reaps it.             *)

Families == {"ex4", "chaine", "arbre", "peterson", "waitpid1", "waitpid1_segv"}
\* Those whose father has several children at once.
Large == {"waitpid1", "waitpid1_segv"}

\* The labels of a process that has a child.
Parenting(name) ==
    CASE name = "ex4" -> {"fwait1", "fwait2", "wait1", "wait2", "wait3"}
      [] name = "peterson" ->
            {"flag2", "turn2", "test2", "his2", "section2", "leave2", "reap"}
      [] name \in Large -> {"main", "next", "wait", "status", "normal", "abnormal"}
      [] OTHER -> {"wait"}

\* In the program P a process that has a child stays in W, or waits.
Fosters(P, W, large) ==
    /\ "unix_error" \notin W
    /\ \A l \in DOMAIN P :
        /\ P[l].op = "fork" => P[l].next \in W /\ (l \in W => large)
        /\ l \in W /\ P[l].op = "wait" => ~ large \/ P[l].next \in W
        /\ l \in W /\ P[l].op \notin {"fork", "wait"} => Targets(P[l]) \subseteq W
        /\ P[l].op \notin {"write", "poll", "return", "kill", "handle", "alarm"}
        /\ l \in W => P[l].op \notin {"exit", "segv"}

LEMMA FamiliesFoster ==
    ASSUME NEW name \in Families
    PROVE  Fosters(Code[name], Parenting(name), name \in Large)
<1>1. CASE name = "ex4"
  BY <1>1, CodeOf DEF Fosters, Targets, Parenting, Large, Ex4, RawFork, Fork, RawWait, WaitSon, Wait, Exit
<1>2. CASE name = "chaine"
  BY <1>2, CodeOf DEF Fosters, Targets, Parenting, Large, Chaine, RawFork, Fork, RawWait, Wait, Loop, Exit
<1>3. CASE name = "arbre"
  BY <1>3, CodeOf DEF Fosters, Targets, Parenting, Large, Arbre, Fork, RawWait, Wait, Loop, Exit
<1>4. CASE name = "peterson"
  BY <1>4, CodeOf DEF Fosters, Targets, Parenting, Large, Peterson, Store, Load, TestFlag, Sleep,
                      WFork, Fork, Wait, Exit
<1>5. CASE name = "waitpid1"
  BY <1>5, CodeOf DEF Fosters, Targets, Parenting, Large, Waitpid1, WaitpidOf, WFork, Fork, Exit, Loop,
                      Wait, If, Step
<1>6. CASE name = "waitpid1_segv"
  BY <1>6, CodeOf DEF Fosters, Targets, Parenting, Large, Waitpid1Segv, WaitpidOf, WFork, Fork, Exit,
                      Segv, Loop, Wait, If, Step
<1> QED BY <1>1, <1>2, <1>3, <1>4, <1>5, <1>6 DEF Families

\* Who has no other children than the processes that are born, or reaped.
Family ==
    \A p \in Pids :
        /\ p # 1 /\ Running(p) => procs[p].ppid # 0
        /\ Children(p) # {} => Running(p) /\ procs[p].pc \in Parenting(prog)
        /\ prog \notin Large => \A q, r \in Children(p) : q = r

FamilyOK == prog \in Families => (failed /\ prog \in Large) \/ Family

\* A call that makes no process and ends none.
LEMMA Turning ==
    ASSUME ProcTypeOK, NEW p \in Pids, Acts(p),
           Instr(p).op \notin {"fork", "exit", "segv", "wait", "poll", "write", "kill", "return"}
    PROVE  /\ Others({p}) /\ procs'[p].st = procs[p].st /\ procs'[p].ppid = procs[p].ppid
           /\ procs'[p].pc \in Targets(Instr(p)) \cup {procs[p].pc}
<1> DEFINE op == Instr(p).op
           F == Fields \ {"st", "ppid"}
<1>1. Running(p) /\ Shape
  BY ActsByOp DEF ProcTypeOK
<1> USE <1>1
<1>2. ASSUME Others({p}), Keeps(p, F), procs'[p].pc \in Targets(Instr(p)) \cup {procs[p].pc}
      PROVE  /\ Others({p}) /\ procs'[p].st = procs[p].st /\ procs'[p].ppid = procs[p].ppid
             /\ procs'[p].pc \in Targets(Instr(p)) \cup {procs[p].pc}
  BY <1>2 DEF Keeps, Fields
<1>3. CASE op \in {"step", "choose", "if", "passed"}
  BY <1>2, <1>3, Computing DEF Changes, Keeps, Targets, Fields
<1>4. CASE op \in {"set", "loop"}
  <2>1. Instr(p).reg \in RegNames
    BY <1>4, CodeAt
  <2> QED BY <1>2, <1>4, <2>1, Assigning DEF Changes, Keeps, Targets, Fields
<1>5. CASE op \in {"handle", "block", "unblock", "pending", "alarm"}
  <2>1. /\ Others({p}) /\ Keeps(p, {"pc", "hand", "mask", "alarm"})
        /\ procs'[p].pc \in Targets(Instr(p))
    BY <1>5, Signalling DEF Keeps, Targets, Fields
  <2> QED BY <1>2, <2>1 DEF Keeps, Fields
<1>6. CASE op \in {"pause", "sleep", "suspend"}
  <2>1. \/ Changes(p, {"asleep"})
        \/ Changes(p, {"asleep", "pc"}) /\ procs'[p].pc = Instr(p).next
    BY <1>6, Sleeping
  <2>2. Others({p}) /\ Keeps(p, {"asleep", "pc"}) /\ procs'[p].pc \in {Instr(p).next, procs[p].pc}
    BY <2>1 DEF Changes, Keeps, Fields
  <2> QED BY <1>2, <1>6, <2>2 DEF Targets, Keeps, Fields
<1>7. CASE op \in {"pipe", "close"}
  BY <1>2, <1>7, Piping DEF Changes, Keeps, Targets, Fields
<1>8. CASE op = "read"
  BY <1>2, <1>8, Reading DEF Changes, Keeps, Targets, Fields
<1>9. CASE op = "input"
  <2>1. Others({p}) /\ Keeps(p, {"pc", "buf"}) /\ procs'[p].pc \in {Instr(p).next, Instr(p).other}
    BY <1>9, Typing DEF Changes, Keeps
  <2> QED BY <1>2, <1>9, <2>1 DEF Keeps, Targets, Fields
<1>10. CASE op \in {"show", "showstring"}
  BY <1>2, <1>10, Showing DEF Changes, Keeps, Targets, Fields
<1>11. CASE op = "store"
  BY <1>2, <1>11, Storing DEF Changes, Keeps, Targets, Fields
<1>12. CASE op = "load"
  BY <1>2, <1>12, Loading DEF Changes, Keeps, Targets, Fields
<1>13. op \in Ops
  BY OpsActed
<1> HIDE DEF op, F
<1> QED BY <1>3, <1>4, <1>5, <1>6, <1>7, <1>8, <1>9, <1>10, <1>11, <1>12, <1>13 DEF Ops, op

LEMMA FostersAt ==
    ASSUME ProcTypeOK, prog \in Families, NEW p \in Pids, Running(p)
    PROVE  LET W == Parenting(prog)
               in == procs[p].pc \in W
           IN /\ Instr(p).op = "fork" => Instr(p).next \in W /\ (in => prog \in Large)
              /\ in /\ Instr(p).op = "wait" => prog \notin Large \/ Instr(p).next \in W
              /\ in /\ Instr(p).op \notin {"fork", "wait"} => Targets(Instr(p)) \subseteq W
              /\ Instr(p).op \notin {"write", "poll", "return", "kill", "handle", "alarm"}
              /\ in => Instr(p).op \notin {"exit", "segv"}
<1>1. Fosters(Code[prog], Parenting(prog), prog \in Large)
  BY FamiliesFoster
<1>2. procs[p].pc \in DOMAIN Code[prog] \cup {"unix_error"}
  BY DEF ProcTypeOK, Placed, Running, Labels
<1>3. CASE procs[p].pc = "unix_error"
  <2>1. Instr(p).op = "exit"
    BY <1>3 DEF Instr, Exit
  <2>2. procs[p].pc \notin Parenting(prog)
    BY <1>1, <1>3 DEF Fosters
  <2> QED BY <2>1, <2>2
<1>4. CASE procs[p].pc # "unix_error"
  <2>1. Instr(p) = Code[prog][procs[p].pc] /\ procs[p].pc \in DOMAIN Code[prog]
    BY <1>2, <1>4 DEF Instr
  <2> QED BY <1>1, <2>1 DEF Fosters
<1> QED BY <1>3, <1>4

\* Nobody is born and nobody ends.
LEMMA FamilyTurns ==
    ASSUME Family, NEW p \in Pids, Running(p), Others({p}), prog' = prog,
           procs'[p].st = procs[p].st, procs'[p].ppid = procs[p].ppid,
           Children(p) = {} \/ procs'[p].pc \in Parenting(prog)
    PROVE  Family'
<1>1. \A q \in Pids : procs'[q].st = procs[q].st /\ procs'[q].ppid = procs[q].ppid
  BY DEF Others
<1>2. \A q \in Pids : Children(q)' = Children(q) /\ Running(q)' = Running(q)
  BY <1>1 DEF Children, Running, Pids
<1>3. \A q \in Pids : q # p => procs'[q].pc = procs[q].pc
  BY DEF Others
<1>4. Pids' = Pids
  BY DEF Pids
<1>5. ASSUME NEW q \in Pids, Children(q) # {}
      PROVE  Running(q) /\ procs'[q].pc \in Parenting(prog)
  BY <1>3, <1>5 DEF Family
<1>6. ASSUME NEW q \in Pids
      PROVE  /\ q # 1 /\ Running(q)' => procs'[q].ppid # 0
             /\ Children(q)' # {} => Running(q)' /\ procs'[q].pc \in Parenting(prog)'
             /\ prog' \notin Large => \A r, s \in Children(q)' : r = s
  BY <1>1, <1>2, <1>5 DEF Family
<1> QED BY <1>4, <1>6 DEF Family

LEMMA FamilyGrows ==
    ASSUME Family, Shape, NEW p \in Pids, Running(p), prog' = prog, NEW q, Born(p, q),
           procs'[p].pc \in Parenting(prog), Children(p) = {} \/ prog \in Large,
           procs[p].ppid # p
    PROVE  Family'
<1>1. /\ q \in Pids /\ q # p /\ procs[q].st = "none" /\ Others({p, q})
      /\ procs'[q].st = "run" /\ procs'[q].ppid = p /\ procs'[p].st = "run"
      /\ procs'[p].ppid = procs[p].ppid
  BY DEF Born, Keeps, Fields, Running
<1>2. Children(q) = {} /\ ~ Running(q) /\ \A r \in Pids : q \notin Children(r)
  <2>1. ~ Running(q)
    BY <1>1 DEF Running
  <2>2. Children(q) = {}
    BY <1>1, <2>1 DEF Family
  <2> QED BY <1>1, <2>1, <2>2 DEF Children
<1>3. ASSUME NEW r \in Pids, r # q
      PROVE  procs'[r].st = procs[r].st /\ procs'[r].ppid = procs[r].ppid
             /\ (r # p => procs'[r].pc = procs[r].pc)
  BY <1>1, <1>3 DEF Others, Running
<1>4. Pids' = Pids
  BY DEF Pids
<1>5. ASSUME NEW r \in Pids PROVE Children(r)' = Children(r) \cup (IF r = p THEN {q} ELSE {})
  <2>1. ASSUME NEW s \in Pids
        PROVE  s \in Children(r)' <=> (s \in Children(r) \/ (r = p /\ s = q))
    <3>1. CASE s = q
      BY <1>1, <1>2, <1>4, <3>1 DEF Children
    <3>2. CASE s # q
      BY <1>3, <1>4, <3>2 DEF Children
    <3> QED BY <3>1, <3>2
  <2> QED BY <1>1, <1>4, <2>1 DEF Children
<1>6. ASSUME NEW r \in Pids
      PROVE  /\ r # 1 /\ Running(r)' => procs'[r].ppid # 0
             /\ Children(r)' # {} => Running(r)' /\ procs'[r].pc \in Parenting(prog)'
             /\ prog' \notin Large => \A s, t \in Children(r)' : s = t
  <2>1. r # 1 /\ Running(r)' => procs'[r].ppid # 0
    <3>1. CASE r = q
      BY <1>1, <3>1 DEF Pids
    <3>2. CASE r # q
      BY <1>3, <3>2 DEF Family, Running
    <3> QED BY <3>1, <3>2
  <2>2. CASE r = p
    BY <1>1, <1>5, <2>1, <2>2 DEF Running
  <2>3. CASE r = q
    BY <1>1, <1>2, <1>5, <2>1, <2>3
  <2>4. CASE r # p /\ r # q
    <3>1. Children(r)' = Children(r)
      BY <1>5, <2>4
    <3> QED BY <1>3, <2>1, <2>4, <3>1 DEF Family, Running
  <2> QED BY <2>2, <2>3, <2>4
<1> QED BY <1>4, <1>6 DEF Family

LEMMA FamilyMourns ==
    ASSUME Family, NEW p \in Pids, Running(p), prog' = prog, NEW code, Death(p, code),
           Children(p) = {}
    PROVE  Family'
<1>1. ASSUME NEW q \in Pids, q # p
      PROVE  IF procs[q].ppid # p THEN procs'[q] = procs[q]
             ELSE /\ procs[q].st \notin {"run", "zombie"}
                  /\ procs'[q].st = "gone" /\ procs'[q].ppid = 0
  <2>1. procs[q].ppid = p => procs[q].st \notin {"run", "zombie"}
    BY DEF Children
  <2> QED BY <1>1, <2>1 DEF Death, Fields, Unborn
<1>2. /\ procs'[p].st = IF procs[p].ppid = 0 THEN "gone" ELSE "zombie"
      /\ procs'[p].ppid = procs[p].ppid
  BY DEF Death
<1>3. Pids' = Pids /\ \A q \in Pids : q # 0
  BY DEF Pids
<1>4. ASSUME NEW r \in Pids PROVE Children(r)' = Children(r)
  <2>1. ASSUME NEW s \in Pids PROVE s \in Children(r)' <=> s \in Children(r)
    <3>1. CASE s = p
      BY <1>2, <1>3, <3>1 DEF Children, Running
    <3>2. CASE s # p
      BY <1>1, <1>3, <3>2 DEF Children
    <3> QED BY <3>1, <3>2
  <2> QED BY <1>3, <2>1 DEF Children
<1>5. ASSUME NEW r \in Pids
      PROVE  /\ r # 1 /\ Running(r)' => procs'[r].ppid # 0
             /\ Children(r)' # {} => Running(r)' /\ procs'[r].pc \in Parenting(prog)'
             /\ prog' \notin Large => \A s, t \in Children(r)' : s = t
  <2>1. CASE r = p
    BY <1>2, <1>4, <2>1 DEF Running
  <2>2. CASE r # p
    <3>1. CASE procs[r].ppid # p
      BY <1>1, <1>4, <2>2, <3>1 DEF Family, Running
    <3>2. CASE procs[r].ppid = p
      BY <1>1, <1>4, <2>2, <3>2 DEF Family, Running
    <3> QED BY <3>1, <3>2
  <2> QED BY <2>1, <2>2
<1> QED BY <1>3, <1>5 DEF Family

LEMMA FamilyReaps ==
    ASSUME Family, NEW p \in Pids, Running(p), prog' = prog, NEW q \in Zombies(p), q # p,
           Others({p, q}), Keeps(p, {"pc", "regs"}), procs'[q].st = "gone", procs'[q].ppid = 0,
           prog \notin Large \/ procs'[p].pc \in Parenting(prog)
    PROVE  Family'
<1>1. /\ q \in Pids /\ procs[q].ppid = p /\ procs[q].st = "zombie" /\ q \in Children(p)
      /\ procs'[p].st = procs[p].st /\ procs'[p].ppid = procs[p].ppid
  BY DEF Zombies, Children, Keeps, Fields
<1>2. Pids' = Pids /\ \A r \in Pids : r # 0
  BY DEF Pids
<1>3. ASSUME NEW r \in Pids, r # q
      PROVE  procs'[r].st = procs[r].st /\ procs'[r].ppid = procs[r].ppid
             /\ (r # p => procs'[r].pc = procs[r].pc)
  BY <1>1, <1>3 DEF Others
<1>4. ASSUME NEW r \in Pids PROVE Children(r)' = Children(r) \ {q}
  <2>1. ASSUME NEW s \in Pids PROVE s \in Children(r)' <=> s \in Children(r) /\ s # q
    <3>1. CASE s = q
      BY <1>2, <3>1 DEF Children
    <3>2. CASE s # q
      BY <1>2, <1>3, <3>2 DEF Children
    <3> QED BY <3>1, <3>2
  <2> QED BY <1>2, <2>1 DEF Children
<1>5. ~ Running(q) /\ Children(q) = {}
  <2>1. ~ Running(q)
    BY <1>1 DEF Running
  <2> QED BY <1>1, <2>1 DEF Family
<1>6. ASSUME NEW r \in Pids
      PROVE  /\ r # 1 /\ Running(r)' => procs'[r].ppid # 0
             /\ Children(r)' # {} => Running(r)' /\ procs'[r].pc \in Parenting(prog)'
             /\ prog' \notin Large => \A s, t \in Children(r)' : s = t
  <2>1. CASE r = q
    BY <1>4, <1>5, <2>1 DEF Running
  <2>2. CASE r = p
    <3>1. prog \notin Large => Children(p)' = {}
      BY <1>1, <1>4 DEF Family
    <3> QED BY <1>1, <1>3, <1>4, <2>2, <3>1 DEF Family, Running
  <2>3. CASE r # p /\ r # q
    BY <1>3, <1>4, <2>3 DEF Family, Running
  <2> QED BY <2>1, <2>2, <2>3
<1> QED BY <1>2, <1>6 DEF Family

LEMMA FamilyActs ==
    ASSUME ProcTypeOK, SilentOK, Family, prog \in Families, NEW p \in Pids, Acts(p),
           ~ failed' \/ prog \notin Large
    PROVE  Family'
<1>1. Running(p) /\ Shape /\ NoChld /\ prog' = prog /\ procs[p].ppid # p
  BY ActsByOp, ActsPlaced, SilentActs DEF ProcTypeOK, Placed, Families, Silent
<1>2. Children(p) # {} => procs[p].pc \in Parenting(prog)
  BY DEF Family
<1>3. CASE Instr(p).op = "fork"
  <2>1. CASE \E q \in Pids : Born(p, q)
    <3>1. PICK q \in Pids : Born(p, q)
      BY <2>1
    <3>2. procs'[p].pc \in Parenting(prog) /\ (Children(p) = {} \/ prog \in Large)
      BY <1>1, <1>2, <1>3, <3>1, FostersAt DEF Born
    <3> QED BY <1>1, <3>1, <3>2, FamilyGrows
  <2>2. CASE failed' /\ Changes(p, {"pc", "regs"})
    <3>1. Children(p) = {}
      BY <1>1, <1>2, <1>3, <2>2, FostersAt
    <3>2. Others({p}) /\ procs'[p].st = procs[p].st /\ procs'[p].ppid = procs[p].ppid
      BY <2>2 DEF Changes, Keeps, Fields
    <3> QED BY <1>1, <3>1, <3>2, FamilyTurns
  <2> QED BY <1>1, <1>3, <2>1, <2>2, Forking
<1>4. CASE Instr(p).op \in {"exit", "segv"}
  <2>1. Children(p) = {}
    BY <1>1, <1>2, <1>4, FostersAt
  <2> QED BY <1>1, <1>4, <2>1, Ending, FamilyMourns
<1>5. CASE Instr(p).op = "wait"
  <2>1. CASE Children(p) = {} /\ Changes(p, {"pc"})
    <3>1. Others({p}) /\ procs'[p].st = procs[p].st /\ procs'[p].ppid = procs[p].ppid
      BY <2>1 DEF Changes, Keeps, Fields
    <3> QED BY <1>1, <2>1, <3>1, FamilyTurns
  <2>2. CASE \E q \in Zombies(p) :
                    /\ q # p /\ Others({p, q}) /\ Keeps(p, {"pc", "regs"})
                    /\ procs'[p].pc = Instr(p).next /\ procs'[q].st = "gone"
                    /\ \A f \in Fields \ {"st"} : procs'[q][f] = Unborn[f]
    <3>1. PICK q \in Zombies(p) :
                    /\ q # p /\ Others({p, q}) /\ Keeps(p, {"pc", "regs"})
                    /\ procs'[p].pc = Instr(p).next /\ procs'[q].st = "gone"
                    /\ \A f \in Fields \ {"st"} : procs'[q][f] = Unborn[f]
      BY <2>2
    <3>2. procs'[q].ppid = 0
      BY <3>1 DEF Fields, Unborn
    <3>3. prog \notin Large \/ procs'[p].pc \in Parenting(prog)
      <4>1. Children(p) # {}
        BY DEF Zombies
      <4> QED BY <1>1, <1>2, <1>5, <3>1, <4>1, FostersAt
    <3> QED BY <1>1, <3>1, <3>2, <3>3, FamilyReaps
  <2> QED BY <1>1, <1>5, <2>1, <2>2, Reaping
<1>6. CASE Instr(p).op \notin {"fork", "exit", "segv", "wait"}
  <2>1. Instr(p).op \notin {"write", "poll", "return", "kill"}
    BY <1>1, FostersAt
  <2>2. /\ Others({p}) /\ procs'[p].st = procs[p].st /\ procs'[p].ppid = procs[p].ppid
        /\ procs'[p].pc \in Targets(Instr(p)) \cup {procs[p].pc}
    BY <1>6, <2>1, Turning
  <2>3. Children(p) = {} \/ procs'[p].pc \in Parenting(prog)
    BY <1>1, <1>2, <1>6, <2>2, FostersAt
  <2> QED BY <1>1, <2>2, <2>3, FamilyTurns
<1> QED BY <1>3, <1>4, <1>5, <1>6

LEMMA FamilyStep ==
    ASSUME ProcTypeOK, SilentOK, FamilyOK, [ProcNext]_procVars PROVE FamilyOK'
<1>1. prog' = prog /\ (failed => failed')
  BY ProgStays
<1> SUFFICES ASSUME prog \in Families, ~ failed' \/ prog \notin Large PROVE Family'
  BY <1>1 DEF FamilyOK
<1>2. Family
  BY <1>1 DEF FamilyOK
<1>3. ASSUME procs' = procs PROVE Family'
  BY <1>1, <1>2, <1>3 DEF Family, Children, Running, Pids
<1>4. ASSUME NEW p \in Pids, Proceed(p) PROVE Family'
  <2>1. Acts(p)
    BY <1>4, SilentActs DEF Families, Silent
  <2> QED BY <1>2, <2>1, FamilyActs
<1>5. ASSUME NEW p \in Pids, Drain(p) PROVE Family'
  BY <1>3, <1>5 DEF Drain
<1>6. CASE UNCHANGED procVars
  BY <1>3, <1>6 DEF procVars
<1>7. ~ CtrlC /\ \A p \in Pids : ~ AcceptCall(p)
  BY OnlyPoolAccepts DEF CtrlC, Families
<1> QED BY <1>4, <1>5, <1>6, <1>7 DEF ProcNext

LEMMA FamilyInit == ProcInit => FamilyOK
<1> SUFFICES ASSUME ProcInit, prog \in Families PROVE Family
  BY DEF FamilyOK
<1>1. \A p \in Pids : p # 1 => procs[p] = Unborn
  BY StartsAt DEF Entries, Families
<1>2. 1 \in Pids => procs[1].ppid = 0
  <2> SUFFICES ASSUME 1 \in Pids PROVE procs[1].ppid = 0
    OBVIOUS
  <2>1. 1 \in DOMAIN Entries(prog)
    BY DEF Entries
  <2> QED BY <2>1, StartsAt DEF Fields, Unborn
<1>3. \A p \in Pids : p # 1 => procs[p].st = "none" /\ procs[p].ppid = 0
  BY <1>1 DEF Unborn
<1>4. \A p \in Pids : p # 0 /\ procs[p].ppid = 0
  BY <1>2, <1>3 DEF Pids
<1>5. \A p \in Pids : Children(p) = {}
  BY <1>4 DEF Children
<1> QED BY <1>3, <1>5 DEF Family, Running

\* q3.c after its Fork has failed: the father alone, who ends.
Childless ==
    /\ \A p \in Pids : p > 1 => procs[p] = Unborn
    /\ 1 \in Pids => procs[1].ppid = 0 /\ (Running(1) => procs[1].pc = "unix_error")

ChildlessOK == prog = "q3" /\ failed => Childless

LEMMA RelayGivesUp ==
    ASSUME ProcTypeOK, RelaySafe, prog = "q3", ~ failed, failed', NEW p \in Pids, Acts(p)
    PROVE  Childless'
<1>1. Running(p) /\ Shape
  BY ActsByOp DEF ProcTypeOK
<1>2. p \in {1, 2} /\ 1 \in Pids
  <2>1. ~ p > 2
    BY <1>1 DEF RelaySafe, Unborn, Running
  <2> QED BY <2>1, ProcAssumption DEF Pids
<1>3. Instr(p).op = "fork"
  BY DEF Acts, Proceed, Compute, Assign, ForkSon, ForkFails, Ends, Reap, SignalCall, KillCall,
         Deliver, ReturnCall, FallAsleep, WakeUp, AlarmRings, PipeCall, WriteCall,
         ReadCall, InputCall, ShowCall, StoreCall, LoadCall, Calls, At, faults
<1>4. Changes(p, {"pc", "regs"}) /\ procs'[p].pc = Instr(p).other
  BY <1>1, <1>3, Forking
<1>5. p = 1 /\ RelayAlone
  <2>1. CASE p = 2 \/ RelayBoth
    <3>1. RelayBoth
      BY <1>1, <1>2, <2>1 DEF RelaySafe, RelayAlone, Unborn, Running
    <3>2. procs[p].pc \in {"pere", "input", "write", "eof", "wait", "end",
                           "fils", "read", "screen", "close"}
      BY <1>1, <1>2, <3>1 DEF RelayBoth
    <3>3. Instr(p).op # "fork"
      BY <3>2, RelayCode DEF Close, Input, Write, WWait, Wait, Exit, Read, Show
    <3> QED BY <1>3, <3>3
  <2> QED BY <1>2, <2>1 DEF RelaySafe
<1>6. procs[1].pc = "fork"
  <2>1. procs[1].pc \in {"main", "pipe", "fork"}
    BY <1>2, <1>5 DEF RelayAlone
  <2>2. procs[1].pc # "main" /\ procs[1].pc # "pipe"
    BY <1>3, <1>5, RelayCode DEF Handle, Pipe
  <2> QED BY <2>1, <2>2
<1>7. procs'[1].pc = "unix_error" /\ procs'[1].ppid = 0
  <2>1. Instr(1).other = "unix_error"
    BY <1>2, <1>6, RelayCode DEF WFork, Fork
  <2>2. procs'[1].ppid = procs[1].ppid
    BY <1>4, <1>5 DEF Changes, Keeps, Fields
  <2> QED BY <1>2, <1>4, <1>5, <2>1, <2>2 DEF RelaySafe
<1>8. ASSUME NEW q \in Pids, q > 1 PROVE procs'[q] = Unborn
  <2>1. procs[q] = Unborn
    BY <1>5, <1>8 DEF RelaySafe, RelayAlone, Pids
  <2> QED BY <1>4, <1>5, <1>8, <2>1 DEF Changes, Others
<1> QED BY <1>7, <1>8 DEF Childless, Pids

LEMMA ChildlessStep ==
    ASSUME ProcTypeOK, SilentOK, RelayOK, ChildlessOK, [ProcNext]_procVars PROVE ChildlessOK'
<1>1. prog' = prog
  BY ProgStays
<1> SUFFICES ASSUME prog = "q3", failed' PROVE Childless'
  BY <1>1 DEF ChildlessOK
<1>2. ASSUME procs' = procs, failed' = failed PROVE Childless'
  BY <1>2 DEF ChildlessOK, Childless, Running, Pids
<1>3. ASSUME NEW p \in Pids, Proceed(p) PROVE Childless'
  <2>1. Acts(p) /\ NoChld
    BY <1>3, SilentActs DEF Silent
  <2>2. CASE ~ failed
    BY <2>1, <2>2, RelayGivesUp DEF RelayOK
  <2>3. CASE failed
    <3>1. Childless /\ Running(p) /\ Shape
      BY <1>3, <2>3 DEF ChildlessOK, Proceed, ProcTypeOK
    <3>2. p = 1
      <4>1. ~ p > 1
        BY <3>1 DEF Childless, Unborn, Running
      <4> QED BY <4>1 DEF Pids
    <3>3. Instr(1).op = "exit" /\ procs[1].ppid = 0
      BY <3>1, <3>2 DEF Childless, Instr, Exit
    <3>4. Death(1, 0)
      BY <2>1, <3>1, <3>2, <3>3, Ending
    <3>5. procs'[1].st = "gone" /\ procs'[1].ppid = 0
      BY <3>3, <3>4 DEF Death
    <3>6. ASSUME NEW q \in Pids, q > 1 PROVE procs'[q] = Unborn
      <4>1. procs[q] = Unborn
        BY <3>1, <3>6 DEF Childless
      <4>2. procs[q].ppid # 1
        BY <4>1 DEF Unborn
      <4> QED BY <3>4, <3>6, <4>1, <4>2 DEF Death
    <3> QED BY <3>5, <3>6 DEF Childless, Running, Pids
  <2> QED BY <2>2, <2>3
<1>4. ASSUME NEW p \in Pids, Drain(p) PROVE Childless'
  BY <1>2, <1>4 DEF Drain, faults
<1>5. CASE UNCHANGED procVars
  BY <1>2, <1>5 DEF procVars, faults
<1>6. ~ CtrlC /\ \A p \in Pids : ~ AcceptCall(p)
  BY OnlyPoolAccepts DEF CtrlC
<1> QED BY <1>3, <1>4, <1>5, <1>6 DEF ProcNext

LEMMA ChildlessInit == ProcInit => ChildlessOK
  BY DEF ProcInit, ChildlessOK

-----------------------------------------------------------------------------
(* counterprob.c: the father (1) waits for the child (2) that signals it,  *)
(* and is in its handler meanwhile, or not.                                *)

LEMMA CounterCode ==
    ASSUME prog = "counterprob", NEW p \in Pids
    PROVE  /\ procs[p].pc = "main" => Instr(p) = Handle("USR2", "handler", "fork")
           /\ procs[p].pc = "fork" => Instr(p) = WFork("kill", "wait")
           /\ procs[p].pc = "kill" => Instr(p) = WKill("parent", "USR2", "sent")
           /\ procs[p].pc = "sent" => Instr(p) = Loop("i", 5, "kill", "end")
           /\ procs[p].pc = "wait" => Instr(p) = WWait("print")
           /\ procs[p].pc = "print" => Instr(p) = Step("end")
           /\ procs[p].pc = "handler" => Instr(p) = Loop("counter", 0, "nap", "nap")
           /\ procs[p].pc = "nap" => Instr(p) = Sleep("back")
           /\ procs[p].pc = "back" => Instr(p) = Return
           /\ procs[p].pc \in {"end", "unix_error"} => Instr(p) = Exit
<1>1. Code[prog] = Counterprob
  BY CodeOf
<1> QED BY <1>1 DEF Instr, Counterprob

\* Before the fork, or when it has failed.
CounterAlone ==
    /\ 2 \in Pids => procs[2] = Unborn
    /\ 1 \in Pids =>
        /\ Running(1) => procs[1].pc \in {"main", "fork", "unix_error"}
        /\ procs[1].pend = {} /\ procs[1].mask = {} /\ procs[1].frames = <<>>
        /\ procs[1].pc = "fork" => procs[1].hand["USR2"] = "handler"
    /\ "print" \notin seen

InWait == procs[1].pc = "wait" /\ procs[1].frames = <<>> /\ procs[1].mask = {}
InHandler ==
    /\ procs[1].pc \in {"handler", "nap", "back"} /\ procs[1].mask = {"USR2"}
    /\ procs[1].frames = <<[pc |-> "wait", mask |-> {}]>>

FatherWaits ==
    /\ Running(1) /\ procs[1].hand["USR2"] = "handler" /\ procs[1].pend \subseteq {"USR2"}
    /\ InWait \/ InHandler
    /\ "print" \notin seen

FatherDone ==
    /\ Running(1) => procs[1].pc \in {"print", "end"}
    /\ procs[1].pend = {} /\ "handler" \in seen

\* A signal has reached the father.
Told == "USR2" \in procs[1].pend \/ procs[1].pc = "handler" \/ "handler" \in seen

Kid ==
    /\ procs[2].st \in {"run", "zombie", "gone"} /\ procs[2].pend = {}
    /\ procs[2].st # "gone" => procs[2].ppid = 1
    /\ Running(2) => procs[2].pc \in {"kill", "sent", "end"}

CounterBoth ==
    /\ 2 \in Pids /\ Kid
    /\ IF procs[2].st = "gone" THEN FatherDone
       ELSE FatherWaits /\ ((Running(2) /\ procs[2].pc = "kill") \/ Told)

CounterSafe ==
    /\ \A p \in Pids : procs[p].alarm = FALSE /\ (p > 2 => procs[p] = Unborn)
    /\ 1 \in Pids => procs[1].ppid = 0
    /\ CounterAlone \/ CounterBoth

CounterOK == prog = "counterprob" => CounterSafe

\* A step of one of the two, that leaves the other alone.
LEMMA CounterGoes ==
    ASSUME CounterSafe, NEW p \in {1, 2}, p \in Pids, Others({p}),
           procs'[p].alarm = FALSE, procs'[p].ppid = procs[p].ppid,
           CounterAlone' \/ CounterBoth'
    PROVE  CounterSafe'
<1>1. ASSUME NEW q \in Pids PROVE procs'[q].alarm = FALSE /\ (q > 2 => procs'[q] = Unborn)
  BY DEF CounterSafe, Others
<1>2. 1 \in Pids => procs'[1].ppid = 0
  BY DEF CounterSafe, Others
<1> QED BY <1>1, <1>2 DEF CounterSafe, Pids

\* Before the fork.
LEMMA CounterStarts ==
    ASSUME ProcTypeOK, NoChld, prog = "counterprob", CounterSafe, CounterAlone,
           NEW p \in Pids, Acts(p)
    PROVE  CounterSafe'
<1>1. Running(p) /\ Shape /\ procs[p].ppid # p
  BY ActsByOp DEF ProcTypeOK, Placed
<1>2. p = 1 /\ 1 \in Pids
  <2>1. ~ p > 2 /\ p # 2
    BY <1>1 DEF CounterSafe, CounterAlone, Unborn, Running
  <2> QED BY <2>1 DEF Pids
<1>3. /\ procs[1].pend = {} /\ procs[1].mask = {} /\ procs[1].frames = <<>> /\ procs[1].ppid = 0
      /\ procs[1].alarm = FALSE /\ "print" \notin seen
      /\ procs[1].pc = "fork" => procs[1].hand["USR2"] = "handler"
  BY <1>2 DEF CounterAlone, CounterSafe
<1>4. ASSUME Others({1}), procs'[1].alarm = FALSE, procs'[1].ppid = 0, procs'[1].pend = {},
             procs'[1].mask = {}, procs'[1].frames = <<>>,
             procs'[1].st = "run" => procs'[1].pc \in {"fork", "unix_error"},
             procs'[1].pc = "fork" => procs'[1].hand["USR2"] = "handler", Marked(1),
             procs[1].pc # "print"
      PROVE  CounterSafe'
  <2>1. 2 \in Pids => procs'[2] = Unborn
    BY <1>4 DEF CounterAlone, Others
  <2>2. "print" \notin seen'
    BY <1>3, <1>4 DEF Marked
  <2>3. CounterAlone'
    BY <1>4, <2>1, <2>2 DEF CounterAlone, Running, Pids
  <2> QED BY <1>2, <1>3, <1>4, <2>3, CounterGoes
<1>5. CASE procs[1].pc = "main"
  <2>1. /\ Instr(1).op = "handle" /\ Instr(1).next = "fork" /\ Instr(1).sig = "USR2"
        /\ Instr(1).label = "handler"
    BY <1>2, <1>5, CounterCode DEF Handle
  <2>2. /\ Marked(1) /\ Others({1}) /\ Keeps(1, {"pc", "hand"}) /\ procs'[1].pc = "fork"
        /\ procs'[1].hand = [procs[1].hand EXCEPT !["USR2"] = "handler"]
    BY <1>1, <1>2, <2>1, Signalling
  <2>3. procs'[1].hand["USR2"] = "handler"
    <3>1. procs[1].hand = [s \in Signals |-> procs[1].hand[s]]
      BY <1>1, <1>2 DEF Shape, Shaped
    <3> QED BY <2>2, <3>1 DEF Signals
  <2>4. /\ procs'[1].alarm = FALSE /\ procs'[1].ppid = 0 /\ procs'[1].pend = {}
        /\ procs'[1].mask = {} /\ procs'[1].frames = <<>>
    BY <1>3, <2>2 DEF Keeps, Fields
  <2> QED BY <1>4, <1>5, <2>2, <2>3, <2>4
<1>6. CASE procs[1].pc = "fork"
  <2>1. /\ Instr(1).op = "fork" /\ Instr(1).next = "wait" /\ Instr(1).child = "kill"
        /\ Instr(1).other = "unix_error"
    BY <1>2, <1>6, CounterCode DEF WFork, Fork
  <2>2. Marked(1)
    BY <1>1, <1>2, <2>1, Forking
  <2>3. CASE Changes(1, {"pc", "regs"}) /\ procs'[1].pc = "unix_error"
    <3>1. /\ Others({1}) /\ procs'[1].alarm = FALSE /\ procs'[1].ppid = 0 /\ procs'[1].pend = {}
          /\ procs'[1].mask = {} /\ procs'[1].frames = <<>>
      BY <1>3, <2>3 DEF Changes, Keeps, Fields
    <3> QED BY <1>4, <1>6, <2>2, <2>3, <3>1
  <2>4. CASE \E q \in Pids : Born(1, q)
    <3>1. PICK q \in Pids : Born(1, q)
      BY <2>4
    <3>2. q = 2
      <4>1. q # 1 /\ \A r \in 1..(q - 1) : procs[r].st # "none"
        BY <3>1 DEF Born
      <4>2. ~ q > 2
        <5> SUFFICES ASSUME q > 2 PROVE FALSE
          OBVIOUS
        <5>1. 2 \in Pids /\ 2 \in 1..(q - 1)
          BY ProcAssumption DEF Pids
        <5>2. procs[2] = Unborn
          BY <5>1 DEF CounterAlone
        <5> QED BY <4>1, <5>1, <5>2 DEF Unborn
      <4> QED BY <4>1, <4>2 DEF Pids
    <3>3. /\ Others({1, 2}) /\ procs'[1].pc = "wait" /\ procs'[2].pc = "kill"
          /\ procs'[2].pend = {} /\ procs'[2].alarm = FALSE /\ procs'[2].ppid = 1
      BY <2>1, <3>1, <3>2 DEF Born
    <3>4. /\ procs'[1].st = "run" /\ procs'[1].ppid = 0 /\ procs'[1].pend = {}
          /\ procs'[1].mask = {} /\ procs'[1].frames = <<>> /\ procs'[1].alarm = FALSE
          /\ procs'[1].hand["USR2"] = "handler"
      BY <1>1, <1>2, <1>3, <1>6, <3>1 DEF Born, Keeps, Fields, Running
    <3>5. procs'[2].st = "run"
      BY <1>1, <1>2, <3>1, <3>2 DEF Born, Fields, Running
    <3>6. "print" \notin seen'
      BY <1>3, <1>6, <2>2 DEF Marked
    <3>7. CounterBoth'
      BY <3>2, <3>3, <3>4, <3>5, <3>6 DEF CounterBoth, Kid, FatherWaits, InWait, Running, Pids
    <3>8. ASSUME NEW r \in Pids PROVE procs'[r].alarm = FALSE /\ (r > 2 => procs'[r] = Unborn)
      <4>1. CASE r \in {1, 2}
        BY <3>3, <3>4, <4>1
      <4>2. CASE r \notin {1, 2}
        BY <3>3, <4>2 DEF CounterSafe, Others
      <4> QED BY <4>1, <4>2
    <3> QED BY <3>4, <3>7, <3>8 DEF CounterSafe, Pids
  <2> QED BY <1>1, <1>2, <2>1, <2>3, <2>4, Forking
<1>7. CASE procs[1].pc = "unix_error"
  <2>1. Instr(1).op = "exit"
    BY <1>2, <1>7, CounterCode DEF Exit
  <2>2. Marked(1) /\ Death(1, 0)
    BY <1>1, <1>2, <2>1, Ending
  <2>3. /\ procs'[1].alarm = FALSE /\ procs'[1].pend = {} /\ procs'[1].mask = {}
        /\ procs'[1].frames = <<>>
    BY <2>2 DEF Death, Fields, Unborn
  <2>4. procs'[1].st = "gone" /\ procs'[1].ppid = 0 /\ procs'[1].pc = "end"
    BY <1>3, <2>2 DEF Death
  <2>5. Others({1})
    <3> SUFFICES ASSUME NEW q \in Pids \ {1} PROVE procs'[q] = procs[q]
      BY DEF Others
    <3>1. procs[q] = Unborn
      BY DEF CounterSafe, CounterAlone, Pids
    <3>2. procs[q].ppid # 1
      BY <3>1 DEF Unborn
    <3> QED BY <2>2, <3>2 DEF Death
  <2> QED BY <1>4, <1>7, <2>2, <2>3, <2>4, <2>5
<1> QED BY <1>1, <1>2, <1>5, <1>6, <1>7 DEF CounterAlone

LEMMA CounterKid ==
    ASSUME ProcTypeOK, NoChld, prog = "counterprob", CounterSafe, CounterBoth,
           2 \in Pids, 1 \in Pids, Acts(2)
    PROVE  CounterSafe'
<1>1. /\ Running(2) /\ Shape /\ procs[2].ppid = 1 /\ procs[2].pend = {} /\ procs[2].st # "gone"
      /\ procs[2].pc \in {"kill", "sent", "end"} /\ procs[2].alarm = FALSE /\ procs[1].ppid = 0
      /\ procs[1].alarm = FALSE
  <2>1. Running(2) /\ Shape
    BY ActsByOp DEF ProcTypeOK
  <2> QED BY <2>1 DEF CounterBoth, Kid, CounterSafe, Running
<1>2. FatherWaits /\ (procs[2].pc = "kill" \/ Told)
  BY <1>1 DEF CounterBoth
<1>3. CASE procs[2].pc = "kill"
  <2>1. /\ Instr(2).op = "kill" /\ Instr(2).next = "sent" /\ Instr(2).whom = "parent"
        /\ Instr(2).sig = "USR2"
    BY <1>3, CounterCode DEF WKill, Kill
  <2>2. Target(2) = {1}
    BY <1>1, <2>1 DEF Target
  <2>3. procs[1].st = "run"
    BY <1>2 DEF FatherWaits, Running
  <2>4. /\ Marked(2) /\ procs'[2].pc = "sent" /\ Keeps(2, {"pc", "pend"})
        /\ \A q \in Pids \ {2} : Keeps(q, {"pend"})
        /\ \A q \in Pids :
              IF q \in {1} /\ procs[q].st = "run"
              THEN procs'[q].pend = procs[q].pend \cup {"USR2"}
              ELSE procs'[q].pend = procs[q].pend
    BY <1>1, <2>1, <2>2, <2>3, Killing
  <2>5. procs'[1].pend = procs[1].pend \cup {"USR2"} /\ procs'[2].pend = {}
    BY <1>1, <2>3, <2>4
  <2>6. \A f \in Fields \ {"pend"} : procs'[1][f] = procs[1][f]
    BY <2>4 DEF Keeps
  <2>7. FatherWaits'
    <3>1. /\ procs'[1].st = procs[1].st /\ procs'[1].hand = procs[1].hand
          /\ procs'[1].pc = procs[1].pc /\ procs'[1].frames = procs[1].frames
          /\ procs'[1].mask = procs[1].mask
      BY <2>6 DEF Fields
    <3>2. "print" \notin seen'
      BY <1>2, <1>3, <2>4 DEF Marked, FatherWaits
    <3> QED BY <1>2, <2>5, <3>1, <3>2 DEF FatherWaits, InWait, InHandler, Running
  <2>8. procs'[2].st = "run" /\ procs'[2].ppid = 1 /\ procs'[2].alarm = FALSE
    BY <1>1, <2>4 DEF Keeps, Fields, Running
  <2>9. CounterBoth'
    BY <2>4, <2>5, <2>7, <2>8 DEF CounterBoth, Kid, Told, Running, Pids
  <2>10. ASSUME NEW r \in Pids PROVE procs'[r].alarm = FALSE /\ (r > 2 => procs'[r] = Unborn)
    <3>1. r # 2 => procs'[r].alarm = procs[r].alarm
      BY <2>4 DEF Keeps, Fields
    <3>2. r > 2 => procs'[r] = Unborn
      <4> SUFFICES ASSUME r > 2 PROVE procs'[r] = Unborn
        OBVIOUS
      <4>1. procs[r] = Unborn /\ r # 1
        BY DEF CounterSafe
      <4>2. \A f \in Fields : procs'[r][f] = procs[r][f]
        BY <2>4, <4>1 DEF Keeps
      <4>3. Shape'
        BY <1>1, ShapeProceed DEF Acts
      <4>4. procs'[r] = [f \in Fields |-> procs'[r][f]]
        BY <4>3 DEF Shape, Shaped, Pids
      <4>5. procs[r] = [f \in Fields |-> procs[r][f]]
        BY <1>1 DEF Shape, Shaped
      <4> QED BY <4>1, <4>2, <4>4, <4>5
    <3> QED BY <2>8, <3>1, <3>2 DEF CounterSafe
  <2>11. procs'[1].ppid = 0
    BY <1>1, <2>6 DEF Fields
  <2> QED BY <2>9, <2>10, <2>11 DEF CounterSafe, Pids
<1>4. CASE procs[2].pc = "sent"
  <2>1. /\ Instr(2).op = "loop" /\ Instr(2).next = "kill" /\ Instr(2).other = "end"
        /\ Instr(2).reg = "i"
    BY <1>4, CounterCode DEF Loop
  <2>2. Marked(2) /\ Changes(2, {"pc", "regs"}) /\ procs'[2].pc \in {"kill", "end"}
    BY <1>1, <2>1, Assigning DEF RegNames
  <2>3. /\ procs'[1] = procs[1] /\ procs'[2].st = "run" /\ procs'[2].ppid = 1
        /\ procs'[2].alarm = FALSE /\ procs'[2].pend = {} /\ Others({2})
    BY <1>1, <2>2 DEF Changes, Others, Keeps, Fields, Running
  <2>4. "print" \notin seen' /\ ("handler" \in seen => "handler" \in seen')
    BY <1>2, <1>4, <2>2 DEF FatherWaits, Marked
  <2>5. FatherWaits' /\ Told'
    BY <1>2, <1>4, <2>3, <2>4 DEF FatherWaits, InWait, InHandler, Running, Told
  <2>6. CounterBoth'
    BY <2>2, <2>3, <2>5 DEF CounterBoth, Kid, Running, Pids
  <2> QED BY <1>1, <2>3, <2>6, CounterGoes
<1>5. CASE procs[2].pc = "end"
  <2>1. Instr(2).op = "exit"
    BY <1>5, CounterCode DEF Exit
  <2>2. Marked(2) /\ Death(2, 0)
    BY <1>1, <2>1, Ending
  <2>3. /\ procs'[2].st = "zombie" /\ procs'[2].ppid = 1 /\ procs'[2].pend = {}
        /\ procs'[2].alarm = FALSE
    BY <1>1, <2>2 DEF Death, Fields, Unborn
  <2>4. Others({2})
    <3> SUFFICES ASSUME NEW q \in Pids \ {2} PROVE procs'[q] = procs[q]
      BY DEF Others
    <3>1. q = 1 \/ procs[q] = Unborn
      BY DEF CounterSafe, Pids
    <3>2. procs[q].ppid # 2
      BY <1>1, <3>1 DEF Unborn
    <3> QED BY <2>2, <3>2 DEF Death
  <2>5. procs'[1] = procs[1]
    BY <2>4 DEF Others
  <2>6. "print" \notin seen' /\ ("handler" \in seen => "handler" \in seen')
    BY <1>2, <1>5, <2>2 DEF FatherWaits, Marked
  <2>7. FatherWaits' /\ Told'
    BY <1>2, <1>5, <2>5, <2>6 DEF FatherWaits, InWait, InHandler, Running, Told
  <2>8. CounterBoth'
    BY <2>3, <2>7 DEF CounterBoth, Kid, Running, Pids
  <2> QED BY <1>1, <2>3, <2>4, <2>8, CounterGoes
<1> QED BY <1>1, <1>3, <1>4, <1>5

\* The father while he waits.
LEMMA CounterFather ==
    ASSUME ProcTypeOK, NoChld, prog = "counterprob", CounterSafe, CounterBoth,
           1 \in Pids, FatherWaits, procs[2].st # "gone", Acts(1)
    PROVE  CounterSafe'
<1>1. /\ Running(1) /\ Shape /\ 2 \in Pids /\ Kid /\ procs[1].alarm = FALSE /\ procs[1].ppid = 0
      /\ Deliverable(1) = {}
  BY ActsByOp DEF ProcTypeOK, CounterBoth, CounterSafe
<1>2. (Running(2) /\ procs[2].pc = "kill") \/ Told
  BY DEF CounterBoth
<1>3. ASSUME Others({1}), procs'[1].alarm = FALSE, procs'[1].ppid = 0, seen' \in {seen, seen \cup {procs[1].pc}},
             procs'[1].st = "run", procs'[1].hand["USR2"] = "handler", procs'[1].pend = procs[1].pend,
             InWait' \/ InHandler', Told => Told'
      PROVE  CounterSafe'
  <2>1. "print" \notin seen'
    BY <1>3 DEF FatherWaits, InWait, InHandler
  <2>2. procs'[2] = procs[2]
    BY <1>1, <1>3 DEF Others
  <2>3. FatherWaits'
    BY <1>3, <2>1 DEF FatherWaits, Running
  <2>4. CounterBoth'
    BY <1>1, <1>2, <1>3, <2>2, <2>3 DEF CounterBoth, Kid, Running, Pids
  <2> QED BY <1>1, <1>3, <2>4, CounterGoes
<1>4. CASE InWait
  <2>1. Instr(1).op = "wait" /\ Instr(1).next = "print" /\ Instr(1).other = "unix_error"
    BY <1>4, CounterCode DEF InWait, WWait, Wait
  <2>2. 2 \in Children(1)
    BY <1>1 DEF Children, Kid
  <2>3. PICK q \in Zombies(1) :
              /\ q # 1 /\ Others({1, q}) /\ Keeps(1, {"pc", "regs"})
              /\ procs'[1].pc = "print" /\ procs'[q].st = "gone"
              /\ \A f \in Fields \ {"st"} : procs'[q][f] = Unborn[f]
    <3>1. procs[1].ppid # 1 /\ Children(1) # {}
      BY <1>1, <2>2
    <3>2. \E q \in Zombies(1) :
              /\ q # 1 /\ Others({1, q}) /\ Keeps(1, {"pc", "regs"})
              /\ procs'[1].pc = Instr(1).next /\ procs'[q].st = "gone"
              /\ \A f \in Fields \ {"st"} : procs'[q][f] = Unborn[f]
      BY <1>1, <2>1, <3>1, Reaping
    <3> QED BY <2>1, <3>2
  <2>4. Marked(1)
    BY <1>1, <2>1, Reaping
  <2>5. q = 2 /\ procs[2].st = "zombie"
    <3>1. q \in Pids /\ procs[q].st = "zombie"
      BY <2>3 DEF Zombies, Children
    <3>2. ~ q > 2
      BY <3>1 DEF CounterSafe, Unborn
    <3> QED BY <2>3, <3>1, <3>2 DEF Pids
  <2>6. procs[1].pend = {} /\ "handler" \in seen
    <3>1. procs[1].mask = {} /\ procs[1].pc = "wait"
      BY <1>4 DEF InWait
    <3>2. procs[1].pend = {}
      BY <1>1, <2>1, <3>1 DEF Deliverable, Blocked
    <3> QED BY <1>2, <2>5, <3>1, <3>2 DEF Told, Running
  <2>7. /\ procs'[1].pend = {} /\ procs'[1].ppid = 0 /\ procs'[1].alarm = FALSE
        /\ procs'[1].st = "run"
    BY <1>1, <2>3, <2>6 DEF Keeps, Fields, Running
  <2>8. procs'[2].pend = {} /\ procs'[2].alarm = FALSE /\ procs'[2].st = "gone"
    BY <2>3, <2>5 DEF Fields, Unborn
  <2>9. "handler" \in seen'
    BY <2>4, <2>6 DEF Marked
  <2>10. CounterBoth'
    BY <1>1, <2>3, <2>7, <2>8, <2>9 DEF CounterBoth, Kid, FatherDone, Running, Pids
  <2>11. ASSUME NEW r \in Pids PROVE procs'[r].alarm = FALSE /\ (r > 2 => procs'[r] = Unborn)
    <3>1. CASE r \in {1, 2}
      BY <2>7, <2>8, <3>1
    <3>2. CASE r \notin {1, 2}
      BY <2>3, <2>5, <3>2 DEF CounterSafe, Others
    <3> QED BY <3>1, <3>2
  <2> QED BY <2>7, <2>10, <2>11 DEF CounterSafe, Pids
<1>5. CASE InHandler
  <2>1. CASE procs[1].pc = "handler"
    <3>1. Instr(1).op = "loop" /\ Instr(1).next = "nap" /\ Instr(1).other = "nap"
          /\ Instr(1).reg = "counter"
      BY <2>1, CounterCode DEF Loop
    <3>2. Marked(1) /\ Changes(1, {"pc", "regs"}) /\ procs'[1].pc = "nap"
      BY <1>1, <3>1, Assigning DEF RegNames
    <3>3. /\ Others({1}) /\ procs'[1].alarm = FALSE /\ procs'[1].ppid = 0 /\ procs'[1].st = "run"
          /\ procs'[1].hand = procs[1].hand /\ procs'[1].pend = procs[1].pend
          /\ procs'[1].mask = procs[1].mask /\ procs'[1].frames = procs[1].frames
      BY <1>1, <3>2 DEF Changes, Keeps, Fields, Running
    <3>4. Told'
      BY <2>1, <3>2 DEF Told, Marked
    <3> QED BY <1>3, <1>5, <3>2, <3>3, <3>4 DEF FatherWaits, InHandler, Marked
  <2>2. CASE procs[1].pc = "nap"
    <3>1. Instr(1).op = "sleep" /\ Instr(1).next = "back"
      BY <2>2, CounterCode DEF Sleep
    <3>2. /\ Others({1}) /\ Keeps(1, {"asleep", "pc"}) /\ procs'[1].pc \in {"nap", "back"}
          /\ seen' \in {seen, seen \cup {"nap"}}
      <4>1. \/ seen' = seen /\ Changes(1, {"asleep"})
            \/ Marked(1) /\ Changes(1, {"asleep", "pc"}) /\ procs'[1].pc = "back"
        BY <1>1, <3>1, Sleeping
      <4> QED BY <2>2, <4>1 DEF Changes, Keeps, Fields, Marked
    <3>3. /\ procs'[1].alarm = FALSE /\ procs'[1].ppid = 0 /\ procs'[1].st = "run"
          /\ procs'[1].hand = procs[1].hand /\ procs'[1].pend = procs[1].pend
          /\ procs'[1].mask = procs[1].mask /\ procs'[1].frames = procs[1].frames
      BY <1>1, <3>2 DEF Keeps, Fields, Running
    <3>4. Told => Told'
      BY <2>2, <3>2, <3>3 DEF Told
    <3> QED BY <1>3, <1>5, <2>2, <3>2, <3>3, <3>4 DEF FatherWaits, InHandler
  <2>3. CASE procs[1].pc = "back"
    <3>1. Instr(1).op = "return"
      BY <2>3, CounterCode DEF Return
    <3> DEFINE frame == [pc |-> "wait", mask |-> {}]
    <3>2. procs[1].frames = <<frame>>
      BY <1>5 DEF InHandler
    <3>3. Last(<<frame>>) = frame /\ Front(<<frame>>) = <<>>
      <4> HIDE DEF frame
      <4> QED BY DEF Last, Front
    <3>4. /\ Marked(1) /\ Changes(1, {"pc", "mask", "frames"})
          /\ procs'[1].pc = "wait" /\ procs'[1].mask = {} /\ procs'[1].frames = <<>>
      <4>1. /\ Marked(1) /\ Changes(1, {"pc", "mask", "frames"})
            /\ procs'[1].pc = Last(procs[1].frames).pc
            /\ procs'[1].mask = Last(procs[1].frames).mask
            /\ procs'[1].frames = Front(procs[1].frames)
        BY <1>1, <3>1, Returning
      <4>2. Last(procs[1].frames) = frame /\ Front(procs[1].frames) = <<>>
        BY <3>2, <3>3
      <4>3. frame.pc = "wait" /\ frame.mask = {}
        OBVIOUS
      <4> HIDE DEF frame
      <4> QED BY <4>1, <4>2, <4>3
    <3>5. /\ Others({1}) /\ procs'[1].alarm = FALSE /\ procs'[1].ppid = 0 /\ procs'[1].st = "run"
          /\ procs'[1].hand = procs[1].hand /\ procs'[1].pend = procs[1].pend
      BY <1>1, <3>4 DEF Changes, Keeps, Fields, Running
    <3>6. Told => Told'
      BY <2>3, <3>4, <3>5 DEF Told, Marked
    <3> QED BY <1>3, <3>4, <3>5, <3>6 DEF FatherWaits, InWait, Marked
  <2> QED BY <1>5, <2>1, <2>2, <2>3 DEF InHandler
<1> QED BY <1>4, <1>5 DEF FatherWaits

\* Its handler starts.
LEMMA CounterTold ==
    ASSUME ProcTypeOK, NoChld, prog = "counterprob", CounterSafe, CounterBoth,
           1 \in Pids, FatherWaits, procs[2].st # "gone", Deliver(1)
    PROVE  CounterSafe'
<1>1. /\ Running(1) /\ Shape /\ 2 \in Pids /\ Kid /\ procs[1].alarm = FALSE /\ procs[1].ppid = 0
      /\ procs[1].pend \subseteq {"USR2"} /\ procs[1].hand["USR2"] = "handler"
  BY DEF ProcTypeOK, CounterBoth, CounterSafe, FatherWaits
<1>2. seen' = seen
  BY DEF Deliver
<1>3. PICK sig \in Deliverable(1) : (procs[1].hand[sig] = "default" /\ Death(1, 1)) \/ Handled(1, sig)
  BY <1>1, Delivering
<1>4. sig = "USR2" /\ InWait
  <2>1. sig = "USR2"
    BY <1>1 DEF Deliverable
  <2>2. CASE InHandler
    <3>1. procs[1].pc \in {"handler", "nap", "back"} /\ procs[1].mask = {"USR2"}
      BY <2>2 DEF InHandler
    <3>2. Instr(1).op # "suspend"
      BY <3>1, CounterCode DEF Loop, Sleep, Return
    <3> QED BY <2>1, <3>1, <3>2 DEF Deliverable, Blocked
  <2> QED BY <2>1, <2>2 DEF FatherWaits
<1>5. Handled(1, "USR2") /\ procs[1].frames = <<>> /\ procs[1].mask = {} /\ procs[1].pc = "wait"
  BY <1>1, <1>3, <1>4 DEF InWait
<1>6. Instr(1).op = "wait"
  BY <1>5, CounterCode DEF WWait, Wait
<1>7. /\ Changes(1, {"pc", "frames", "mask", "pend", "asleep"}) /\ procs'[1].pc = "handler"
      /\ procs'[1].mask = {"USR2"} /\ procs'[1].pend = procs[1].pend \ {"USR2"}
      /\ procs'[1].frames = Append(<<>>, [pc |-> "wait", mask |-> {}])
  BY <1>1, <1>5, <1>6 DEF Handled
<1>8. /\ Others({1}) /\ procs'[1].alarm = FALSE /\ procs'[1].ppid = 0 /\ procs'[1].st = "run"
      /\ procs'[1].hand = procs[1].hand
  BY <1>1, <1>7 DEF Changes, Keeps, Fields, Running
<1>9. procs'[1].frames = <<[pc |-> "wait", mask |-> {}]>>
  BY <1>7
<1>10. FatherWaits'
  BY <1>1, <1>2, <1>7, <1>8, <1>9 DEF FatherWaits, InHandler, Running
<1>11. procs'[2] = procs[2] /\ Told'
  BY <1>1, <1>7, <1>8 DEF Others, Told
<1>12. CounterBoth'
  BY <1>1, <1>10, <1>11 DEF CounterBoth, Kid, Running, Pids
<1> QED BY <1>1, <1>8, <1>12, CounterGoes

\* The father after his wait.
LEMMA CounterEnds ==
    ASSUME ProcTypeOK, NoChld, prog = "counterprob", CounterSafe, CounterBoth,
           1 \in Pids, FatherDone, procs[2].st = "gone", Acts(1)
    PROVE  CounterSafe'
<1>1. /\ Running(1) /\ Shape /\ 2 \in Pids /\ Kid /\ procs[1].alarm = FALSE /\ procs[1].ppid = 0
      /\ procs[1].pend = {} /\ "handler" \in seen /\ procs[1].pc \in {"print", "end"}
  BY ActsByOp DEF ProcTypeOK, CounterBoth, CounterSafe, FatherDone
<1>2. ASSUME Others({1}), procs'[1].alarm = FALSE, procs'[1].ppid = 0, procs'[1].pend = {}, Marked(1),
             procs'[1].pc = "end"
      PROVE  CounterSafe'
  <2>1. procs'[2] = procs[2]
    BY <1>1, <1>2 DEF Others
  <2>2. FatherDone'
    BY <1>1, <1>2 DEF FatherDone, Marked
  <2>3. CounterBoth'
    BY <1>1, <2>1, <2>2 DEF CounterBoth, Kid, Running, Pids
  <2> QED BY <1>1, <1>2, <2>3, CounterGoes
<1>3. CASE procs[1].pc = "print"
  <2>1. Instr(1).op = "step" /\ Instr(1).next = "end"
    BY <1>3, CounterCode DEF Step
  <2>2. Marked(1) /\ Changes(1, {"pc"}) /\ procs'[1].pc = "end"
    BY <1>1, <2>1, Computing
  <2>3. Others({1}) /\ procs'[1].alarm = FALSE /\ procs'[1].ppid = 0 /\ procs'[1].pend = {}
    BY <1>1, <2>2 DEF Changes, Keeps, Fields
  <2> QED BY <1>2, <2>2, <2>3
<1>4. CASE procs[1].pc = "end"
  <2>1. Instr(1).op = "exit"
    BY <1>4, CounterCode DEF Exit
  <2>2. Marked(1) /\ Death(1, 0)
    BY <1>1, <2>1, Ending
  <2>3. /\ procs'[1].alarm = FALSE /\ procs'[1].pend = {} /\ procs'[1].pc = "end"
        /\ procs'[1].ppid = 0
    BY <1>1, <2>2 DEF Death, Fields, Unborn
  <2>4. ASSUME NEW q \in Pids \ {1}, procs[q].ppid # 1 PROVE procs'[q] = procs[q]
    BY <2>2, <2>4 DEF Death
  <2>5. CASE procs[2].ppid # 1
    <3>1. Others({1})
      <4> SUFFICES ASSUME NEW q \in Pids \ {1} PROVE procs'[q] = procs[q]
        BY DEF Others
      <4>1. CASE q = 2
        BY <2>4, <2>5, <4>1
      <4>2. CASE q # 2
        <5>1. procs[q] = Unborn
          BY <4>2 DEF CounterSafe, Pids
        <5>2. procs[q].ppid # 1
          BY <5>1 DEF Unborn
        <5> QED BY <2>4, <5>2
      <4> QED BY <4>1, <4>2
    <3> QED BY <1>2, <2>2, <2>3, <3>1
  <2>6. CASE procs[2].ppid = 1
    <3>1. /\ procs'[2].st = "gone" /\ procs'[2].pend = {} /\ procs'[2].alarm = FALSE
      <4>1. 2 \in Pids \ {1} /\ procs[2].st # "run"
        BY <1>1
      <4>2. procs'[2].st = "gone" /\ \A f \in Fields \ {"st"} : procs'[2][f] = Unborn[f]
        BY <2>2, <2>6, <4>1 DEF Death
      <4> QED BY <4>2 DEF Fields, Unborn
    <3>2. FatherDone'
      BY <1>1, <2>2, <2>3 DEF FatherDone, Marked
    <3>3. CounterBoth'
      BY <1>1, <3>1, <3>2 DEF CounterBoth, Kid, Running, Pids
    <3>4. ASSUME NEW r \in Pids PROVE procs'[r].alarm = FALSE /\ (r > 2 => procs'[r] = Unborn)
      <4>1. CASE r \in {1, 2}
        BY <2>3, <3>1, <4>1
      <4>2. CASE r \notin {1, 2}
        <5>1. procs[r] = Unborn
          BY <4>2 DEF CounterSafe, Pids
        <5>2. procs[r].ppid # 1
          BY <5>1 DEF Unborn
        <5> QED BY <2>4, <4>2, <5>1, <5>2 DEF Unborn
      <4> QED BY <4>1, <4>2
    <3> QED BY <2>3, <3>3, <3>4 DEF CounterSafe, Pids
  <2> QED BY <2>5, <2>6
<1> QED BY <1>1, <1>3, <1>4

LEMMA CounterStep ==
    ASSUME ProcTypeOK, SilentOK, CounterOK, [ProcNext]_procVars PROVE CounterOK'
<1>1. prog' = prog
  BY ProgStays
<1> SUFFICES ASSUME prog = "counterprob" PROVE CounterSafe'
  BY <1>1 DEF CounterOK
<1>2. CounterSafe /\ NoChld
  BY DEF CounterOK, SilentOK
<1>3. ASSUME procs' = procs, seen' = seen PROVE CounterSafe'
  BY <1>2, <1>3 DEF CounterSafe, CounterAlone, CounterBoth, Kid, FatherWaits, FatherDone,
                    InWait, InHandler, Told, Running, Pids
<1>4. ASSUME NEW p \in Pids, Proceed(p) PROVE CounterSafe'
  <2>1. Running(p) /\ procs[p].alarm = FALSE /\ 1 \in Pids
    BY <1>2, <1>4, ProcAssumption DEF Proceed, CounterSafe, Pids
  <2>2. ~ AlarmRings(p)
    BY <2>1 DEF AlarmRings
  <2>3. p \in {1, 2}
    <3>1. ~ p > 2
      BY <1>2, <2>1 DEF CounterSafe, Unborn, Running
    <3> QED BY <3>1 DEF Pids
  <2>4. CASE CounterAlone
    <3>1. p = 1
      BY <2>1, <2>3, <2>4 DEF CounterAlone, Unborn, Running
    <3>2. ~ Deliver(p)
      BY <2>1, <2>4, <3>1 DEF CounterAlone, Deliver, Deliverable
    <3> QED BY <1>2, <1>4, <2>2, <2>4, <3>2, CounterStarts DEF Acts
  <2>5. CASE CounterBoth
    <3>1. CASE p = 2
      <4>1. ~ Deliver(2)
        BY <2>5 DEF CounterBoth, Kid, Deliver, Deliverable
      <4> QED BY <1>2, <1>4, <2>1, <2>2, <2>5, <3>1, <4>1, CounterKid DEF Acts
    <3>2. CASE p = 1 /\ procs[2].st = "gone"
      <4>1. ~ Deliver(1) /\ FatherDone
        BY <2>5, <3>2 DEF CounterBoth, FatherDone, Deliver, Deliverable
      <4> QED BY <1>2, <1>4, <2>1, <2>2, <2>5, <3>2, <4>1, CounterEnds DEF Acts
    <3>3. CASE p = 1 /\ procs[2].st # "gone"
      <4>1. FatherWaits
        BY <2>5, <3>3 DEF CounterBoth
      <4> QED BY <1>2, <1>4, <2>1, <2>2, <2>5, <3>3, <4>1, CounterFather, CounterTold DEF Acts
    <3> QED BY <2>3, <3>1, <3>2, <3>3
  <2> QED BY <1>2, <2>4, <2>5 DEF CounterSafe
<1>5. ASSUME NEW p \in Pids, Drain(p) PROVE CounterSafe'
  BY <1>3, <1>5 DEF Drain
<1>6. CASE UNCHANGED procVars
  BY <1>3, <1>6 DEF procVars
<1>7. ~ CtrlC /\ \A p \in Pids : ~ AcceptCall(p)
  BY OnlyPoolAccepts DEF CtrlC
<1> QED BY <1>4, <1>5, <1>6, <1>7 DEF ProcNext

LEMMA CounterInit == ProcInit => CounterOK
<1> SUFFICES ASSUME ProcInit, prog = "counterprob" PROVE CounterSafe
  BY DEF CounterOK
<1>1. Entries(prog) = <<"main">> /\ seen = {}
  BY DEF Entries, ProcInit
<1>2. \A p \in Pids : p # 1 => procs[p] = Unborn
  BY <1>1, StartsAt
<1>3. ASSUME 1 \in Pids
      PROVE  /\ procs[1].pc = "main" /\ procs[1].pend = {} /\ procs[1].mask = {}
             /\ procs[1].frames = <<>> /\ procs[1].alarm = FALSE /\ procs[1].ppid = 0
  <2>1. 1 \in DOMAIN Entries(prog)
    BY <1>1
  <2> QED BY <1>1, <1>3, <2>1, StartsAt DEF Fields, Unborn
<1>4. CounterAlone
  <2>1. 2 \in Pids => procs[2] = Unborn
    BY <1>2
  <2>2. "print" \notin seen
    BY <1>1
  <2> QED BY <1>3, <2>1, <2>2 DEF CounterAlone
<1>5. ASSUME NEW p \in Pids PROVE procs[p].alarm = FALSE /\ (p > 2 => procs[p] = Unborn)
  <2>1. p = 1 => procs[p].alarm = FALSE
    BY <1>3
  <2>2. p # 1 => procs[p] = Unborn
    BY <1>2
  <2>3. Unborn.alarm = FALSE
    BY DEF Unborn
  <2>4. p > 2 => p # 1
    OBVIOUS
  <2>5. procs[p].alarm = FALSE
    BY <2>1, <2>2, <2>3
  <2> QED BY <2>2, <2>4, <2>5
<1> QED BY <1>3, <1>4, <1>5 DEF CounterSafe

\* In the programs that wait no process is left to init while it runs.
THEOREM ParentsReapHolds == ProcSpec => []ParentsReap
<1> DEFINE IInv == /\ ProcTypeOK /\ SilentOK /\ FamilyOK /\ RelayOK /\ ChildlessOK /\ CounterOK
<1>1. ProcInit => IInv
  BY PlacedInit, SilentInit, FamilyInit, RelayInit, ChildlessInit, CounterInit
<1>2. IInv /\ [ProcNext]_procVars => IInv'
  BY PlacedStep, SilentNext, FamilyStep, RelayNext, ChildlessStep, CounterStep
<1>3. IInv => ParentsReap
  <2> SUFFICES ASSUME IInv,
                      prog \in Families \cup {"q3", "counterprob"}, ~ (failed /\ prog \in Large),
                      NEW p \in Pids \ {1}, Running(p)
               PROVE  procs[p].ppid # 0
    BY DEF ParentsReap, Families, Large
  <2>1. CASE prog \in Families
    BY <2>1 DEF FamilyOK, Family
  <2>2. CASE prog = "q3"
    <3>1. CASE failed
      <4>1. ~ p > 1
        BY <2>2, <3>1 DEF ChildlessOK, Childless, Unborn, Running
      <4> QED BY <4>1 DEF Pids
    <3>2. CASE ~ failed
      <4>1. RelaySafe
        BY <2>2, <3>2 DEF RelayOK
      <4>2. ~ p > 2
        BY <4>1 DEF RelaySafe, Unborn, Running
      <4>3. p = 2
        BY <4>2 DEF Pids
      <4>4. RelayBoth
        BY <4>1, <4>3 DEF RelaySafe, RelayAlone, Unborn, Running
      <4> QED BY <4>3, <4>4 DEF RelayBoth, Running
    <3> QED BY <3>1, <3>2
  <2>3. CASE prog = "counterprob"
    <3>1. CounterSafe
      BY <2>3 DEF CounterOK
    <3>2. ~ p > 2
      BY <3>1 DEF CounterSafe, Unborn, Running
    <3>3. p = 2
      BY <3>2 DEF Pids
    <3>4. CounterBoth
      BY <3>1, <3>3 DEF CounterSafe, CounterAlone, Unborn, Running
    <3> QED BY <3>3, <3>4 DEF CounterBoth, Kid, Running
  <2> QED BY <2>1, <2>2, <2>3
<1> QED BY <1>1, <1>2, <1>3, PTL DEF ProcSpec

-----------------------------------------------------------------------------
(* slow_write.c: until the father has told his child, nobody has a signal  *)
(* and the child does not leave its sigsuspend loop.                       *)

LEMMA SlowCode ==
    ASSUME prog = "slow_write", NEW p \in Pids
    PROVE  /\ procs[p].pc = "main" => Instr(p) = Handle("USR1", "sigusr1", "init")
           /\ procs[p].pc = "init" => Instr(p) = Handle("USR2", "sigusr2", "mask")
           /\ procs[p].pc = "mask" => Instr(p) = Block({"USR1", "USR2"}, "fork")
           /\ procs[p].pc = "fork" => Instr(p) = WFork("wait", "father")
           /\ procs[p].pc = "wait" => Instr(p) = If("sigflag_parent", 0, "suspend", "reset")
           /\ procs[p].pc = "suspend" => Instr(p) = Suspend("wait")
           /\ procs[p].pc = "father" => Instr(p) = Loop("i", 2, "father", "tell")
           /\ procs[p].pc = "unix_error" => Instr(p) = Exit
<1>1. Code[prog] = SlowWrite
  BY CodeOf
<1> QED BY <1>1 DEF Instr, SlowWrite, InitMask, WaitParent, WaitFlag

SlowLabels == {"main", "init", "mask", "fork", "wait", "suspend", "father", "tell", "unix_error"}

\* What a process is before the signal.
Slow(p) ==
    /\ procs[p].pend = {} /\ procs[p].alarm = FALSE
    /\ procs[p].regs.sigflag_parent = 0
    /\ Running(p) => procs[p].pc \in SlowLabels

SlowOK ==
    prog = "slow_write" /\ "tell" \notin seen =>
        "son" \notin seen /\ \A p \in Pids : Slow(p)

LEMMA SlowActs ==
    ASSUME ProcTypeOK, NoChld, prog = "slow_write", \A q \in Pids : Slow(q), "son" \notin seen,
           NEW p \in Pids, Acts(p), "tell" \notin seen'
    PROVE  "son" \notin seen' /\ \A q \in Pids : Slow(q)'
<1>1. /\ Running(p) /\ Shape /\ procs[p].ppid # p /\ Slow(p) /\ procs[p].pc \in SlowLabels
      /\ procs[p].pend = {} /\ procs[p].alarm = FALSE /\ procs[p].regs.sigflag_parent = 0
  BY ActsByOp, ActsPlaced DEF ProcTypeOK, Placed, Slow
<1> DEFINE F == Fields \ {"st", "pend", "alarm", "regs"}
<1>2. ASSUME Others({p}), Keeps(p, F), procs'[p].pc \in SlowLabels, seen' = seen \/ Marked(p)
      PROVE  "son" \notin seen' /\ \A q \in Pids : Slow(q)'
  <2>1. /\ procs'[p].pend = {} /\ procs'[p].alarm = FALSE /\ procs'[p].regs = procs[p].regs
    BY <1>1, <1>2 DEF Keeps, Fields
  <2>2. \A q \in Pids \ {p} : procs'[q] = procs[q]
    BY <1>2 DEF Others
  <2>3. \A q \in Pids : Slow(q)'
    BY <1>1, <1>2, <2>1, <2>2 DEF Slow, Running
  <2> QED BY <1>1, <1>2, <2>3 DEF Marked, SlowLabels
<1>3. CASE procs[p].pc \in {"main", "init", "mask"}
  <2>1. /\ Instr(p).op \in {"handle", "block"} /\ Instr(p).next \in SlowLabels
    BY <1>3, SlowCode DEF Handle, Block, SlowLabels
  <2>2. Marked(p) /\ Others({p}) /\ Keeps(p, {"pc", "hand", "mask"}) /\ procs'[p].pc = Instr(p).next
    BY <1>1, <2>1, Signalling DEF Keeps
  <2>3. Keeps(p, F)
    BY <2>2 DEF Keeps, Fields
  <2> QED BY <1>2, <2>1, <2>2, <2>3
<1>4. CASE procs[p].pc = "fork"
  <2>1. /\ Instr(p).op = "fork" /\ Instr(p).next = "father" /\ Instr(p).child = "wait"
        /\ Instr(p).other = "unix_error"
    BY <1>4, SlowCode DEF WFork, Fork
  <2>2. Marked(p)
    BY <1>1, <2>1, Forking
  <2>3. "sigflag_parent" \in RegNames \ {"pid"}
    BY DEF RegNames
  <2>4. CASE Changes(p, {"pc", "regs"}) /\ procs'[p].pc = "unix_error"
             /\ \A n \in RegNames \ {"pid"} : procs'[p].regs[n] = procs[p].regs[n]
    <3>1. /\ procs'[p].pend = {} /\ procs'[p].alarm = FALSE
          /\ procs'[p].regs.sigflag_parent = 0
      BY <1>1, <2>3, <2>4 DEF Changes, Keeps, Fields
    <3>2. \A q \in Pids \ {p} : procs'[q] = procs[q]
      BY <2>4 DEF Changes, Others
    <3>3. \A q \in Pids : Slow(q)'
      BY <2>4, <3>1, <3>2 DEF Slow, Running, SlowLabels
    <3> QED BY <1>4, <2>2, <3>3 DEF Marked
  <2>5. CASE \E q \in Pids : Born(p, q)
    <3>1. PICK r \in Pids : Born(p, r)
      BY <2>5
    <3>2. /\ procs'[p].pend = {} /\ procs'[p].alarm = FALSE
          /\ procs'[p].regs.sigflag_parent = 0 /\ procs'[p].pc = "father"
      BY <1>1, <2>1, <2>3, <3>1 DEF Born, Keeps, Fields
    <3>3. /\ procs'[r].pend = {} /\ procs'[r].alarm = FALSE
          /\ procs'[r].regs.sigflag_parent = 0 /\ procs'[r].pc = "wait"
      BY <1>1, <2>1, <2>3, <3>1 DEF Born
    <3>4. \A q \in Pids \ {p, r} : procs'[q] = procs[q]
      BY <3>1 DEF Born, Others
    <3>5. \A q \in Pids : Slow(q)'
      BY <3>2, <3>3, <3>4 DEF Slow, Running, SlowLabels
    <3> QED BY <1>4, <2>2, <3>5 DEF Marked
  <2> QED BY <1>1, <2>1, <2>4, <2>5, Forking
<1>5. CASE procs[p].pc = "wait"
  <2>1. /\ Instr(p).op = "if" /\ Instr(p).reg = "sigflag_parent" /\ Instr(p).val = 0
        /\ Instr(p).next = "suspend"
    BY <1>5, SlowCode DEF If
  <2>2. Marked(p) /\ Changes(p, {"pc"}) /\ procs'[p].pc = "suspend"
    BY <1>1, <2>1, Computing
  <2>3. Others({p}) /\ Keeps(p, F)
    BY <2>2 DEF Changes, Keeps, Fields
  <2> QED BY <1>2, <2>2, <2>3 DEF SlowLabels
<1>6. CASE procs[p].pc = "suspend"
  <2>1. Instr(p).op = "suspend"
    BY <1>6, SlowCode DEF Suspend
  <2>2. seen' = seen /\ Changes(p, {"asleep"})
    BY <1>1, <2>1, Sleeping
  <2>3. Others({p}) /\ Keeps(p, F) /\ procs'[p].pc = procs[p].pc
    BY <2>2 DEF Changes, Keeps, Fields
  <2> QED BY <1>1, <1>2, <2>2, <2>3
<1>7. CASE procs[p].pc = "father"
  <2>1. /\ Instr(p).op = "loop" /\ Instr(p).reg = "i" /\ Instr(p).next = "father"
        /\ Instr(p).other = "tell"
    BY <1>7, SlowCode DEF Loop
  <2>2. /\ Marked(p) /\ Changes(p, {"pc", "regs"}) /\ procs'[p].pc \in {"father", "tell"}
        /\ procs'[p].regs.sigflag_parent = procs[p].regs.sigflag_parent
    BY <1>1, <2>1, Assigning DEF RegNames
  <2>3. /\ procs'[p].pend = {} /\ procs'[p].alarm = FALSE
    BY <1>1, <2>2 DEF Changes, Keeps, Fields
  <2>4. \A q \in Pids \ {p} : procs'[q] = procs[q]
    BY <2>2 DEF Changes, Others
  <2>5. \A q \in Pids : Slow(q)'
    BY <1>1, <2>2, <2>3, <2>4 DEF Slow, Running, SlowLabels
  <2> QED BY <1>7, <2>2, <2>5 DEF Marked
<1>8. CASE procs[p].pc = "unix_error"
  <2>1. Instr(p).op = "exit"
    BY <1>8, SlowCode DEF Exit
  <2>2. Marked(p) /\ Death(p, 0)
    BY <1>1, <2>1, Ending
  <2>3. Unborn.pend = {} /\ Unborn.alarm = FALSE /\ Unborn.regs.sigflag_parent = 0
    BY DEF Unborn
  <2>4. ASSUME NEW q \in Pids PROVE Slow(q)'
    <3>1. CASE q = p
      <4>1. procs'[p].st # "run" /\ \A f \in {"pend", "alarm", "regs"} : procs'[p][f] = Unborn[f]
        BY <2>2 DEF Death, Fields
      <4> QED BY <2>3, <3>1, <4>1 DEF Slow, Running
    <3>2. CASE q # p /\ procs[q].ppid = p /\ procs[q].st # "run"
      <4>1. procs'[q].st # "run" /\ \A f \in {"pend", "alarm", "regs"} : procs'[q][f] = Unborn[f]
        BY <2>2, <3>2 DEF Death, Fields
      <4> QED BY <2>3, <4>1 DEF Slow, Running
    <3>3. CASE q # p /\ ~ (procs[q].ppid = p /\ procs[q].st # "run")
      <4>1. \A f \in {"st", "pc", "pend", "alarm", "regs"} : procs'[q][f] = procs[q][f]
        BY <2>2, <3>3 DEF Death, Keeps, Fields
      <4> QED BY <4>1 DEF Slow, Running
    <3> QED BY <3>1, <3>2, <3>3
  <2> QED BY <1>8, <2>2, <2>4 DEF Marked
<1>9. procs[p].pc # "tell"
  <2>1. SUFFICES ASSUME procs[p].pc = "tell" PROVE FALSE
    OBVIOUS
  <2>2. Instr(p).op = "kill"
    <3>1. Code[prog] = SlowWrite
      BY CodeOf
    <3> QED BY <2>1, <3>1 DEF Instr, SlowWrite, TellChild, Kill
  <2> QED BY <1>1, <2>1, <2>2, Killing DEF Marked
<1> QED BY <1>1, <1>3, <1>4, <1>5, <1>6, <1>7, <1>8, <1>9 DEF SlowLabels

LEMMA SlowStep ==
    ASSUME ProcTypeOK, SilentOK, SlowOK, [ProcNext]_procVars PROVE SlowOK'
<1>1. prog' = prog /\ seen \subseteq seen'
  BY ProgStays
<1> SUFFICES ASSUME prog = "slow_write", "tell" \notin seen'
             PROVE  "son" \notin seen' /\ \A p \in Pids : Slow(p)'
  BY <1>1 DEF SlowOK, Pids
<1>2. "son" \notin seen /\ NoChld /\ \A p \in Pids : Slow(p)
  BY <1>1 DEF SlowOK, SilentOK
<1>3. ASSUME procs' = procs, seen' = seen
      PROVE  "son" \notin seen' /\ \A p \in Pids : Slow(p)'
  BY <1>2, <1>3 DEF Slow, Running
<1>4. ASSUME NEW p \in Pids, Proceed(p)
      PROVE  "son" \notin seen' /\ \A q \in Pids : Slow(q)'
  <2>1. Acts(p)
    BY <1>2, <1>4 DEF Acts, Slow, Deliver, Deliverable, AlarmRings
  <2> QED BY <1>2, <2>1, SlowActs
<1>5. ASSUME NEW p \in Pids, Drain(p)
      PROVE  "son" \notin seen' /\ \A q \in Pids : Slow(q)'
  BY <1>3, <1>5 DEF Drain
<1>6. CASE UNCHANGED procVars
  BY <1>3, <1>6 DEF procVars
<1>7. ~ CtrlC /\ \A p \in Pids : ~ AcceptCall(p)
  BY OnlyPoolAccepts DEF CtrlC
<1> QED BY <1>4, <1>5, <1>6, <1>7 DEF ProcNext

\* The fields of a process at the start.
LEMMA StartsWith ==
    ASSUME ProcInit, NEW p \in Pids
    PROVE  \A f \in Fields \ {"st", "pc"} : procs[p][f] = Unborn[f]
  BY StartsAt

LEMMA SlowInit == ProcInit => SlowOK
<1> SUFFICES ASSUME ProcInit, prog = "slow_write"
             PROVE  "son" \notin seen /\ \A p \in Pids : Slow(p)
  BY DEF SlowOK
<1>1. seen = {} /\ Entries(prog) = <<"main">>
  BY DEF ProcInit, Entries
<1>2. ASSUME NEW p \in Pids PROVE Slow(p)
  <2>1. procs[p].pend = {} /\ procs[p].alarm = FALSE /\ procs[p].regs.sigflag_parent = 0
    BY StartsWith DEF Fields, Unborn
  <2>2. procs[p].pc = "main"
    BY <1>1, StartsAt DEF Unborn
  <2> QED BY <2>1, <2>2 DEF Slow, SlowLabels
<1> QED BY <1>1, <1>2

-----------------------------------------------------------------------------
(* alarm.c: no beep is counted before the handler has run.                 *)

LEMMA BeepCode ==
    ASSUME prog = "alarm", NEW p \in Pids
    PROVE  /\ procs[p].pc = "main" => Instr(p) = Handle("ALRM", "Handler", "test")
           /\ procs[p].pc = "test" => Instr(p) = If("nbsig", 2, "bye", "set")
           /\ procs[p].pc = "set" => Instr(p) = Alarm("sleep")
           /\ procs[p].pc = "sleep" => Instr(p) = Sleep("test")
           /\ procs[p].pc = "Handler" => Instr(p) = Loop("nbsig", 0, "back", "back")
<1>1. Code[prog] = Beep
  BY CodeOf
<1> QED BY <1>1 DEF Instr, Beep, Beeps

BeepLabels == {"main", "test", "set", "sleep", "Handler"}

\* What a process is before its handler has counted.
Mum(p) ==
    /\ procs[p].regs.nbsig = 0
    /\ \A s \in Signals : procs[p].hand[s] \in {"default", "Handler"}
    /\ Running(p) => procs[p].pc \in BeepLabels

BeepOK ==
    prog = "alarm" /\ "Handler" \notin seen =>
        "bye" \notin seen /\ \A p \in Pids : Mum(p)

\* A death, which may orphan, frees or stop the others.
LEMMA MumDies ==
    ASSUME \A q \in Pids : Mum(q), NEW p \in Pids, NEW code, Death(p, code)
    PROVE  \A q \in Pids : Mum(q)'
<1>1. /\ Unborn.regs.nbsig = 0 /\ \A s \in Signals : Unborn.hand[s] = "default"
  BY DEF Unborn
<1> SUFFICES ASSUME NEW q \in Pids PROVE Mum(q)'
  OBVIOUS
<1>2. CASE q = p
  <2>1. procs'[p].st # "run" /\ procs'[p].regs = Unborn.regs /\ procs'[p].hand = Unborn.hand
    BY DEF Death, Fields
  <2> QED BY <1>1, <1>2, <2>1 DEF Mum, Running, Signals
<1>3. CASE q # p /\ procs[q].ppid = p /\ procs[q].st # "run"
  <2>1. procs'[q].st # "run" /\ procs'[q].regs = Unborn.regs /\ procs'[q].hand = Unborn.hand
    BY <1>3 DEF Death, Fields
  <2> QED BY <1>1, <2>1 DEF Mum, Running, Signals
<1>4. CASE q # p /\ ~ (procs[q].ppid = p /\ procs[q].st # "run")
  <2>1. \A f \in {"st", "pc", "regs", "hand"} : procs'[q][f] = procs[q][f]
    BY <1>4 DEF Death, Keeps, Fields
  <2> QED BY <2>1 DEF Mum, Running, Signals
<1> QED BY <1>2, <1>3, <1>4

LEMMA BeepActs ==
    ASSUME ProcTypeOK, NoChld, prog = "alarm", \A q \in Pids : Mum(q), "bye" \notin seen,
           NEW p \in Pids, Proceed(p), "Handler" \notin seen'
    PROVE  "bye" \notin seen' /\ \A q \in Pids : Mum(q)'
<1>1. /\ Running(p) /\ Shape /\ procs[p].ppid # p /\ Mum(p) /\ procs[p].pc \in BeepLabels
      /\ procs[p].regs.nbsig = 0 /\ \A s \in Signals : procs[p].hand[s] \in {"default", "Handler"}
      /\ procs[p].pend \subseteq Signals
  BY ActsPlaced DEF ProcTypeOK, Placed, Mum, Proceed
<1>2. ASSUME Others({p}), procs'[p].pc \in BeepLabels, seen' = seen \/ Marked(p),
             procs'[p].regs = procs[p].regs,
             \A s \in Signals : procs'[p].hand[s] \in {"default", "Handler"}
      PROVE  "bye" \notin seen' /\ \A q \in Pids : Mum(q)'
  <2>1. \A q \in Pids \ {p} : procs'[q] = procs[q]
    BY <1>2 DEF Others
  <2>2. \A q \in Pids : Mum(q)'
    BY <1>1, <1>2, <2>1 DEF Mum, Running, Signals
  <2> QED BY <1>1, <1>2, <2>2 DEF Marked, BeepLabels
<1>3. CASE Deliver(p)
  <2>1. seen' = seen
    BY <1>3 DEF Deliver
  <2>2. PICK sig \in Deliverable(p) :
            (procs[p].hand[sig] = "default" /\ Death(p, 1)) \/ Handled(p, sig)
    BY <1>1, <1>3, Delivering
  <2>3. sig \in Signals
    BY <1>1 DEF Deliverable
  <2>4. CASE Handled(p, sig)
    <3>1. procs'[p].pc = "Handler"
      BY <1>1, <2>3, <2>4 DEF Handled
    <3>2. Others({p}) /\ procs'[p].regs = procs[p].regs /\ procs'[p].hand = procs[p].hand
      BY <2>4 DEF Handled, Changes, Keeps, Fields
    <3> QED BY <1>1, <1>2, <2>1, <3>1, <3>2 DEF BeepLabels
  <2> QED BY <2>1, <2>2, <2>4, MumDies
<1>4. CASE AlarmRings(p)
  <2>1. seen' = seen /\ Changes(p, {"alarm", "pend"})
    BY <1>1, <1>4, Ringing
  <2>2. /\ Others({p}) /\ procs'[p].pc = procs[p].pc /\ procs'[p].regs = procs[p].regs
        /\ procs'[p].hand = procs[p].hand
    BY <2>1 DEF Changes, Keeps, Fields
  <2> QED BY <1>1, <1>2, <2>1, <2>2
<1>5. CASE Acts(p)
  <2>1. CASE procs[p].pc = "main"
    <3>1. /\ Instr(p).op = "handle" /\ Instr(p).next = "test" /\ Instr(p).label = "Handler"
          /\ Instr(p).sig = "ALRM"
      BY <2>1, BeepCode DEF Handle
    <3>2. /\ Marked(p) /\ Others({p}) /\ Keeps(p, {"pc", "hand"}) /\ procs'[p].pc = "test"
          /\ procs'[p].hand = [procs[p].hand EXCEPT !["ALRM"] = "Handler"]
      BY <1>1, <1>5, <3>1, Signalling
    <3>3. procs'[p].regs = procs[p].regs
      BY <3>2 DEF Keeps, Fields
    <3>4. \A s \in Signals : procs'[p].hand[s] \in {"default", "Handler"}
      <4>1. procs[p].hand = [s \in Signals |-> procs[p].hand[s]]
        BY <1>1 DEF Shape, Shaped
      <4> QED BY <1>1, <3>2, <4>1
    <3> QED BY <1>2, <3>2, <3>3, <3>4 DEF BeepLabels
  <2>2. CASE procs[p].pc = "test"
    <3>1. /\ Instr(p).op = "if" /\ Instr(p).reg = "nbsig" /\ Instr(p).val = 2
          /\ Instr(p).other = "set"
      BY <2>2, BeepCode DEF If
    <3>2. Marked(p) /\ Changes(p, {"pc"}) /\ procs'[p].pc = "set"
      BY <1>1, <1>5, <3>1, Computing
    <3>3. Others({p}) /\ procs'[p].regs = procs[p].regs /\ procs'[p].hand = procs[p].hand
      BY <3>2 DEF Changes, Keeps, Fields
    <3> QED BY <1>1, <1>2, <3>2, <3>3 DEF BeepLabels
  <2>3. CASE procs[p].pc = "set"
    <3>1. Instr(p).op = "alarm" /\ Instr(p).next = "sleep"
      BY <2>3, BeepCode DEF Alarm
    <3>2. Marked(p) /\ Others({p}) /\ Keeps(p, {"pc", "alarm"}) /\ procs'[p].pc = "sleep"
      BY <1>1, <1>5, <3>1, Signalling
    <3>3. procs'[p].regs = procs[p].regs /\ procs'[p].hand = procs[p].hand
      BY <3>2 DEF Keeps, Fields
    <3> QED BY <1>1, <1>2, <3>2, <3>3 DEF BeepLabels
  <2>4. CASE procs[p].pc = "sleep"
    <3>1. Instr(p).op = "sleep" /\ Instr(p).next = "test"
      BY <2>4, BeepCode DEF Sleep
    <3>2. \/ seen' = seen /\ Changes(p, {"asleep"})
          \/ Marked(p) /\ Changes(p, {"asleep", "pc"}) /\ procs'[p].pc = "test"
      BY <1>1, <1>5, <3>1, Sleeping
    <3>3. /\ Others({p}) /\ procs'[p].regs = procs[p].regs /\ procs'[p].hand = procs[p].hand
          /\ procs'[p].pc \in {"sleep", "test"}
      BY <2>4, <3>2 DEF Changes, Keeps, Fields
    <3> QED BY <1>1, <1>2, <3>2, <3>3 DEF BeepLabels
  <2>5. procs[p].pc # "Handler"
    <3>1. SUFFICES ASSUME procs[p].pc = "Handler" PROVE FALSE
      OBVIOUS
    <3>2. Instr(p).op = "loop" /\ Instr(p).reg = "nbsig"
      BY <3>1, BeepCode DEF Loop
    <3> QED BY <1>1, <1>5, <3>1, <3>2, Assigning DEF Marked, RegNames
  <2> QED BY <1>1, <2>1, <2>2, <2>3, <2>4, <2>5 DEF BeepLabels
<1> QED BY <1>3, <1>4, <1>5 DEF Acts

LEMMA BeepStep ==
    ASSUME ProcTypeOK, SilentOK, BeepOK, [ProcNext]_procVars PROVE BeepOK'
<1>1. prog' = prog /\ seen \subseteq seen'
  BY ProgStays
<1> SUFFICES ASSUME prog = "alarm", "Handler" \notin seen'
             PROVE  "bye" \notin seen' /\ \A p \in Pids : Mum(p)'
  BY <1>1 DEF BeepOK, Pids
<1>2. "bye" \notin seen /\ NoChld /\ \A p \in Pids : Mum(p)
  BY <1>1 DEF BeepOK, SilentOK
<1>3. ASSUME procs' = procs, seen' = seen
      PROVE  "bye" \notin seen' /\ \A p \in Pids : Mum(p)'
  BY <1>2, <1>3 DEF Mum, Running, Signals
<1>4. ASSUME NEW p \in Pids, Proceed(p)
      PROVE  "bye" \notin seen' /\ \A q \in Pids : Mum(q)'
  BY <1>2, <1>4, BeepActs
<1>5. ASSUME NEW p \in Pids, Drain(p)
      PROVE  "bye" \notin seen' /\ \A q \in Pids : Mum(q)'
  BY <1>3, <1>5 DEF Drain
<1>6. CASE UNCHANGED procVars
  BY <1>3, <1>6 DEF procVars
<1>7. ~ CtrlC /\ \A p \in Pids : ~ AcceptCall(p)
  BY OnlyPoolAccepts DEF CtrlC
<1> QED BY <1>4, <1>5, <1>6, <1>7 DEF ProcNext

LEMMA BeepInit == ProcInit => BeepOK
<1> SUFFICES ASSUME ProcInit, prog = "alarm"
             PROVE  "bye" \notin seen /\ \A p \in Pids : Mum(p)
  BY DEF BeepOK
<1>1. seen = {} /\ Entries(prog) = <<"main">>
  BY DEF ProcInit, Entries
<1>2. ASSUME NEW p \in Pids PROVE Mum(p)
  <2>1. procs[p].regs.nbsig = 0 /\ \A s \in Signals : procs[p].hand[s] = "default"
    BY StartsWith DEF Fields, Unborn
  <2>2. procs[p].pc = "main"
    BY <1>1, StartsAt DEF Unborn
  <2> QED BY <2>1, <2>2 DEF Mum, BeepLabels
<1> QED BY <1>1, <1>2

-----------------------------------------------------------------------------
(* waitpid1.c: the status that is read is the one every child ends with.   *)

LEMMA WaitpidCode ==
    ASSUME prog \in Large, NEW p \in Pids
    PROVE  /\ procs[p].pc = "main" => Instr(p) = WFork("son", "next")
           /\ procs[p].pc = "son" => Instr(p) = IF prog = "waitpid1" THEN Exit ELSE Segv
           /\ procs[p].pc = "next" => Instr(p) = Loop("i", 2, "main", "wait")
           /\ procs[p].pc = "wait" => Instr(p) = Wait("status", "end")
           /\ procs[p].pc = "status" => Instr(p) = If("status", 0, "normal", "abnormal")
           /\ procs[p].pc \in {"normal", "abnormal"} => Instr(p) = Step("wait")
           /\ procs[p].pc = "end" => Instr(p) = Exit
<1>1. Code[prog] = WaitpidOf(IF prog = "waitpid1" THEN Exit ELSE Segv)
  BY CodeOf DEF Large, Waitpid1, Waitpid1Segv
<1> QED BY <1>1 DEF Instr, WaitpidOf

\* How the children end, what is printed then, and what is not.
Status == IF prog = "waitpid1" THEN 0 ELSE 1
Right == IF prog = "waitpid1" THEN "normal" ELSE "abnormal"
Wrong == IF prog = "waitpid1" THEN "abnormal" ELSE "normal"

Son(p) ==
    /\ Running(p) => procs[p].pc = "son"
    /\ procs[p].st = "zombie" => procs[p].code = Status

Father(p) ==
    Running(p) =>
        /\ procs[p].pc \in {"main", "next", "wait", "status", Right, "end"}
        /\ procs[p].pc = "status" => procs[p].regs.status = Status

ReadsRight ==
    /\ Wrong \notin seen
    /\ \A p \in Pids : IF p = 1 THEN Father(p) ELSE Son(p)

StatusOK == prog \in Large => failed \/ ReadsRight

LEMMA StatusActs ==
    ASSUME ProcTypeOK, NoChld, prog \in Large, ReadsRight, NEW p \in Pids, Acts(p), ~ failed',
           prog' = prog
    PROVE  ReadsRight'
<1>1. /\ Running(p) /\ Shape /\ procs[p].ppid # p /\ Wrong \notin seen
      /\ prog \in {"waitpid1", "waitpid1_segv"}
  BY ActsByOp DEF ProcTypeOK, Placed, ReadsRight, Large
<1>2. Status' = Status /\ Right' = Right /\ Wrong' = Wrong /\ Wrong # "son" /\ Wrong # Right
      /\ Wrong \in {"normal", "abnormal"} /\ Right \in {"normal", "abnormal"}
  BY DEF Status, Right, Wrong
<1>3. ASSUME NEW q \in Pids, q # p, procs'[q] = procs[q]
      PROVE  IF q = 1 THEN Father(q)' ELSE Son(q)'
  <2>1. IF q = 1 THEN Father(q) ELSE Son(q)
    BY DEF ReadsRight
  <2> QED BY <1>2, <1>3, <2>1 DEF Father, Son, Running
<1>4. ASSUME Others({p}), p = 1, Father(1)', Wrong \notin seen'
      PROVE  ReadsRight'
  <2>1. \A q \in Pids : q # 1 => procs'[q] = procs[q]
    BY <1>4 DEF Others
  <2> QED BY <1>2, <1>3, <1>4, <2>1 DEF ReadsRight, Pids
<1>5. ASSUME NEW code, Death(p, code), Marked(p), procs[p].pc # Wrong, p # 1 => code = Status
      PROVE  ReadsRight'
  <2>1. Wrong' \notin seen'
    BY <1>1, <1>2, <1>5 DEF Marked
  <2>2. ASSUME NEW q \in Pids PROVE IF q = 1 THEN Father(q)' ELSE Son(q)'
    <3>1. CASE q = p
      <4>1. procs'[p].st # "run" /\ procs'[p].code = code
        BY <1>5 DEF Death
      <4> QED BY <1>2, <1>5, <3>1, <4>1 DEF Father, Son, Running
    <3>2. CASE q # p /\ procs[q].ppid = p /\ procs[q].st # "run"
      <4>1. procs'[q].st = "gone"
        BY <1>5, <3>2 DEF Death
      <4> QED BY <4>1 DEF Father, Son, Running
    <3>3. CASE q # p /\ ~ (procs[q].ppid = p /\ procs[q].st # "run")
      <4>1. \A f \in {"st", "pc", "regs", "code"} : procs'[q][f] = procs[q][f]
        BY <1>5, <3>3 DEF Death, Keeps, Fields
      <4>2. IF q = 1 THEN Father(q) ELSE Son(q)
        BY DEF ReadsRight
      <4> QED BY <1>2, <4>1, <4>2 DEF Father, Son, Running
    <3> QED BY <3>1, <3>2, <3>3
  <2> QED BY <2>1, <2>2 DEF ReadsRight, Pids
<1>6. CASE p # 1
  <2>1. procs[p].pc = "son"
    BY <1>1, <1>6 DEF ReadsRight, Son
  <2>2. Instr(p).op = IF prog = "waitpid1" THEN "exit" ELSE "segv"
    BY <2>1, WaitpidCode DEF Exit, Segv
  <2>3. Marked(p) /\ Death(p, Status)
    BY <1>1, <2>2, Ending DEF Status
  <2> QED BY <1>2, <1>5, <2>1, <2>3
<1>7. CASE p = 1
  <2>1. procs[1].pc \in {"main", "next", "wait", "status", Right, "end"}
        /\ (procs[1].pc = "status" => procs[1].regs.status = Status)
    BY <1>1, <1>7 DEF ReadsRight, Father
  <2>2. ASSUME Others({1}), Marked(1), procs'[1].pc \in {"main", "next", "wait", Right, "end"}
        PROVE  ReadsRight'
    <3>1. Wrong \notin seen'
      BY <1>1, <1>2, <2>1, <2>2 DEF Marked
    <3>2. Father(1)'
      BY <1>2, <2>2 DEF Father
    <3> QED BY <1>4, <1>7, <2>2, <3>1, <3>2
  <2>3. CASE procs[1].pc = "main"
    <3>1. Instr(1).op = "fork" /\ Instr(1).next = "next" /\ Instr(1).child = "son"
      BY <1>7, <2>3, WaitpidCode DEF WFork, Fork
    <3>2. Marked(1)
      BY <1>1, <1>7, <3>1, Forking
    <3>3. PICK q \in Pids : Born(1, q)
      BY <1>1, <1>7, <3>1, Forking
    <3>4. /\ procs'[1].pc = "next" /\ q # 1 /\ procs'[q].pc = "son"
          /\ \A r \in Pids \ {1, q} : procs'[r] = procs[r]
      BY <3>1, <3>3 DEF Born, Others
    <3>5. procs'[q].st = "run"
      BY <1>1, <1>7, <3>3 DEF Born, Fields, Running
    <3>6. Father(1)' /\ Son(q)'
      BY <1>2, <3>4, <3>5 DEF Father, Son
    <3>7. Wrong' \notin seen'
      BY <1>1, <1>2, <2>3, <3>2 DEF Marked
    <3>8. ASSUME NEW r \in Pids PROVE IF r = 1 THEN Father(r)' ELSE Son(r)'
      <4>1. CASE r \in {1, q}
        BY <3>4, <3>6, <4>1
      <4>2. CASE r \notin {1, q}
        BY <1>3, <1>7, <3>4, <4>2
      <4> QED BY <4>1, <4>2
    <3> QED BY <3>7, <3>8 DEF ReadsRight, Pids
  <2>4. CASE procs[1].pc = "next"
    <3>1. /\ Instr(1).op = "loop" /\ Instr(1).reg = "i" /\ Instr(1).next = "main"
          /\ Instr(1).other = "wait"
      BY <1>7, <2>4, WaitpidCode DEF Loop
    <3>2. Marked(1) /\ Changes(1, {"pc", "regs"}) /\ procs'[1].pc \in {"main", "wait"}
      BY <1>1, <1>7, <3>1, Assigning DEF RegNames
    <3> QED BY <2>2, <3>2 DEF Changes
  <2>5. CASE procs[1].pc = "wait"
    <3>1. Instr(1).op = "wait" /\ Instr(1).next = "status" /\ Instr(1).other = "end"
      BY <1>7, <2>5, WaitpidCode DEF Wait
    <3>2. Marked(1)
      BY <1>1, <1>7, <3>1, Reaping
    <3>3. CASE Changes(1, {"pc"}) /\ procs'[1].pc = "end"
      BY <2>2, <3>2, <3>3 DEF Changes
    <3>4. CASE \E q \in Zombies(1) :
                    /\ q # 1 /\ Others({1, q}) /\ procs'[1].pc = "status"
                    /\ procs'[1].regs.status = procs[q].code /\ procs'[q].st = "gone"
      <4>1. PICK q \in Zombies(1) :
                    /\ q # 1 /\ Others({1, q}) /\ procs'[1].pc = "status"
                    /\ procs'[1].regs.status = procs[q].code /\ procs'[q].st = "gone"
        BY <3>4
      <4>2. q \in Pids /\ procs[q].code = Status
        BY <4>1 DEF Zombies, Children, ReadsRight, Son
      <4>3. Father(1)' /\ Son(q)'
        BY <1>2, <4>1, <4>2 DEF Father, Son, Running
      <4>4. Wrong' \notin seen'
        BY <1>1, <1>2, <2>5, <3>2 DEF Marked
      <4>5. ASSUME NEW r \in Pids PROVE IF r = 1 THEN Father(r)' ELSE Son(r)'
        <5>1. CASE r \in {1, q}
          BY <4>1, <4>3, <5>1
        <5>2. CASE r \notin {1, q}
          BY <1>3, <1>7, <4>1, <5>2 DEF Others
        <5> QED BY <5>1, <5>2
      <4> QED BY <4>4, <4>5 DEF ReadsRight, Pids
    <3> QED BY <1>1, <1>7, <3>1, <3>3, <3>4, Reaping
  <2>6. CASE procs[1].pc = "status"
    <3>1. /\ Instr(1).op = "if" /\ Instr(1).reg = "status" /\ Instr(1).val = 0
          /\ Instr(1).next = "normal" /\ Instr(1).other = "abnormal"
      BY <1>7, <2>6, WaitpidCode DEF If
    <3>2. /\ Marked(1) /\ Changes(1, {"pc"})
          /\ procs'[1].pc = IF procs[1].regs["status"] = 0 THEN "normal" ELSE "abnormal"
      BY <1>1, <1>7, <3>1, Computing
    <3>3. procs[1].regs["status"] = Status
      BY <2>1, <2>6
    <3>4. procs'[1].pc = Right
      BY <3>2, <3>3 DEF Right, Status
    <3> QED BY <2>2, <3>2, <3>4 DEF Changes
  <2>7. CASE procs[1].pc = Right
    <3>1. Instr(1).op = "step" /\ Instr(1).next = "wait"
      BY <1>2, <1>7, <2>7, WaitpidCode DEF Step
    <3>2. Marked(1) /\ Changes(1, {"pc"}) /\ procs'[1].pc = "wait"
      BY <1>1, <1>7, <3>1, Computing
    <3> QED BY <2>2, <3>2 DEF Changes
  <2>8. CASE procs[1].pc = "end"
    <3>1. Instr(1).op = "exit"
      BY <1>7, <2>8, WaitpidCode DEF Exit
    <3>2. Marked(1) /\ Death(1, 0)
      BY <1>1, <1>7, <3>1, Ending
    <3> QED BY <1>2, <1>5, <1>7, <2>8, <3>2
  <2> QED BY <2>1, <2>3, <2>4, <2>5, <2>6, <2>7, <2>8
<1> QED BY <1>6, <1>7

LEMMA StatusStep ==
    ASSUME ProcTypeOK, SilentOK, StatusOK, [ProcNext]_procVars PROVE StatusOK'
<1>1. prog' = prog /\ (failed => failed')
  BY ProgStays
<1> SUFFICES ASSUME prog \in Large, ~ failed' PROVE ReadsRight'
  BY <1>1 DEF StatusOK
<1>2. ReadsRight /\ prog \in Silent
  BY <1>1 DEF StatusOK, Large, Silent
<1>3. ASSUME procs' = procs, seen' = seen PROVE ReadsRight'
  BY <1>1, <1>2, <1>3 DEF ReadsRight, Father, Son, Wrong, Right, Status, Running, Pids
<1>4. ASSUME NEW p \in Pids, Proceed(p) PROVE ReadsRight'
  <2>1. Acts(p) /\ NoChld
    BY <1>2, <1>4, SilentActs
  <2> QED BY <1>1, <1>2, <2>1, StatusActs
<1>5. ASSUME NEW p \in Pids, Drain(p) PROVE ReadsRight'
  BY <1>3, <1>5 DEF Drain
<1>6. CASE UNCHANGED procVars
  BY <1>3, <1>6 DEF procVars
<1>7. ~ CtrlC /\ \A p \in Pids : ~ AcceptCall(p)
  BY OnlyPoolAccepts DEF CtrlC, Large
<1> QED BY <1>4, <1>5, <1>6, <1>7 DEF ProcNext

LEMMA StatusInit == ProcInit => StatusOK
<1> SUFFICES ASSUME ProcInit, prog \in Large PROVE ReadsRight
  BY DEF StatusOK
<1>1. seen = {} /\ Entries(prog) = <<"main">>
  BY DEF ProcInit, Entries, Large
<1>2. ASSUME NEW p \in Pids PROVE IF p = 1 THEN Father(p) ELSE Son(p)
  <2>1. p # 1 => procs[p].st = "none"
    BY <1>1, StartsAt DEF Unborn
  <2>2. p = 1 => procs[p].pc = "main"
    BY <1>1, StartsAt DEF Unborn
  <2> QED BY <2>1, <2>2 DEF Father, Son, Running
<1> QED BY <1>1, <1>2 DEF ReadsRight

-----------------------------------------------------------------------------
(* TD3/ex4.c: the father reads fd2, whose writing end it holds itself, so  *)
(* that it reads nothing but what the child has written.                   *)

LEMMA DialogueCode ==
    ASSUME prog = "dialogue", NEW p \in Pids
    PROVE  /\ procs[p].pc = "main" => Instr(p) = Pipe("fd", "pipe2")
           /\ procs[p].pc = "pipe2" => Instr(p) = Pipe("fd2", "fork")
           /\ procs[p].pc = "fork" => Instr(p) = RawFork("fils", "pere")
           /\ procs[p].pc = "pere" => Instr(p) = Close("fd", "r", "bufout")
           /\ procs[p].pc = "bufout" => Instr(p) = Input("write", "write")
           /\ procs[p].pc = "write" => Instr(p) = Write("fd", "read2")
           /\ procs[p].pc = "read2" => Instr(p) = Read("fd2", "end", "end")
           /\ procs[p].pc = "fils" => Instr(p) = Close("fd", "w", "read")
           /\ procs[p].pc = "read" => Instr(p) = Read("fd", "answer", "answer")
           /\ procs[p].pc = "answer" => Instr(p) = Write("fd2", "end")
           /\ procs[p].pc \in {"end", "unix_error"} => Instr(p) = Exit
<1>1. Code[prog] = Dialogue
  BY CodeOf
<1> QED BY <1>1 DEF Instr, Dialogue

\* Where the writing end of fd2 is open.
Holding == {"fork", "pere", "bufout", "write", "read2", "fils", "read", "answer"}
Holds(p) ==
    Running(p) =>
        /\ procs[p].pc \in Holding \cup {"main", "pipe2", "end"}
        /\ procs[p].pc \in Holding => <<"fd2", "w">> \in procs[p].fds

Answered ==
    /\ \A p \in Pids : Holds(p)
    /\ chan = [c \in Pipes |-> chan[c]]
    /\ "answer" \notin seen => "read2" \notin seen /\ chan["fd2"] = <<>>

DialogueOK == prog = "dialogue" => Answered

LEMMA AnswerActs ==
    ASSUME ProcTypeOK, NoChld, prog = "dialogue", Answered, NEW p \in Pids, Acts(p)
    PROVE  Answered'
<1>1. /\ Running(p) /\ Shape /\ procs[p].ppid # p /\ Holds(p)
      /\ procs[p].pc \in Holding \cup {"main", "pipe2", "end"}
      /\ procs[p].pc \in Holding => <<"fd2", "w">> \in procs[p].fds
  BY ActsByOp DEF ProcTypeOK, Placed, Answered, Holds
<1>2. ASSUME Others({p}), Holds(p)' PROVE \A q \in Pids : Holds(q)'
  BY <1>2 DEF Answered, Others, Holds, Running
<1>3. ASSUME Marked(p), chan' = chan, procs[p].pc # "read2", \A q \in Pids : Holds(q)'
      PROVE  Answered'
  BY <1>3 DEF Answered, Marked, Pids, Pipes
<1>4. ASSUME Keeps(p, {"pc", "buf", "regs"}),
             procs[p].pc \in Holding \/ procs'[p].pc \notin Holding,
             procs'[p].pc \in Holding \cup {"main", "pipe2", "end"}
      PROVE  Holds(p)'
  <2>1. procs'[p].fds = procs[p].fds
    BY <1>4 DEF Keeps, Fields
  <2> QED BY <1>1, <1>4, <2>1 DEF Holds
<1>5. ASSUME NEW code, Death(p, code) PROVE \A q \in Pids : Holds(q)'
  <2> SUFFICES ASSUME NEW q \in Pids PROVE Holds(q)'
    OBVIOUS
  <2>1. CASE q = p \/ (procs[q].ppid = p /\ procs[q].st # "run")
    <3>1. procs'[q].st # "run"
      BY <1>5, <2>1 DEF Death
    <3> QED BY <3>1 DEF Holds, Running
  <2>2. CASE q # p /\ ~ (procs[q].ppid = p /\ procs[q].st # "run")
    <3>1. \A f \in {"st", "pc", "fds"} : procs'[q][f] = procs[q][f]
      BY <1>5, <2>2 DEF Death, Keeps, Fields
    <3> QED BY <3>1 DEF Answered, Holds, Running
  <2> QED BY <2>1, <2>2
<1>6. CASE procs[p].pc \in {"main", "pipe2", "pere", "fils"}
  <2>1. /\ Instr(p).op \in {"pipe", "close"}
        /\ Instr(p).next \in Holding \cup {"pipe2"}
        /\ Instr(p).op = "pipe" /\ Instr(p).next \in Holding => Instr(p).chan = "fd2"
        /\ Instr(p).op = "close" => Instr(p).chan = "fd" /\ procs[p].pc \in Holding
        /\ Instr(p).op = "pipe" => procs[p].pc \notin Holding
    BY <1>6, DialogueCode DEF Pipe, Close, Holding
  <2>2. Calm /\ Marked(p) /\ Others({p}) /\ procs'[p].pc = Instr(p).next
    BY <1>1, <2>1, Piping DEF Changes
  <2>3. procs'[p].pc \in Holding => <<"fd2", "w">> \in procs'[p].fds
    <3>1. CASE Instr(p).op = "pipe"
      BY <1>1, <2>1, <3>1, Piping
    <3>2. CASE Instr(p).op = "close"
      <4>1. procs'[p].fds = procs[p].fds \ {<<"fd", Instr(p).end>>}
        BY <1>1, <2>1, <3>2, Piping
      <4>2. <<"fd2", "w">> # <<"fd", Instr(p).end>>
        OBVIOUS
      <4> QED BY <1>1, <2>1, <3>2, <4>1, <4>2
    <3> QED BY <2>1, <3>1, <3>2
  <2>4. Holds(p)'
    BY <2>1, <2>2, <2>3 DEF Holds
  <2> QED BY <1>2, <1>3, <1>6, <2>2, <2>4 DEF Calm, pipes
<1>7. CASE procs[p].pc = "fork"
  <2>1. /\ Instr(p).op = "fork" /\ Instr(p).next = "pere" /\ Instr(p).child = "fils"
        /\ Instr(p).other = "pere"
    BY <1>7, DialogueCode DEF RawFork, Fork
  <2>2. Marked(p) /\ chan' = chan
    BY <1>1, <2>1, Forking DEF pipes
  <2>3. CASE Changes(p, {"pc", "regs"}) /\ procs'[p].pc = "pere"
    <3>1. Others({p}) /\ Keeps(p, {"pc", "buf", "regs"})
      BY <2>3 DEF Changes, Keeps
    <3>2. Holds(p)'
      BY <1>4, <1>7, <2>3, <3>1 DEF Holding
    <3> QED BY <1>2, <1>3, <1>7, <2>2, <3>1, <3>2
  <2>4. CASE \E q \in Pids : Born(p, q)
    <3>1. PICK q \in Pids : Born(p, q)
      BY <2>4
    <3>2. Keeps(p, {"pc", "buf", "regs"}) /\ procs'[p].pc = "pere" /\ Others({p, q})
      BY <2>1, <3>1 DEF Born, Keeps
    <3>3. Holds(p)'
      BY <1>4, <1>7, <3>2 DEF Holding
    <3>4. procs'[q].fds = procs[p].fds /\ procs'[q].pc = "fils"
      BY <2>1, <3>1 DEF Born, Fields
    <3>5. Holds(q)'
      BY <1>1, <1>7, <3>4 DEF Holds, Holding
    <3>6. \A r \in Pids : Holds(r)'
      BY <3>2, <3>3, <3>5 DEF Answered, Others, Holds, Running
    <3> QED BY <1>3, <1>7, <2>2, <3>6
  <2> QED BY <1>1, <2>1, <2>3, <2>4, Forking
<1>8. CASE procs[p].pc = "bufout"
  <2>1. Instr(p).op = "input" /\ Instr(p).next = "write" /\ Instr(p).other = "write"
    BY <1>8, DialogueCode DEF Input
  <2>2. /\ Marked(p) /\ chan' = chan /\ Others({p}) /\ Keeps(p, {"pc", "buf", "regs"})
        /\ procs'[p].pc = "write"
    BY <1>1, <2>1, Typing DEF Changes, Keeps
  <2>3. Holds(p)'
    BY <1>4, <1>8, <2>2 DEF Holding
  <2> QED BY <1>2, <1>3, <1>8, <2>2, <2>3
<1>9. CASE procs[p].pc \in {"write", "answer"}
  <2>1. /\ Instr(p).op = "write" /\ Instr(p).next \in {"read2", "end"}
        /\ procs[p].pc = "write" => Instr(p).chan = "fd"
    BY <1>9, DialogueCode DEF Write
  <2>2. Marked(p)
    BY <1>1, <2>1, Writing
  <2>3. \A q \in Pids : Holds(q)'
    <3>1. CASE Changes(p, {"pc"}) /\ procs'[p].pc = Instr(p).next
      <4>1. Others({p}) /\ Keeps(p, {"pc", "buf", "regs"})
        BY <3>1 DEF Changes, Keeps
      <4>2. procs[p].pc \in Holding /\ Instr(p).next \in Holding \cup {"end"}
        BY <1>9, <2>1 DEF Holding
      <4>3. Holds(p)'
        BY <1>4, <3>1, <4>1, <4>2
      <4> QED BY <1>2, <4>1, <4>3
    <3>2. CASE Death(p, 1)
      BY <1>5, <3>2
    <3> QED BY <1>1, <2>1, <3>1, <3>2, Writing
  <2>4. \/ chan' = chan
        \/ chan' = [chan EXCEPT ![Instr(p).chan] = @ \o procs[p].buf]
    BY <1>1, <2>1, Writing
  <2>5. chan' = [c \in Pipes |-> chan'[c]]
    BY <2>4 DEF Answered
  <2>6. procs[p].pc = "write" => chan'["fd2"] = chan["fd2"]
    <3> SUFFICES ASSUME procs[p].pc = "write" PROVE chan'["fd2"] = chan["fd2"]
      OBVIOUS
    <3>1. chan' = chan \/ chan' = [chan EXCEPT !["fd"] = @ \o procs[p].buf]
      BY <2>1, <2>4
    <3> QED BY <3>1 DEF Answered, Pipes
  <2>7. procs[p].pc = "answer" => "answer" \in seen'
    BY <2>2 DEF Marked
  <2>8. procs[p].pc # "read2"
    BY <1>9
  <2> QED BY <1>9, <2>2, <2>3, <2>5, <2>6, <2>7, <2>8 DEF Answered, Marked, Pids, Pipes
<1>10. CASE procs[p].pc \in {"read2", "read"}
  <2>1. /\ Instr(p).op = "read" /\ Instr(p).next \in {"answer", "end"}
        /\ Instr(p).other = Instr(p).next
        /\ procs[p].pc = "read2" => Instr(p).chan = "fd2"
    BY <1>10, DialogueCode DEF Read
  <2>2. /\ Marked(p)
        /\ chan[Instr(p).chan] # <<>> \/ ~ OpenEnd(Instr(p).chan, "w")
        /\ chan' = [chan EXCEPT ![Instr(p).chan] = <<>>]
        /\ Others({p}) /\ Keeps(p, {"pc", "buf", "regs"}) /\ procs'[p].pc = Instr(p).next
    BY <1>1, <2>1, Reading DEF Changes, Keeps
  <2>3. procs[p].pc = "read2" => "answer" \in seen
    <3>1. procs[p].pc = "read2" => OpenEnd("fd2", "w")
      BY <1>1 DEF OpenEnd, Holding
    <3> QED BY <2>1, <2>2, <3>1 DEF Answered
  <2>4. chan' = [c \in Pipes |-> chan'[c]] /\ (chan["fd2"] = <<>> => chan'["fd2"] = <<>>)
    BY <2>2 DEF Answered, Pipes
  <2>5. Holds(p)'
    BY <1>4, <1>10, <2>1, <2>2 DEF Holding
  <2>6. \A q \in Pids : Holds(q)'
    BY <1>2, <2>2, <2>5
  <2>7. "answer" \notin seen' => "read2" \notin seen' /\ chan'["fd2"] = <<>>
    <3> SUFFICES ASSUME "answer" \notin seen' PROVE "read2" \notin seen' /\ chan'["fd2"] = <<>>
      OBVIOUS
    <3>1. "answer" \notin seen /\ seen' = seen \cup {procs[p].pc}
      BY <2>2 DEF Marked
    <3>2. procs[p].pc = "read"
      BY <1>10, <2>3, <3>1
    <3>3. "read2" \notin seen /\ chan["fd2"] = <<>>
      BY <3>1 DEF Answered
    <3>4. "read2" \notin seen'
      BY <3>1, <3>2, <3>3
    <3> QED BY <2>4, <3>3, <3>4
  <2> QED BY <2>4, <2>6, <2>7 DEF Answered, Pids, Pipes
<1>11. CASE procs[p].pc = "end"
  <2>1. Instr(p).op = "exit"
    BY <1>11, DialogueCode DEF Exit
  <2>2. Calm /\ Marked(p) /\ Death(p, 0)
    BY <1>1, <2>1, Ending
  <2> QED BY <1>3, <1>5, <1>11, <2>2 DEF Calm, pipes
<1> QED BY <1>1, <1>6, <1>7, <1>8, <1>9, <1>10, <1>11 DEF Holding

LEMMA AnswerStep ==
    ASSUME ProcTypeOK, SilentOK, DialogueOK, [ProcNext]_procVars PROVE DialogueOK'
<1>1. prog' = prog
  BY ProgStays
<1> SUFFICES ASSUME prog = "dialogue" PROVE Answered'
  BY <1>1 DEF DialogueOK
<1>2. Answered /\ prog \in Silent
  BY <1>1 DEF DialogueOK, Silent
<1>3. ASSUME procs' = procs, seen' = seen, chan' = chan PROVE Answered'
  BY <1>2, <1>3 DEF Answered, Holds, Running, Pids, Pipes
<1>4. ASSUME NEW p \in Pids, Proceed(p) PROVE Answered'
  <2>1. Acts(p) /\ NoChld
    BY <1>2, <1>4, SilentActs
  <2> QED BY <1>2, <2>1, AnswerActs
<1>5. ASSUME NEW p \in Pids, Drain(p) PROVE Answered'
  BY <1>3, <1>5 DEF Drain, pipes
<1>6. CASE UNCHANGED procVars
  BY <1>3, <1>6 DEF procVars, pipes
<1>7. ~ CtrlC /\ \A p \in Pids : ~ AcceptCall(p)
  BY OnlyPoolAccepts DEF CtrlC
<1> QED BY <1>4, <1>5, <1>6, <1>7 DEF ProcNext

LEMMA AnswerInit == ProcInit => DialogueOK
<1> SUFFICES ASSUME ProcInit, prog = "dialogue" PROVE Answered
  BY DEF DialogueOK
<1>1. seen = {} /\ Entries(prog) = <<"main">> /\ chan = [c \in Pipes |-> <<>>]
  BY DEF ProcInit, Entries
<1>2. ASSUME NEW p \in Pids PROVE Holds(p)
  <2>1. procs[p].pc = "main"
    BY <1>1, StartsAt DEF Unborn
  <2> QED BY <2>1 DEF Holds, Holding
<1> QED BY <1>1, <1>2 DEF Answered, Pipes

-----------------------------------------------------------------------------
(* shm_server.c and shm_client.c: the server waits for the star, the       *)
(* client for the segment.                                                 *)

ShmLabels ==
    {"server", "put_a", "put_b", "put_0", "poll", "nap", "served", "client", "exit1",
     "get_a", "get_b", "get_0", "star", "end"}

LEMMA ShmCode ==
    ASSUME prog = "shm", NEW p \in Pids
    PROVE  /\ procs[p].pc = "server" => Instr(p) = Step("put_a")
           /\ procs[p].pc = "put_a" => Instr(p) = Store(0, 1, "put_b")
           /\ procs[p].pc = "put_b" => Instr(p) = Store(1, 2, "put_0")
           /\ procs[p].pc = "put_0" => Instr(p) = Store(2, 0, "poll")
           /\ procs[p].pc = "poll" => Instr(p) = Load(0, Star, "served", "nap")
           /\ procs[p].pc = "nap" => Instr(p) = Sleep("poll")
           /\ procs[p].pc \in {"served", "exit1", "end"} => Instr(p) = Exit
           /\ procs[p].pc = "client" => Instr(p) = IfSeen("server", "get_a", "exit1")
           /\ procs[p].pc = "get_a" => Instr(p) = Load(0, 0, "star", "get_b")
           /\ procs[p].pc = "get_b" => Instr(p) = Load(1, 0, "star", "get_0")
           /\ procs[p].pc = "get_0" => Instr(p) = Load(2, 0, "star", "get_0")
           /\ procs[p].pc = "star" => Instr(p) = Store(0, Star, "end")
<1>1. Code[prog] = Together(ShmServer, ShmClient)
  BY CodeOf
<1> DEFINE both == Together(ShmServer, ShmClient)
<1>2. /\ both["server"] = Step("put_a")
      /\ both["put_a"] = Store(0, 1, "put_b")
      /\ both["put_b"] = Store(1, 2, "put_0")
      /\ both["put_0"] = Store(2, 0, "poll")
      /\ both["poll"] = Load(0, Star, "served", "nap")
      /\ both["nap"] = Sleep("poll")
      /\ both["served"] = Exit
  BY DEF Together, ShmServer
<1>3. /\ both["client"] = IfSeen("server", "get_a", "exit1")
      /\ both["get_a"] = Load(0, 0, "star", "get_b")
      /\ both["get_b"] = Load(1, 0, "star", "get_0")
      /\ both["get_0"] = Load(2, 0, "star", "get_0")
      /\ both["star"] = Store(0, Star, "end")
      /\ both["exit1"] = Exit /\ both["end"] = Exit
  BY DEF Together, ShmServer, ShmClient
<1> HIDE DEF both
<1> QED BY <1>1, <1>2, <1>3 DEF Instr, both

\* A load that finds its cell once in the buffer of its process.
LEMMA LoadingOwn ==
    ASSUME Shape, NEW p \in Pids, Acts(p), Instr(p).op = "load", NEW k \in DOMAIN sbuf[p],
           k \in Int, sbuf[p][k][1] = Instr(p).cell,
           \A j \in DOMAIN sbuf[p] : sbuf[p][j][1] = Instr(p).cell => j = k
    PROVE  procs'[p].pc = IF sbuf[p][k][2] = Instr(p).val THEN Instr(p).next ELSE Instr(p).other
<1> DEFINE own == {j \in DOMAIN sbuf[p] : sbuf[p][j][1] = Instr(p).cell}
           val == IF own = {} THEN shm[Instr(p).cell] ELSE sbuf[p][Max(own)][2]
           label == IF val = Instr(p).val THEN Instr(p).next ELSE Instr(p).other
<1>1. LoadCall(p)
  BY ActsByOp
<1>2. procs' = [procs EXCEPT ![p].pc = label]
  BY <1>1 DEF LoadCall, Go
<1>3. own = {k}
  OBVIOUS
<1>4. Max({k}) = k
  BY DEF Max
<1>5. val = sbuf[p][k][2]
  BY <1>3, <1>4
<1> HIDE DEF own, val
<1>6. label = IF sbuf[p][k][2] = Instr(p).val THEN Instr(p).next ELSE Instr(p).other
  BY <1>5
<1> HIDE DEF label
<1>7. procs'[p].pc = label
  BY <1>2 DEF Shape, Shaped, Fields
<1> QED BY <1>6, <1>7

\* A load that does not find its cell there.
LEMMA LoadingShared ==
    ASSUME Shape, NEW p \in Pids, Acts(p), Instr(p).op = "load",
           \A j \in DOMAIN sbuf[p] : sbuf[p][j][1] # Instr(p).cell
    PROVE  procs'[p].pc = IF shm[Instr(p).cell] = Instr(p).val THEN Instr(p).next ELSE Instr(p).other
<1> DEFINE own == {j \in DOMAIN sbuf[p] : sbuf[p][j][1] = Instr(p).cell}
           val == IF own = {} THEN shm[Instr(p).cell] ELSE sbuf[p][Max(own)][2]
           label == IF val = Instr(p).val THEN Instr(p).next ELSE Instr(p).other
<1>1. LoadCall(p)
  BY ActsByOp
<1>2. procs' = [procs EXCEPT ![p].pc = label]
  BY <1>1 DEF LoadCall, Go
<1>3. own = {}
  OBVIOUS
<1>4. val = shm[Instr(p).cell]
  BY <1>3
<1> HIDE DEF own, val
<1>5. label = IF shm[Instr(p).cell] = Instr(p).val THEN Instr(p).next ELSE Instr(p).other
  BY <1>4
<1> HIDE DEF label
<1>6. procs'[p].pc = label
  BY <1>2 DEF Shape, Shaped, Fields
<1> QED BY <1>5, <1>6

Stores == Seq(Cells \X Int)

\* The client reads once the server has made the segment.
Opened ==
    /\ "get_a" \in seen => "server" \in seen
    /\ \A p \in Pids : Running(p) =>
            procs[p].pc \in ShmLabels /\ (procs[p].pc = "get_a" => "server" \in seen)

\* No star is on its way in the buffer s, and its cell is there once.
Clear(s) ==
    /\ s \in Stores
    /\ \A k \in DOMAIN s : s[k][2] # Star
    /\ \A j, k \in DOMAIN s : s[j][1] = 0 /\ s[k][1] = 0 => j = k

Starless ==
    /\ "served" \notin seen
    /\ shm = [c \in Cells |-> shm[c]] /\ shm[0] # Star
    /\ sbuf = [p \in Pids |-> sbuf[p]]
    /\ \A p \in Pids :
        /\ Clear(sbuf[p])
        /\ Running(p) => /\ procs[p].pc # "served"
                         /\ procs[p].pc \in {"server", "put_a"} => sbuf[p] = <<>>

ShmOK ==
    prog = "shm" => Opened /\ ("star" \notin seen => Starless)

LEMMA ClearAppend ==
    ASSUME NEW s, Clear(s), NEW c \in Cells, NEW v \in Int, v # Star, c # 0 \/ s = <<>>
    PROVE  Clear(Append(s, <<c, v>>))
<1>1. s \in Stores /\ <<c, v>> \in Cells \X Int
  BY DEF Clear
<1> DEFINE t == Append(s, <<c, v>>)
<1>2. t \in Stores /\ DOMAIN t = 1..(Len(s) + 1) /\ t[Len(s) + 1] = <<c, v>>
      /\ \A k \in DOMAIN s : t[k] = s[k]
  BY <1>1 DEF Stores
<1>3. DOMAIN s = 1..Len(s) /\ Len(s) \in Nat
  BY <1>1 DEF Stores
<1> HIDE DEF t
<1>4. \A k \in DOMAIN t : k \in DOMAIN s \/ k = Len(s) + 1
  BY <1>2, <1>3
<1>5. \A k \in DOMAIN t : t[k][2] # Star
  BY <1>2, <1>4 DEF Clear
<1>6. ASSUME NEW j \in DOMAIN t, NEW k \in DOMAIN t, t[j][1] = 0, t[k][1] = 0 PROVE j = k
  <2>1. CASE s = <<>>
    <3>1. Len(s) = 0
      BY <2>1
    <3> QED BY <1>2, <3>1
  <2>2. CASE c # 0
    <3>1. j # Len(s) + 1 /\ k # Len(s) + 1
      BY <1>2, <1>6, <2>2
    <3> QED BY <1>2, <1>4, <1>6, <3>1 DEF Clear
  <2> QED BY <2>1, <2>2
<1> QED BY <1>2, <1>5, <1>6 DEF Clear, t

LEMMA ClearTail ==
    ASSUME NEW s, Clear(s), s # <<>>
    PROVE  Clear(Tail(s)) /\ Head(s)[1] \in Cells /\ Head(s)[2] # Star
<1>1. s \in Stores /\ DOMAIN s = 1..Len(s) /\ Len(s) \in Nat /\ Len(s) # 0
  BY DEF Clear, Stores
<1> DEFINE t == Tail(s)
<1>2. t \in Stores /\ Len(t) = Len(s) - 1 /\ DOMAIN t = 1..Len(t)
      /\ \A k \in 1..Len(t) : t[k] = s[k + 1]
  BY <1>1 DEF Stores
<1>3. \A k \in DOMAIN t : k + 1 \in DOMAIN s
  BY <1>1, <1>2
<1>4. Head(s) = s[1] /\ 1 \in DOMAIN s /\ s[1] \in Cells \X Int
  BY <1>1 DEF Stores
<1> HIDE DEF t
<1>5. \A k \in DOMAIN t : t[k][2] # Star
  BY <1>2, <1>3 DEF Clear
<1>6. ASSUME NEW j \in DOMAIN t, NEW k \in DOMAIN t, t[j][1] = 0, t[k][1] = 0 PROVE j = k
  <2>1. j + 1 = k + 1
    BY <1>2, <1>3, <1>6 DEF Clear
  <2> QED BY <1>1, <1>2, <2>1
<1>7. Clear(t)
  BY <1>2, <1>5, <1>6 DEF Clear
<1> QED BY <1>4, <1>7 DEF Clear, t

\* Where the calls of the two programs lead.
LEMMA ShmMoves ==
    ASSUME ProcTypeOK, NoChld, prog = "shm", NEW p \in Pids, Acts(p), procs[p].pc \in ShmLabels
    PROVE  /\ seen' = seen \/ Marked(p)
           /\ procs[p].pc = "star" => "star" \in seen'
           /\ \A q \in Pids \ {p} : Running(q)' => Running(q) /\ procs'[q].pc = procs[q].pc
           /\ Running(p)' =>
                /\ procs'[p].pc \in ShmLabels
                /\ procs'[p].pc = "get_a" => "server" \in seen
                /\ procs'[p].pc = "served" => procs[p].pc = "poll"
                /\ procs'[p].pc \in {"server", "put_a"} => procs[p].pc = "server"
           /\ IF procs[p].pc \in {"put_a", "put_b", "put_0", "star"}
              THEN /\ shm' = shm
                   /\ sbuf' = [sbuf EXCEPT ![p] = Append(@, <<Instr(p).cell, Instr(p).val>>)]
              ELSE shm' = shm /\ sbuf' = sbuf
<1>1. Shape /\ procs[p].ppid # p
  BY DEF ProcTypeOK, Placed
<1>2. ASSUME NEW F, Changes(p, F)
      PROVE  \A q \in Pids \ {p} : Running(q)' => Running(q) /\ procs'[q].pc = procs[q].pc
  BY <1>2 DEF Changes, Others, Running
<1>3. CASE procs[p].pc = "server"
  <2>1. Instr(p).op = "step" /\ Instr(p).next = "put_a"
    BY <1>3, ShmCode DEF Step
  <2>2. Calm /\ Marked(p) /\ Changes(p, {"pc"}) /\ procs'[p].pc = "put_a"
    BY <1>1, <2>1, Computing
  <2> QED BY <1>2, <1>3, <2>2 DEF Calm, memory, ShmLabels
<1>4. CASE procs[p].pc \in {"put_a", "put_b", "put_0", "star"}
  <2>1. Instr(p).op = "store" /\ Instr(p).next \in {"put_b", "put_0", "poll", "end"}
    BY <1>4, ShmCode DEF Store
  <2>2. /\ shm' = shm /\ Marked(p) /\ Changes(p, {"pc"})
        /\ procs'[p].pc \in {"put_b", "put_0", "poll", "end"}
        /\ sbuf' = [sbuf EXCEPT ![p] = Append(@, <<Instr(p).cell, Instr(p).val>>)]
    BY <1>1, <2>1, Storing
  <2>3. procs[p].pc = "star" => "star" \in seen'
    BY <2>2 DEF Marked
  <2> QED BY <1>2, <1>4, <2>2, <2>3 DEF ShmLabels
<1>5. CASE procs[p].pc \in {"poll", "get_a", "get_b", "get_0"}
  <2>1. /\ Instr(p).op = "load"
        /\ {Instr(p).next, Instr(p).other} \subseteq {"served", "nap", "star", "get_b", "get_0"}
        /\ Instr(p).next = "served" => procs[p].pc = "poll"
        /\ Instr(p).other # "served"
    BY <1>5, ShmCode DEF Load
  <2>2. /\ shm' = shm /\ sbuf' = sbuf /\ Marked(p) /\ Changes(p, {"pc"})
        /\ procs'[p].pc \in {Instr(p).next, Instr(p).other}
    BY <1>1, <2>1, Loading
  <2> QED BY <1>2, <1>5, <2>1, <2>2 DEF ShmLabels
<1>6. CASE procs[p].pc = "nap"
  <2>1. Instr(p).op = "sleep" /\ Instr(p).next = "poll"
    BY <1>6, ShmCode DEF Sleep
  <2>2. shm' = shm /\ sbuf' = sbuf
    BY <1>1, <2>1, Sleeping DEF memory
  <2>3. \/ seen' = seen /\ Changes(p, {"asleep"})
        \/ Marked(p) /\ Changes(p, {"asleep", "pc"}) /\ procs'[p].pc = "poll"
    BY <1>1, <2>1, Sleeping
  <2>4. procs'[p].pc \in {"nap", "poll"}
    BY <1>6, <2>3 DEF Changes, Keeps, Fields
  <2> QED BY <1>2, <1>6, <2>2, <2>3, <2>4 DEF ShmLabels
<1>7. CASE procs[p].pc = "client"
  <2>1. /\ Instr(p).op = "passed" /\ Instr(p).next = "get_a" /\ Instr(p).other = "exit1"
        /\ Instr(p).label = "server"
    BY <1>7, ShmCode DEF IfSeen
  <2>2. /\ Calm /\ Marked(p) /\ Changes(p, {"pc"})
        /\ procs'[p].pc = IF "server" \in seen THEN "get_a" ELSE "exit1"
    BY <1>1, <2>1, Computing
  <2> QED BY <1>2, <1>7, <2>2 DEF Calm, memory, ShmLabels
<1>8. CASE procs[p].pc \in {"served", "exit1", "end"}
  <2>1. Instr(p).op = "exit"
    BY <1>8, ShmCode DEF Exit
  <2>2. Calm /\ Marked(p) /\ Death(p, 0)
    BY <1>1, <2>1, Ending
  <2>3. ~ Running(p)'
    BY <2>2 DEF Death, Running
  <2>4. ASSUME NEW q \in Pids \ {p}, Running(q)'
        PROVE  Running(q) /\ procs'[q].pc = procs[q].pc
    <3>1. ~ (procs[q].ppid = p /\ procs[q].st # "run")
      BY <2>2, <2>4 DEF Death, Running
    <3>2. procs'[q].st = procs[q].st /\ procs'[q].pc = procs[q].pc
      BY <2>2, <3>1 DEF Death, Keeps, Fields
    <3> QED BY <2>4, <3>2 DEF Running
  <2> QED BY <1>8, <2>2, <2>3, <2>4 DEF Calm, memory
<1> QED BY <1>3, <1>4, <1>5, <1>6, <1>7, <1>8 DEF ShmLabels

\* The server that finds the star.
LEMMA NoStarFound ==
    ASSUME ProcTypeOK, prog = "shm", Starless, NEW p \in Pids, Acts(p), procs[p].pc = "poll"
    PROVE  procs'[p].pc = "nap"
<1>1. Shape /\ Instr(p).op = "load" /\ Instr(p).cell = 0 /\ Instr(p).val = Star
      /\ Instr(p).other = "nap"
  BY ShmCode DEF ProcTypeOK, Load
<1>2. Clear(sbuf[p]) /\ shm[0] # Star
  BY DEF Starless
<1>3. CASE \E k \in DOMAIN sbuf[p] : sbuf[p][k][1] = 0
  <2>1. PICK k \in DOMAIN sbuf[p] : sbuf[p][k][1] = 0
    BY <1>3
  <2>2. k \in Int /\ sbuf[p][k][2] # Star
    BY <1>2 DEF Clear, Stores
  <2>3. \A j \in DOMAIN sbuf[p] : sbuf[p][j][1] = Instr(p).cell => j = k
    BY <1>1, <1>2, <2>1 DEF Clear
  <2> QED BY <1>1, <2>1, <2>2, <2>3, LoadingOwn
<1>4. CASE \A k \in DOMAIN sbuf[p] : sbuf[p][k][1] # 0
  BY <1>1, <1>2, <1>4, LoadingShared
<1> QED BY <1>3, <1>4

LEMMA StarlessActs ==
    ASSUME ProcTypeOK, NoChld, prog = "shm", Opened, Starless, NEW p \in Pids, Acts(p),
           "star" \notin seen'
    PROVE  Starless'
<1>1. Running(p) /\ procs[p].pc \in ShmLabels /\ procs[p].pc # "served"
  BY ActsByOp DEF Opened, Starless
<1> DEFINE stores == procs[p].pc \in {"put_a", "put_b", "put_0", "star"}
<1>2. /\ seen' = seen \/ Marked(p)
      /\ procs[p].pc # "star" /\ shm' = shm
      /\ \A q \in Pids \ {p} : Running(q)' => Running(q) /\ procs'[q].pc = procs[q].pc
      /\ Running(p)' => /\ procs'[p].pc # "served"
                        /\ procs'[p].pc \in {"server", "put_a"} => procs[p].pc = "server"
      /\ stores => sbuf' = [sbuf EXCEPT ![p] = Append(@, <<Instr(p).cell, Instr(p).val>>)]
      /\ ~ stores => sbuf' = sbuf
  BY <1>1, ShmMoves, NoStarFound
<1>3. "served" \notin seen'
  BY <1>1, <1>2 DEF Starless, Marked
<1>4. Clear(sbuf[p]) /\ (procs[p].pc \in {"server", "put_a"} => sbuf[p] = <<>>)
      /\ sbuf = [q \in Pids |-> sbuf[q]]
  BY <1>1 DEF Starless
<1>5. /\ Clear(sbuf'[p]) /\ (procs[p].pc = "server" => sbuf'[p] = <<>>)
      /\ sbuf' = [q \in Pids |-> sbuf'[q]] /\ \A q \in Pids \ {p} : sbuf'[q] = sbuf[q]
  <2>1. CASE stores
    <3>1. Instr(p) \in {Store(0, 1, "put_b"), Store(1, 2, "put_0"), Store(2, 0, "poll")}
          /\ (Instr(p) = Store(0, 1, "put_b") => procs[p].pc = "put_a")
      BY <1>2, <2>1, ShmCode DEF Store
    <3>2. Instr(p).cell \in Cells /\ Instr(p).val \in Int /\ Instr(p).val # Star
      BY <3>1 DEF Store, Cells, Star
    <3>3. Instr(p).cell # 0 \/ sbuf[p] = <<>>
      BY <1>4, <3>1 DEF Store
    <3>4. Clear(Append(sbuf[p], <<Instr(p).cell, Instr(p).val>>))
      BY <1>4, <3>2, <3>3, ClearAppend
    <3> QED BY <1>2, <1>4, <2>1, <3>4
  <2>2. CASE ~ stores
    BY <1>2, <1>4, <2>2
  <2> QED BY <2>1, <2>2
<1>6. shm' = [c \in Cells |-> shm'[c]] /\ shm'[0] # Star
  BY <1>2 DEF Starless
<1>7. ASSUME NEW q \in Pids
      PROVE  /\ Clear(sbuf'[q])
             /\ Running(q)' => /\ procs'[q].pc # "served"
                               /\ procs'[q].pc \in {"server", "put_a"} => sbuf'[q] = <<>>
  <2>1. CASE q = p
    BY <1>2, <1>5, <2>1
  <2>2. CASE q # p
    BY <1>2, <1>5, <2>2 DEF Starless
  <2> QED BY <2>1, <2>2
<1> QED BY <1>3, <1>5, <1>6, <1>7 DEF Starless, Clear, Stores, Cells, Pids

LEMMA OpenedActs ==
    ASSUME ProcTypeOK, NoChld, prog = "shm", Opened, NEW p \in Pids, Acts(p)
    PROVE  Opened'
<1>1. Running(p) /\ procs[p].pc \in ShmLabels /\ (procs[p].pc = "get_a" => "server" \in seen)
  BY ActsByOp DEF Opened
<1>2. /\ seen' = seen \/ Marked(p)
      /\ \A q \in Pids \ {p} : Running(q)' => Running(q) /\ procs'[q].pc = procs[q].pc
      /\ Running(p)' => procs'[p].pc \in ShmLabels /\ (procs'[p].pc = "get_a" => "server" \in seen)
  BY <1>1, ShmMoves
<1>3. seen \subseteq seen' /\ ("get_a" \in seen' => "server" \in seen)
  BY <1>1, <1>2 DEF Marked, Opened
<1>4. ASSUME NEW q \in Pids, Running(q)'
      PROVE  procs'[q].pc \in ShmLabels /\ (procs'[q].pc = "get_a" => "server" \in seen')
  <2>1. CASE q = p
    BY <1>2, <1>3, <1>4, <2>1
  <2>2. CASE q # p
    BY <1>2, <1>3, <1>4, <2>2 DEF Opened
  <2> QED BY <2>1, <2>2
<1> QED BY <1>3, <1>4 DEF Opened, Pids

\* A store reaches the memory.
LEMMA StarlessDrains ==
    ASSUME Starless, NEW p \in Pids, Drain(p) PROVE Starless'
<1>1. /\ sbuf[p] # <<>> /\ procs' = procs /\ seen' = seen
      /\ shm' = [shm EXCEPT ![Head(sbuf[p])[1]] = Head(sbuf[p])[2]]
      /\ sbuf' = [sbuf EXCEPT ![p] = Tail(@)]
  BY DEF Drain
<1>2. /\ Clear(Tail(sbuf[p])) /\ Head(sbuf[p])[1] \in Cells /\ Head(sbuf[p])[2] # Star
      /\ sbuf = [q \in Pids |-> sbuf[q]] /\ shm = [c \in Cells |-> shm[c]] /\ shm[0] # Star
  BY <1>1, ClearTail DEF Starless
<1>3. shm' = [c \in Cells |-> shm'[c]] /\ shm'[0] # Star
  BY <1>1, <1>2
<1>4. /\ sbuf' = [q \in Pids |-> sbuf'[q]] /\ sbuf'[p] = Tail(sbuf[p])
      /\ \A q \in Pids \ {p} : sbuf'[q] = sbuf[q]
  BY <1>1, <1>2
<1>5. ASSUME NEW q \in Pids
      PROVE  /\ Clear(sbuf'[q])
             /\ Running(q)' => /\ procs'[q].pc # "served"
                               /\ procs'[q].pc \in {"server", "put_a"} => sbuf'[q] = <<>>
  <2>1. CASE q = p
    BY <1>1, <1>2, <1>4, <2>1 DEF Starless, Running
  <2>2. CASE q # p
    BY <1>1, <1>4, <2>2 DEF Starless, Running
  <2> QED BY <2>1, <2>2
<1>6. "served" \notin seen'
  BY <1>1 DEF Starless
<1> QED BY <1>3, <1>4, <1>5, <1>6 DEF Starless, Clear, Stores, Cells, Pids

LEMMA ShmStep ==
    ASSUME ProcTypeOK, SilentOK, ShmOK, [ProcNext]_procVars PROVE ShmOK'
<1>1. prog' = prog /\ seen \subseteq seen'
  BY ProgStays
<1> SUFFICES ASSUME prog = "shm"
             PROVE  Opened' /\ ("star" \notin seen' => Starless')
  BY <1>1 DEF ShmOK
<1>2. Opened /\ ("star" \notin seen' => Starless) /\ prog \in Silent
  BY <1>1 DEF ShmOK, Silent
<1>3. ASSUME NEW p \in Pids, Proceed(p) PROVE Opened' /\ ("star" \notin seen' => Starless')
  <2>1. Acts(p) /\ NoChld
    BY <1>2, <1>3, SilentActs
  <2> QED BY <1>2, <2>1, OpenedActs, StarlessActs
<1>4. ASSUME procs' = procs, seen' = seen PROVE Opened'
  BY <1>2, <1>4 DEF Opened, Running, Pids
<1>5. ASSUME NEW p \in Pids, Drain(p) PROVE Opened' /\ ("star" \notin seen' => Starless')
  <2>1. procs' = procs /\ seen' = seen
    BY <1>5 DEF Drain
  <2> QED BY <1>2, <1>4, <1>5, <2>1, StarlessDrains
<1>6. CASE UNCHANGED procVars
  <2>1. procs' = procs /\ seen' = seen /\ shm' = shm /\ sbuf' = sbuf
    BY <1>6 DEF procVars, memory
  <2>2. ASSUME Starless PROVE Starless'
    BY <2>1, <2>2 DEF Starless, Clear, Stores, Cells, Pids, Running
  <2> QED BY <1>2, <1>4, <2>1, <2>2
<1>7. ~ CtrlC /\ \A p \in Pids : ~ AcceptCall(p)
  BY OnlyPoolAccepts DEF CtrlC
<1> QED BY <1>3, <1>5, <1>6, <1>7 DEF ProcNext

LEMMA ShmInit == ProcInit => ShmOK
<1> SUFFICES ASSUME ProcInit, prog = "shm" PROVE Opened /\ Starless
  BY DEF ShmOK
<1>1. /\ seen = {} /\ Entries(prog) = <<"server", "client">>
      /\ shm = [c \in Cells |-> 0] /\ sbuf = [p \in Pids |-> <<>>]
  BY DEF ProcInit, Entries
<1>2. ASSUME NEW p \in Pids, Running(p) PROVE procs[p].pc \in {"server", "client"}
  <2>1. CASE p \in {1, 2}
    BY <1>1, <2>1, StartsAt
  <2>2. CASE p \notin {1, 2}
    <3>1. procs[p] = Unborn
      BY <1>1, <2>2, StartsAt
    <3> QED BY <1>2, <3>1 DEF Running, Unborn
  <2> QED BY <2>1, <2>2
<1>3. Opened
  BY <1>1, <1>2 DEF Opened, ShmLabels
<1>4. Clear(<<>>)
  BY EmptySeq DEF Clear, Stores
<1>5. \A p \in Pids : Clear(sbuf[p])
  BY <1>1, <1>4
<1> QED BY <1>1, <1>2, <1>3, <1>5 DEF Starless, Cells, Star

-----------------------------------------------------------------------------
(* mask.c: one process, whose two signals wait until it unblocks them, and *)
(* which may enter the handler of the second from the handler of the first.*)

LEMMA MaskCode ==
    ASSUME prog = "mask", NEW p \in Pids
    PROVE  /\ procs[p].pc = "main" => Instr(p) = Handle("INT", "sigint", "handle2")
           /\ procs[p].pc = "handle2" => Instr(p) = Handle("USR1", "sigusr1", "block")
           /\ procs[p].pc = "block" => Instr(p) = Block({"INT", "USR1"}, "kill1")
           /\ procs[p].pc = "kill1" => Instr(p) = WKill("self", "INT", "kill2")
           /\ procs[p].pc = "kill2" => Instr(p) = WKill("self", "USR1", "pending")
           /\ procs[p].pc = "pending" => Instr(p) = IfPending("INT", "printed", "unblock")
           /\ procs[p].pc = "printed" => Instr(p) = Step("unblock")
           /\ procs[p].pc = "unblock" => Instr(p) = Unblock({"INT", "USR1"}, "nap")
           /\ procs[p].pc = "nap" => Instr(p) = Sleep("end")
           /\ procs[p].pc \in {"sigint", "sigusr1"} => Instr(p) = Return
           /\ procs[p].pc = "end" => Instr(p) = Exit
<1>1. Code[prog] = Mask
  BY CodeOf
<1> QED BY <1>1 DEF Instr, Mask

Two == {"INT", "USR1"}
Name(sig) == IF sig = "INT" THEN "sigint" ELSE "sigusr1"

\* Until it unblocks them: the label says what it has blocked and sent.
Held ==
    LET r == procs[1] IN
    /\ r.frames = <<>> /\ ~ r.asleep
    /\ {"sigint", "sigusr1", "nap", "unblock"} \cap seen = {}
    /\ r.pc \in {"main", "handle2", "block", "kill1", "kill2", "pending", "printed", "unblock"}
    /\ r.mask = IF r.pc \in {"main", "handle2", "block"} THEN {} ELSE Two
    /\ r.pend = IF r.pc \in {"main", "handle2", "block", "kill1"} THEN {}
                ELSE IF r.pc = "kill2" THEN {"INT"} ELSE Two
    /\ r.pc # "main" => r.hand["INT"] = "sigint"
    /\ r.pc \notin {"main", "handle2"} => r.hand["USR1"] = "sigusr1"
    /\ r.pc = "unblock" => "printed" \in seen

\* In no handler, in the handler of sig, or in that of the other signal over it.
Flat == procs[1].frames = <<>> /\ procs[1].mask = {} /\ procs[1].pc \in {"nap", "end"}
Base == [pc |-> "nap", mask |-> {}]
In(sig) ==
    procs[1].frames = <<Base>> /\ procs[1].mask = {sig} /\ procs[1].pc = Name(sig)
Nested(sig) ==
    /\ procs[1].frames = <<Base, [pc |-> Name(sig), mask |-> {sig}]>>
    /\ procs[1].mask = Two /\ \E other \in Two \ {sig} : procs[1].pc = Name(other)

Freed ==
    LET r == procs[1] IN
    /\ {"printed", "unblock"} \subseteq seen
    /\ r.pend \subseteq Two
    /\ \A sig \in Two :
        /\ r.hand[sig] = Name(sig)
        /\ sig \in r.pend \/ sig \in r.mask \/ Name(sig) \in seen
        /\ "nap" \in seen => Name(sig) \in seen
    /\ Flat \/ \E sig \in Two : In(sig) \/ Nested(sig)
    /\ r.asleep \/ r.pc = "end" => Flat /\ r.pend = {}

MaskSafe ==
    /\ \A p \in Pids : procs[p].alarm = FALSE /\ (p > 1 => ~ Running(p))
    /\ \A pair \in Before("mask") : pair[2] \in seen => pair[1] \in seen
    /\ 1 \in Pids => ~ Running(1) \/ Held \/ Freed

MaskOK == prog = "mask" => MaskSafe

\* A step of the process, which has no child.
LEMMA MaskGoes ==
    ASSUME MaskSafe, 1 \in Pids, procs'[1].alarm = FALSE,
           \A q \in Pids \ {1} : \A f \in {"st", "alarm"} : procs'[q][f] = procs[q][f],
           \A pair \in Before("mask") : pair[2] \in seen' => pair[1] \in seen',
           ~ Running(1)' \/ Held' \/ Freed'
    PROVE  MaskSafe'
<1>1. ASSUME NEW q \in Pids PROVE procs'[q].alarm = FALSE /\ (q > 1 => ~ Running(q)')
  <2>1. CASE q = 1
    BY <2>1
  <2>2. CASE q # 1
    <3>1. procs'[q].st = procs[q].st /\ procs'[q].alarm = procs[q].alarm
      BY <2>2
    <3> QED BY <3>1 DEF MaskSafe, Running
  <2> QED BY <2>1, <2>2
<1> QED BY <1>1 DEF MaskSafe, Pids

LEMMA MaskPairs ==
    Before("mask") = {<<"unblock", "sigint">>, <<"unblock", "sigusr1">>, <<"sigint", "nap">>,
                      <<"sigusr1", "nap">>, <<"printed", "unblock">>}
  BY DEF Before

\* What is in order as long as the signals are held, and after.
LEMMA HeldInOrder ==
    ASSUME NEW S, {"sigint", "sigusr1", "nap", "unblock"} \cap S = {}
    PROVE  \A pair \in Before("mask") : pair[2] \in S => pair[1] \in S
  BY MaskPairs

LEMMA FreedInOrder ==
    ASSUME NEW S, {"printed", "unblock"} \subseteq S,
           "nap" \in S => "sigint" \in S /\ "sigusr1" \in S
    PROVE  \A pair \in Before("mask") : pair[2] \in S => pair[1] \in S
  BY MaskPairs

LEMMA HeldActs ==
    ASSUME ProcTypeOK, NoChld, prog = "mask", MaskSafe, 1 \in Pids, Acts(1), Held
    PROVE  MaskSafe'
<1> DEFINE r == procs[1]
           s == procs'[1]
<1>1. /\ Running(1) /\ Shape /\ r.alarm = FALSE /\ r.hand = [x \in Signals |-> r.hand[x]]
      /\ {"sigint", "sigusr1", "nap", "unblock"} \cap seen = {}
  BY ActsByOp DEF ProcTypeOK, MaskSafe, Held, Shape, Shaped
<1>2. ASSUME Marked(1), \A q \in Pids \ {1} : \A f \in {"st", "alarm"} : procs'[q][f] = procs[q][f],
             s.alarm = FALSE, r.pc # "unblock", Held'
      PROVE  MaskSafe'
  <2>1. {"sigint", "sigusr1", "nap", "unblock"} \cap seen' = {}
    BY <1>2 DEF Held
  <2> QED BY <1>2, <2>1, HeldInOrder, MaskGoes
<1>3. ASSUME NEW F, F \subseteq {"pc", "hand", "mask"}, Others({1}), Keeps(1, F)
      PROVE  /\ \A q \in Pids \ {1} : \A f \in {"st", "alarm"} : procs'[q][f] = procs[q][f]
             /\ s.frames = r.frames /\ s.asleep = r.asleep /\ s.alarm = r.alarm /\ s.pend = r.pend
             /\ "hand" \notin F => s.hand = r.hand
             /\ "mask" \notin F => s.mask = r.mask
  BY <1>3 DEF Others, Keeps, Fields
<1>4. CASE r.pc = "main"
  <2>1. Instr(1).op = "handle" /\ Instr(1).next = "handle2" /\ Instr(1).label = "sigint"
        /\ Instr(1).sig = "INT"
    BY <1>4, MaskCode DEF Handle
  <2>2. Marked(1) /\ Others({1}) /\ Keeps(1, {"pc", "hand"}) /\ s.pc = "handle2"
        /\ s.hand = [r.hand EXCEPT !["INT"] = "sigint"]
    BY <1>1, <2>1, Signalling
  <2>3. s.hand["INT"] = "sigint"
    BY <1>1, <2>2 DEF Signals
  <2>4. /\ \A q \in Pids \ {1} : \A f \in {"st", "alarm"} : procs'[q][f] = procs[q][f]
        /\ s.frames = r.frames /\ s.asleep = r.asleep /\ s.alarm = r.alarm /\ s.pend = r.pend
        /\ s.mask = r.mask
    BY <2>2, <1>3
  <2>5. Held'
    BY <1>4, <2>2, <2>3, <2>4 DEF Held, Marked, Two
  <2> QED BY <1>1, <1>2, <1>4, <2>2, <2>4, <2>5
<1>5. CASE r.pc = "handle2"
  <2>1. Instr(1).op = "handle" /\ Instr(1).next = "block" /\ Instr(1).label = "sigusr1"
        /\ Instr(1).sig = "USR1"
    BY <1>5, MaskCode DEF Handle
  <2>2. Marked(1) /\ Others({1}) /\ Keeps(1, {"pc", "hand"}) /\ s.pc = "block"
        /\ s.hand = [r.hand EXCEPT !["USR1"] = "sigusr1"]
    BY <1>1, <2>1, Signalling
  <2>3. s.hand["INT"] = "sigint" /\ s.hand["USR1"] = "sigusr1"
    BY <1>1, <1>5, <2>2 DEF Signals, Held
  <2>4. /\ \A q \in Pids \ {1} : \A f \in {"st", "alarm"} : procs'[q][f] = procs[q][f]
        /\ s.frames = r.frames /\ s.asleep = r.asleep /\ s.alarm = r.alarm /\ s.pend = r.pend
        /\ s.mask = r.mask
    BY <2>2, <1>3
  <2>5. Held'
    BY <1>5, <2>2, <2>3, <2>4 DEF Held, Marked, Two
  <2> QED BY <1>1, <1>2, <1>5, <2>2, <2>4, <2>5
<1>6. CASE r.pc = "block"
  <2>1. Instr(1).op = "block" /\ Instr(1).next = "kill1" /\ Instr(1).sigs = Two
    BY <1>6, MaskCode DEF Block, Two
  <2>2. Marked(1) /\ Others({1}) /\ Keeps(1, {"pc", "mask"}) /\ s.pc = "kill1"
        /\ s.mask = r.mask \cup Two
    BY <1>1, <2>1, Signalling
  <2>3. /\ \A q \in Pids \ {1} : \A f \in {"st", "alarm"} : procs'[q][f] = procs[q][f]
        /\ s.frames = r.frames /\ s.asleep = r.asleep /\ s.alarm = r.alarm /\ s.pend = r.pend
        /\ s.hand = r.hand
    BY <2>2, <1>3
  <2>4. s.mask = Two
    BY <1>6, <2>2 DEF Held
  <2>5. Held'
    BY <1>6, <2>2, <2>3, <2>4 DEF Held, Marked
  <2> QED BY <1>1, <1>2, <1>6, <2>2, <2>3, <2>5
<1>7. CASE r.pc \in {"kill1", "kill2"}
  <2> DEFINE sig == IF r.pc = "kill1" THEN "INT" ELSE "USR1"
             next == IF r.pc = "kill1" THEN "kill2" ELSE "pending"
  <2>1. /\ Instr(1).op = "kill" /\ Instr(1).sig = sig /\ Instr(1).whom = "self"
        /\ Instr(1).next = next /\ sig # "CHLD"
    BY <1>7, MaskCode DEF WKill, Kill
  <2>2. Target(1) = {1} /\ procs[1].st = "run"
    BY <1>1, <2>1 DEF Target, Running
  <2>3. /\ Marked(1) /\ Keeps(1, {"pc", "pend"}) /\ \A q \in Pids \ {1} : Keeps(q, {"pend"})
        /\ s.pc = next /\ s.pend = r.pend \cup {sig}
    BY <1>1, <2>1, <2>2, Killing
  <2>4. /\ s.frames = r.frames /\ s.asleep = r.asleep /\ s.alarm = r.alarm /\ s.hand = r.hand
        /\ s.mask = r.mask
        /\ \A q \in Pids \ {1} : \A f \in {"st", "alarm"} : procs'[q][f] = procs[q][f]
    BY <2>3 DEF Keeps, Fields
  <2>5. s.pend = IF s.pc = "kill2" THEN {"INT"} ELSE Two
    BY <1>7, <2>3 DEF Held, Two
  <2>6. Held'
    BY <1>7, <2>3, <2>4, <2>5 DEF Held, Marked
  <2> QED BY <1>1, <1>2, <1>7, <2>3, <2>4, <2>6
<1>8. CASE r.pc = "pending"
  <2>1. Instr(1).op = "pending" /\ Instr(1).next = "printed" /\ Instr(1).sig = "INT"
    BY <1>8, MaskCode DEF IfPending
  <2>2. "INT" \in r.pend
    BY <1>8 DEF Held, Two
  <2>3. Marked(1) /\ Others({1}) /\ Keeps(1, {"pc"}) /\ s.pc = "printed"
    BY <1>1, <2>1, <2>2, Signalling
  <2>4. /\ \A q \in Pids \ {1} : \A f \in {"st", "alarm"} : procs'[q][f] = procs[q][f]
        /\ s.frames = r.frames /\ s.asleep = r.asleep /\ s.alarm = r.alarm /\ s.pend = r.pend
        /\ s.hand = r.hand /\ s.mask = r.mask
    BY <2>3, <1>3
  <2>5. Held'
    BY <1>8, <2>3, <2>4 DEF Held, Marked
  <2> QED BY <1>1, <1>2, <1>8, <2>3, <2>4, <2>5
<1>9. CASE r.pc = "printed"
  <2>1. Instr(1).op = "step" /\ Instr(1).next = "unblock"
    BY <1>9, MaskCode DEF Step
  <2>2. Marked(1) /\ Others({1}) /\ Keeps(1, {"pc"}) /\ s.pc = "unblock"
    BY <1>1, <2>1, Computing DEF Changes
  <2>3. /\ \A q \in Pids \ {1} : \A f \in {"st", "alarm"} : procs'[q][f] = procs[q][f]
        /\ s.frames = r.frames /\ s.asleep = r.asleep /\ s.alarm = r.alarm /\ s.pend = r.pend
        /\ s.hand = r.hand /\ s.mask = r.mask
    BY <2>2, <1>3
  <2>4. Held'
    BY <1>9, <2>2, <2>3 DEF Held, Marked
  <2> QED BY <1>1, <1>2, <1>9, <2>2, <2>3, <2>4
<1>10. CASE r.pc = "unblock"
  <2>1. Instr(1).op = "unblock" /\ Instr(1).next = "nap" /\ Instr(1).sigs = Two
    BY <1>10, MaskCode DEF Unblock, Two
  <2>2. Marked(1) /\ Others({1}) /\ Keeps(1, {"pc", "mask"}) /\ s.pc = "nap"
        /\ s.mask = r.mask \ Two
    BY <1>1, <2>1, Signalling
  <2>3. /\ \A q \in Pids \ {1} : \A f \in {"st", "alarm"} : procs'[q][f] = procs[q][f]
        /\ s.frames = r.frames /\ s.asleep = r.asleep /\ s.alarm = r.alarm /\ s.pend = r.pend
        /\ s.hand = r.hand
    BY <2>2, <1>3
  <2>4. r.pend = Two /\ r.mask = Two /\ r.frames = <<>> /\ ~ r.asleep /\ "printed" \in seen
        /\ r.hand["INT"] = "sigint" /\ r.hand["USR1"] = "sigusr1" /\ "nap" \notin seen
    BY <1>10 DEF Held
  <2>5. Flat' /\ ~ s.asleep /\ s.pc # "end" /\ s.pend = Two
    BY <2>2, <2>3, <2>4 DEF Flat
  <2>6. {"printed", "unblock"} \subseteq seen' /\ "nap" \notin seen'
    BY <1>10, <2>2, <2>4 DEF Marked
  <2>7. \A sig \in Two : s.hand[sig] = Name(sig)
    BY <2>3, <2>4 DEF Two, Name
  <2>8. Freed'
    BY <2>5, <2>6, <2>7 DEF Freed, Two, Name
  <2>9. \A pair \in Before("mask") : pair[2] \in seen' => pair[1] \in seen'
    BY <2>6, FreedInOrder
  <2> QED BY <1>1, <2>3, <2>8, <2>9, MaskGoes
<1> QED BY <1>4, <1>5, <1>6, <1>7, <1>8, <1>9, <1>10 DEF Held

\* The handler that ends gives back what it has interrupted.
LEMMA PoppedFrames ==
    ASSUME NEW a, NEW b
    PROVE  /\ Last(<<a>>) = a /\ Front(<<a>>) = <<>>
           /\ Last(<<a, b>>) = b /\ Front(<<a, b>>) = <<a>>
<1> DEFINE one == <<a>>
           two == <<a, b>>
           S == {a, b}
<1>1. Last(one) = a /\ Front(one) = <<>> /\ Last(two) = b
  BY DEF Last, Front
<1>2. Front(two) = SubSeq(two, 1, 1)
  BY DEF Front
<1>3. one \in Seq(S) /\ Len(one) = 1 /\ one[1] = a /\ two \in Seq(S) /\ Len(two) = 2 /\ two[1] = a
  OBVIOUS
<1> HIDE DEF one, two, S
<1>4. \A i \in 1..1 : two[i] \in S
  BY <1>3, ElementOfSeq
<1>5. /\ SubSeq(two, 1, 1) \in Seq(S) /\ Len(SubSeq(two, 1, 1)) = 1
      /\ SubSeq(two, 1, 1)[1] = two[1]
  BY <1>3, <1>4, SubSeqProperties
<1>6. SubSeq(two, 1, 1) = one
  BY <1>3, <1>5, SeqEqual
<1> QED BY <1>1, <1>2, <1>6 DEF one, two

LEMMA FreedActs ==
    ASSUME ProcTypeOK, NoChld, prog = "mask", MaskSafe, 1 \in Pids, Acts(1), Freed
    PROVE  MaskSafe'
<1> DEFINE r == procs[1]
           s == procs'[1]
<1>1. Running(1) /\ Shape /\ r.alarm = FALSE /\ r.ppid # 1
  BY ActsByOp DEF ProcTypeOK, Placed, MaskSafe
<1>2. ASSUME seen' = seen \/ Marked(1), r.pc = "nap" => seen' = seen \/ \A sig \in Two : Name(sig) \in seen
      PROVE  /\ seen \subseteq seen' /\ {"printed", "unblock"} \subseteq seen'
             /\ "nap" \in seen' => \A sig \in Two : Name(sig) \in seen'
             /\ \A pair \in Before("mask") : pair[2] \in seen' => pair[1] \in seen'
  <2>1. seen \subseteq seen' /\ {"printed", "unblock"} \subseteq seen'
    BY <1>2 DEF Freed, Marked
  <2>2. "nap" \in seen' => \A sig \in Two : Name(sig) \in seen
    BY <1>2 DEF Freed, Marked
  <2>3. "nap" \in seen' => "sigint" \in seen' /\ "sigusr1" \in seen'
    BY <2>1, <2>2 DEF Two, Name
  <2> QED BY <2>1, <2>2, <2>3, FreedInOrder
<1>3. CASE r.pc = "nap"
  <2>1. Instr(1).op = "sleep" /\ Instr(1).next = "end"
    BY <1>3, MaskCode DEF Sleep
  <2>2. Flat
    BY <1>3 DEF Freed, In, Nested, Two, Name
  <2>3. r.pend = {}
    <3>1. Deliverable(1) = {} /\ Blocked(1) = {}
      BY <2>1, <2>2, ActsByOp DEF Blocked, Flat
    <3> QED BY <3>1 DEF Deliverable
  <2>4. \A sig \in Two : Name(sig) \in seen /\ r.hand[sig] = Name(sig)
    BY <2>2, <2>3 DEF Freed, Flat
  <2>5. /\ seen' = seen \/ Marked(1)
        /\ Changes(1, {"asleep", "pc"}) /\ s.pc \in {"nap", "end"}
    <3>1. \/ seen' = seen /\ Changes(1, {"asleep"})
          \/ Marked(1) /\ Changes(1, {"asleep", "pc"}) /\ s.pc = "end"
      BY <1>1, <2>1, Sleeping
    <3> QED BY <1>3, <3>1 DEF Changes, Keeps, Fields
  <2>6. /\ \A q \in Pids \ {1} : \A f \in {"st", "alarm"} : procs'[q][f] = procs[q][f]
        /\ s.frames = r.frames /\ s.alarm = r.alarm /\ s.pend = r.pend
        /\ s.hand = r.hand /\ s.mask = r.mask
    BY <2>5 DEF Changes, Others, Keeps, Fields
  <2>7. Flat'
    BY <2>2, <2>5, <2>6 DEF Flat
  <2>8. /\ seen \subseteq seen' /\ {"printed", "unblock"} \subseteq seen'
        /\ \A pair \in Before("mask") : pair[2] \in seen' => pair[1] \in seen'
    BY <1>2, <2>4, <2>5
  <2>9. Freed'
    BY <2>3, <2>4, <2>6, <2>7, <2>8 DEF Freed, Two, Name
  <2> QED BY <1>1, <2>6, <2>8, <2>9, MaskGoes
<1>4. CASE r.pc = "end"
  <2>1. Instr(1).op = "exit"
    BY <1>4, MaskCode DEF Exit
  <2>2. Marked(1) /\ Death(1, 0)
    BY <1>1, <2>1, Ending
  <2>3. s.st # "run" /\ s.alarm = FALSE
    BY <2>2 DEF Death, Fields, Unborn
  <2>4. ASSUME NEW q \in Pids \ {1} PROVE procs'[q].alarm = FALSE /\ procs'[q].st # "run"
    <3>1. procs[q].st # "run" /\ procs[q].alarm = FALSE
      BY DEF MaskSafe, Running, Pids
    <3>2. procs'[q] = procs[q] \/ (procs'[q].st = "gone" /\ procs'[q].alarm = Unborn.alarm)
      BY <2>2, <3>1 DEF Death, Fields
    <3> QED BY <3>1, <3>2 DEF Unborn
  <2>5. \A pair \in Before("mask") : pair[2] \in seen' => pair[1] \in seen'
    BY <1>2, <1>4, <2>2
  <2> QED BY <2>3, <2>4, <2>5 DEF MaskSafe, Running, Pids
<1>5. CASE r.pc \in {"sigint", "sigusr1"}
  <2>1. Instr(1).op = "return"
    BY <1>5, MaskCode DEF Return
  <2>2. /\ Marked(1) /\ Changes(1, {"pc", "mask", "frames"})
        /\ s.pc = Last(r.frames).pc /\ s.mask = Last(r.frames).mask
        /\ s.frames = Front(r.frames)
    BY <1>1, <2>1, Returning
  <2>3. /\ \A q \in Pids \ {1} : \A f \in {"st", "alarm"} : procs'[q][f] = procs[q][f]
        /\ s.asleep = r.asleep /\ s.alarm = r.alarm /\ s.pend = r.pend /\ s.hand = r.hand
    BY <2>2 DEF Changes, Others, Keeps, Fields
  <2>4. /\ seen \subseteq seen' /\ {"printed", "unblock"} \subseteq seen' /\ r.pc \in seen'
        /\ "nap" \in seen' => \A sig \in Two : Name(sig) \in seen'
        /\ \A pair \in Before("mask") : pair[2] \in seen' => pair[1] \in seen'
    BY <1>2, <1>5, <2>2 DEF Marked
  <2>5. ~ r.asleep /\ r.pend \subseteq Two /\ \A sig \in Two : r.hand[sig] = Name(sig)
    BY <1>5 DEF Freed, Flat
  <2>6. ASSUME NEW sig \in Two, In(sig) PROVE Freed'
    <3>1. s.frames = <<>> /\ s.pc = "nap" /\ s.mask = {} /\ Flat'
      <4>1. Last(<<Base>>) = Base /\ Front(<<Base>>) = <<>>
        BY PoppedFrames
      <4> QED BY <2>2, <2>6, <4>1 DEF In, Base, Flat
    <3>2. \A x \in Two : x \in s.pend \/ Name(x) \in seen'
      BY <2>3, <2>4, <2>6 DEF Freed, In
    <3> QED BY <2>3, <2>4, <2>5, <3>1, <3>2 DEF Freed, Two, Name
  <2>7. ASSUME NEW sig \in Two, Nested(sig) PROVE Freed'
    <3> DEFINE frame == [pc |-> Name(sig), mask |-> {sig}]
    <3>1. Last(<<Base, frame>>) = frame /\ Front(<<Base, frame>>) = <<Base>>
      BY PoppedFrames
    <3>2. r.frames = <<Base, frame>> /\ r.mask = Two /\ \E x \in Two \ {sig} : r.pc = Name(x)
      BY <2>7 DEF Nested
    <3>3. s.frames = <<Base>> /\ s.pc = frame.pc /\ s.mask = frame.mask
      BY <2>2, <3>1, <3>2
    <3>4. s.pc = Name(sig) /\ s.mask = {sig}
      BY <3>3
    <3>5. In(sig)' /\ s.pc # "end"
      BY <3>3, <3>4 DEF In, Base, Name, Two
    <3>6. \A x \in Two : x \in s.pend \/ x \in s.mask \/ Name(x) \in seen'
      BY <2>3, <2>4, <3>2, <3>4 DEF Freed, Two
    <3> HIDE DEF frame
    <3>7. /\ {"printed", "unblock"} \subseteq seen' /\ s.pend \subseteq Two /\ ~ s.asleep
          /\ \A x \in Two : s.hand[x] = Name(x) /\ ("nap" \in seen' => Name(x) \in seen')
      BY <2>3, <2>4, <2>5
    <3> QED BY <3>5, <3>6, <3>7 DEF Freed, Two, Name
  <2>8. Freed'
    BY <1>5, <2>6, <2>7 DEF Freed, Flat
  <2> QED BY <1>1, <2>3, <2>4, <2>8, MaskGoes
<1>6. r.pc \in {"nap", "end", "sigint", "sigusr1"}
  BY DEF Freed, Flat, In, Nested, Name
<1> QED BY <1>3, <1>4, <1>5, <1>6

\* A signal enters its handler, over nothing or over the other's.
LEMMA MaskDelivers ==
    ASSUME ProcTypeOK, NoChld, prog = "mask", MaskSafe, 1 \in Pids, Deliver(1)
    PROVE  MaskSafe'
<1> DEFINE r == procs[1]
           s == procs'[1]
<1>1. Running(1) /\ Shape /\ r.ppid # 1 /\ r.alarm = FALSE /\ (Held \/ Freed) /\ seen' = seen
  BY DEF ProcTypeOK, Placed, MaskSafe, Deliver
<1>2. PICK sig \in Deliverable(1) :
        (r.hand[sig] = "default" /\ Death(1, 1)) \/ Handled(1, sig)
  BY <1>1, Delivering
<1>3. /\ sig \in r.pend /\ r.pend # {}
  BY DEF Deliverable
<1>4. ~ r.asleep
  BY <1>1, <1>3 DEF Held, Freed
<1>5. sig \notin r.mask
  BY <1>4 DEF Deliverable, Blocked
<1>6. Freed
  BY <1>1, <1>3, <1>5 DEF Held, Two
<1>7. sig \in Two /\ r.hand[sig] = Name(sig) /\ r.hand[sig] # "default"
  BY <1>3, <1>6 DEF Freed, Name
<1>8. Handled(1, sig)
  BY <1>2, <1>7
<1>9. /\ s.pc = Name(sig) /\ s.mask = r.mask \cup {sig} /\ s.pend = r.pend \ {sig}
      /\ s.asleep = FALSE
      /\ s.frames = Append(r.frames, [pc |-> r.pc, mask |-> r.mask])
  BY <1>4, <1>7, <1>8 DEF Handled
<1>10. /\ s.hand = r.hand /\ s.alarm = r.alarm
       /\ \A q \in Pids \ {1} : \A f \in {"st", "alarm"} : procs'[q][f] = procs[q][f]
  BY <1>8 DEF Handled, Changes, Others, Keeps, Fields
<1>11. ASSUME Flat PROVE In(sig)'
  <2>1. r.frames = <<>> /\ r.mask = {} /\ r.pc = "nap"
    BY <1>3, <1>6, <1>11 DEF Flat, Freed
  <2>2. s.frames = Append(<<>>, Base)
    BY <1>9, <2>1 DEF Base
  <2>3. s.frames = <<Base>> /\ s.mask = {sig}
    BY <1>9, <2>1, <2>2, Appending
  <2> QED BY <1>9, <2>3 DEF In, Base
<1>12. ASSUME NEW x \in Two, In(x) PROVE Nested(x)'
  <2>1. r.frames = <<Base>> /\ r.mask = {x} /\ r.pc = Name(x) /\ x # sig
    BY <1>5, <1>12 DEF In
  <2> DEFINE frame == [pc |-> Name(x), mask |-> {x}]
  <2>2. s.frames = Append(<<Base>>, frame) /\ s.mask = {x, sig}
    BY <1>9, <2>1
  <2>3. s.frames = <<Base, frame>>
    BY <2>2, Appending
  <2>4. s.mask = Two /\ sig \in Two \ {x}
    BY <1>7, <2>1, <2>2 DEF Two
  <2> QED BY <1>9, <2>3, <2>4 DEF Nested, Base, Name, Two
<1>13. \A x \in Two : ~ Nested(x)
  BY <1>5, <1>7 DEF Nested
<1>14. \E x \in Two : In(x)' \/ Nested(x)'
  BY <1>6, <1>7, <1>11, <1>12, <1>13 DEF Freed
<1>15. /\ s.pend \subseteq Two /\ ~ s.asleep /\ s.pc # "end" /\ {"printed", "unblock"} \subseteq seen'
       /\ \A x \in Two : /\ s.hand[x] = Name(x)
                         /\ x \in s.pend \/ x \in s.mask \/ Name(x) \in seen'
                         /\ "nap" \in seen' => Name(x) \in seen'
  BY <1>1, <1>6, <1>9, <1>10 DEF Freed, Name
<1>16. Freed'
  BY <1>14, <1>15 DEF Freed, Two, Name
<1>17. \A pair \in Before("mask") : pair[2] \in seen' => pair[1] \in seen'
  BY <1>1 DEF MaskSafe
<1> QED BY <1>1, <1>10, <1>16, <1>17, MaskGoes

LEMMA MaskStep ==
    ASSUME ProcTypeOK, SilentOK, MaskOK, [ProcNext]_procVars PROVE MaskOK'
<1>1. prog' = prog
  BY ProgStays
<1> SUFFICES ASSUME prog = "mask" PROVE MaskSafe'
  BY <1>1 DEF MaskOK
<1>2. MaskSafe /\ NoChld
  BY DEF MaskOK, SilentOK
<1>3. ASSUME NEW p \in Pids, Proceed(p) PROVE MaskSafe'
  <2>1. Running(p) /\ 1 \in Pids
    BY <1>3, ProcAssumption DEF Proceed, Pids
  <2>2. p = 1
    BY <1>2, <2>1 DEF MaskSafe, Pids
  <2>3. Held \/ Freed
    BY <1>2, <2>1, <2>2 DEF MaskSafe
  <2>4. ~ AlarmRings(1)
    BY <1>2, <2>1 DEF MaskSafe, AlarmRings
  <2>5. Acts(1) \/ Deliver(1)
    BY <1>3, <2>2, <2>4 DEF Acts
  <2> QED BY <1>2, <2>1, <2>3, <2>5, HeldActs, FreedActs, MaskDelivers
<1>4. ASSUME procs' = procs, seen' = seen PROVE MaskSafe'
  <2>1. (Held' = Held) /\ (Freed' = Freed)
    BY <1>4 DEF Held, Freed, Flat, In, Nested
  <2> QED BY <1>2, <1>4, <2>1 DEF MaskSafe, Running, Pids
<1>5. ASSUME NEW p \in Pids, Drain(p) PROVE MaskSafe'
  BY <1>4, <1>5 DEF Drain
<1>6. CASE UNCHANGED procVars
  BY <1>4, <1>6 DEF procVars
<1>7. ~ CtrlC /\ \A p \in Pids : ~ AcceptCall(p)
  BY OnlyPoolAccepts DEF CtrlC
<1> QED BY <1>3, <1>5, <1>6, <1>7 DEF ProcNext

LEMMA MaskInit == ProcInit => MaskOK
<1> SUFFICES ASSUME ProcInit, prog = "mask" PROVE MaskSafe
  BY DEF MaskOK
<1>1. seen = {} /\ Entries(prog) = <<"main">>
  BY DEF ProcInit, Entries
<1>2. ASSUME NEW p \in Pids PROVE procs[p].alarm = FALSE /\ (p > 1 => ~ Running(p))
  <2>1. procs[p].alarm = FALSE
    BY StartsWith DEF Fields, Unborn
  <2>2. ASSUME p > 1 PROVE procs[p].st = "none"
    <3>1. procs[p] = Unborn
      BY <1>1, <2>2, StartsAt
    <3> QED BY <3>1 DEF Unborn
  <2> QED BY <2>1, <2>2 DEF Running
<1>3. ASSUME 1 \in Pids PROVE Held
  <2>1. procs[1].pc = "main"
    BY <1>1, <1>3, StartsAt
  <2>2. procs[1].frames = <<>> /\ procs[1].asleep = FALSE /\ procs[1].mask = {} /\ procs[1].pend = {}
    BY <1>3, StartsWith DEF Fields, Unborn
  <2> QED BY <1>1, <2>1, <2>2 DEF Held
<1> QED BY <1>1, <1>2, <1>3 DEF MaskSafe

-----------------------------------------------------------------------------
\* In every program the calls that are to follow another do: nothing is
\* printed, read or counted before what it waits for.
THEOREM CallsInOrderHolds == ProcSpec => []CallsInOrder
<1> DEFINE IInv == /\ ProcTypeOK /\ SilentOK /\ SlowOK /\ ShmOK /\ MaskOK /\ CounterOK
                   /\ StatusOK /\ BeepOK /\ DialogueOK
<1>1. ProcInit => IInv
  BY PlacedInit, SilentInit, SlowInit, ShmInit, MaskInit, CounterInit, StatusInit, BeepInit,
     AnswerInit
<1>2. IInv /\ [ProcNext]_procVars => IInv'
  BY PlacedStep, SilentNext, SlowStep, ShmStep, MaskStep, CounterStep, StatusStep, BeepStep,
     AnswerStep
<1>3. IInv => CallsInOrder
  <2> SUFFICES ASSUME IInv, ~ failed, NEW pair \in Before(prog), pair[2] \in seen
               PROVE  pair[1] \in seen
    BY DEF CallsInOrder
  <2>1. CASE prog = "slow_write"
    <3>1. pair = <<"tell", "son">>
      BY <2>1 DEF Before
    <3> QED BY <2>1, <3>1 DEF SlowOK
  <2>2. CASE prog = "shm"
    <3>1. pair \in {<<"star", "served">>, <<"server", "get_a">>}
      BY <2>2 DEF Before
    <3> QED BY <2>2, <3>1 DEF ShmOK, Opened, Starless
  <2>3. CASE prog = "mask"
    BY <2>3 DEF MaskOK, MaskSafe
  <2>4. CASE prog = "counterprob"
    <3>1. pair = <<"handler", "print">>
      BY <2>4 DEF Before
    <3> QED BY <2>4, <3>1 DEF CounterOK, CounterSafe, CounterAlone, CounterBoth, FatherDone,
                              FatherWaits
  <2>5. CASE prog \in Large
    <3>1. pair = <<"never", Wrong>>
      BY <2>5 DEF Before, Large, Wrong
    <3> QED BY <2>5, <3>1 DEF StatusOK, ReadsRight
  <2>6. CASE prog = "alarm"
    <3>1. pair = <<"Handler", "bye">>
      BY <2>6 DEF Before
    <3> QED BY <2>6, <3>1 DEF BeepOK
  <2>7. CASE prog = "dialogue"
    <3>1. pair = <<"answer", "read2">>
      BY <2>7 DEF Before
    <3> QED BY <2>7, <3>1 DEF DialogueOK, Answered
  <2>8. prog \in {"slow_write", "shm", "mask", "counterprob", "alarm", "dialogue"} \cup Large
    BY DEF Before, Large
  <2> QED BY <2>1, <2>2, <2>3, <2>4, <2>5, <2>6, <2>7, <2>8
<1> QED BY <1>1, <1>2, <1>3, PTL DEF ProcSpec
==============================================================================
