-------------------------- MODULE FtpSessionProofs --------------------------
(***************************************************************************)
(* The two command loops of a session stay in step, whatever is typed, for *)
(* every size of the files and every MAXLINE: InStep, ExecutesTyped and    *)
(* GetDeliversInStep.                                                      *)
(*                                                                         *)
(* The inductive invariant lists the states of a command between the two   *)
(* processes: what each socket holds, where both block and what is left of *)
(* the file.  It holds as long as no command is sent ahead and none comes  *)
(* after an upload; an interruption ends the client, and the list with it. *)
(***************************************************************************)
EXTENDS FtpSession, SequenceTheorems, TLAPS

Calm == met \cap {"afterput", "typeahead"} = {}

CommandLine == [cmd : AllCommands, size : Nat \cup {NoFile}]
Execution == [cmd : AllCommands, arg : Nat]

SessionTypes ==
    /\ typed \in Seq(CommandLine)
    /\ done \in Seq(Execution)
    /\ \A i \in 1 .. Here : typed[i].size = 0 => "empty" \in met

\* The command under way.
last == typed[Here]

\* The first k commands typed were executed, and no other.
Executed(k) ==
    /\ k \in 0 .. Here /\ Len(done) = k
    /\ \A i \in 1 .. k :
          /\ done[i].cmd = typed[i].cmd
          /\ done[i].cmd \in ArgCommands => done[i].arg = i

SomeExecuted == \E k \in 0 .. Here : Executed(k)

\* What the slave has still to read, when the client is at its prompt: nothing,
\* the last acknowledgement of a download, the size of a file that does not
\* exist; or, of a download that fails in the client, the answer to its size.
Rests(left) ==
    \/ spc = "cmd" /\ left = <<>>
    \/ spc = "getack" /\ sleft = 0 /\ left = <<Info(OK)>>
    \/ spc = "putsize" /\ left = <<Size(NoFile)>>
    \/ spc = "getok" /\ met # {} /\ left = <<Info(ERROR_OPEN)>>
    \/ /\ spc = "getok" /\ met # {} /\ left = <<>>
       /\ sfile \in 1 .. Here /\ typed[sfile].cmd = "GET" /\ typed[sfile].size = 0

Running == link = "open" /\ put = FALSE

AtPrompt ==
    /\ Running /\ cpc = "prompt" /\ s2c = <<>>
    /\ Rests(c2s) /\ Executed(Here)

CommandSent ==
    /\ Here > 0 /\ Executed(Here - 1)
    /\ \E left \in {<<>>, <<Info(OK)>>, <<Size(NoFile)>>, <<Info(ERROR_OPEN)>>} :
          Rests(left) /\ c2s = left \o <<Cmd(last.cmd)>>

Asked ==
    /\ Running /\ CommandSent /\ s2c = <<>> /\ last.cmd # "EXIT"
    /\ cpc = IF last.cmd \in TextCommands THEN "text" ELSE "ok"

Leaving ==
    /\ cpc = "out" /\ link \in {"fin", "rst"} /\ CommandSent /\ last.cmd = "EXIT"

\* The slave waits for the argument: it has said so, or has it to read.
Granted ==
    /\ Running /\ Here > 0 /\ Executed(Here - 1)
    /\ spc = "arg" /\ scmd = last.cmd /\ last.cmd \in ArgCommands
    /\ \/ cpc = "ok" /\ c2s = <<>> /\ s2c = <<Info(OK)>>
       \/ /\ c2s = <<Arg(Here)>> /\ s2c = <<>>
          /\ cpc = CASE last.cmd = "GET" -> "size" [] last.cmd = "PUT" -> "putok"
                     [] OTHER -> "prompt"

Shown ==
    /\ Running /\ Here > 0 /\ Executed(Here)
    /\ cpc = "text" /\ spc = "cmd" /\ c2s = <<>>
    /\ s2c = <<Text>> \/ (s2c = <<>> /\ met # {})

\* A GET that the slave took for the answer to the size of an empty file.
Swallowed ==
    /\ Running /\ Here > 0 /\ Executed(Here - 1) /\ met # {}
    /\ cpc = "ok" /\ spc = "cmd" /\ c2s = <<>> /\ s2c = <<>>

\* The client has the first o bytes of the file, chunk by chunk.
CopyIs(o) ==
    \E j \in 0 .. last.size :
        o = MaxLine * j /\ copy = [i \in 1 .. j |-> Data(Here, last.size, MaxLine * (i - 1))]

Download ==
    /\ Running /\ Here > 0 /\ Executed(Here) /\ last.cmd = "GET" /\ sfile = Here
    /\ \/ /\ cpc = "size" /\ c2s = <<>> /\ s2c = <<Size(last.size)>>
          /\ spc = IF last.size = NoFile THEN "cmd" ELSE "getok"
       \/ /\ cpc = "recv" /\ cleft \in 1 .. last.size /\ CopyIs(last.size - cleft)
          /\ \/ /\ spc = "getok" /\ c2s = <<Info(OK)>> /\ s2c = <<>>
                /\ cleft = last.size
             \/ /\ spc = "getack" /\ c2s = <<Info(OK)>> /\ s2c = <<>>
                /\ sleft = cleft
             \/ /\ spc = "getack" /\ c2s = <<>>
                /\ LET d == Data(Here, last.size, last.size - cleft) IN
                   s2c = <<d>> /\ sleft = cleft - d.len

IsData(m) == m.kind = "data" /\ m.len \in 1 .. MaxLine

\* The client is one acknowledgement ahead.
Upload ==
    /\ Here > 0 /\ Executed(Here) /\ last.cmd = "PUT" /\ link = "open"
    /\ \/ /\ cpc = "putok" /\ put = FALSE /\ c2s = <<>>
          /\ \/ spc = "cmd" /\ s2c = <<Info(ERROR_OPEN)>>
             \/ spc = "putsize" /\ s2c = <<Info(OK)>>
       \/ /\ cpc = "putgo" /\ put = FALSE
          /\ \/ /\ spc = "putsize" /\ c2s = <<Size(last.size)>> /\ s2c = <<>>
                /\ last.size \in Nat
             \/ /\ spc = "putdata" /\ c2s = <<>> /\ s2c = <<Info(OK), Info(OK)>>
                /\ last.size \in Nat \ {0} /\ sleft = last.size
             \/ spc = "cmd" /\ c2s = <<>> /\ s2c = <<>> /\ met # {}
       \/ /\ cpc = "sent" /\ put = FALSE /\ cleft \in Nat
          /\ \/ /\ spc = "cmd" /\ c2s = <<>> /\ s2c = <<Info(OK), Info(OK)>>
                /\ cleft = 0
             \/ /\ spc = "putdata" /\ c2s = <<>> /\ s2c = <<Info(OK), Info(OK)>>
                /\ cleft > 0 /\ sleft = cleft
             \/ /\ spc = "putdata" /\ s2c = <<Info(OK)>>
                /\ \E d \in {c2s[1]} : c2s = <<d>> /\ IsData(d)
                      /\ sleft = cleft + d.len /\ (cleft > 0 => d.len = MaxLine)
             \/ /\ spc = "putdata" /\ s2c = <<>>
                /\ \E d \in {c2s[1]}, e \in {c2s[2]} :
                      /\ c2s = <<d, e>> /\ IsData(d) /\ IsData(e) /\ d.len = MaxLine
                      /\ sleft = cleft + d.len + e.len /\ (cleft > 0 => e.len = MaxLine)
       \/ /\ cpc = "prompt" /\ put = TRUE
          /\ \/ /\ spc = "putdata" /\ s2c = <<>>
                /\ \E d \in {c2s[1]} : c2s = <<d>> /\ IsData(d) /\ sleft = d.len
             \/ spc = "cmd" /\ c2s = <<>> /\ s2c = <<Info(OK)>>

\* The client has gone and the slave has nothing to read.
Gone == cpc = "out" /\ link # "open" /\ c2s = <<>> /\ SomeExecuted

Ended ==
    /\ spc \in {"idle", "spin", "dead"} /\ link # "open" /\ SomeExecuted
    /\ s2c = <<>> \/ cpc = "out" \/ (cpc = "prompt" /\ put)

Interrupted == "interrupt" \in met /\ cpc = "out"

Phase ==
    \/ AtPrompt \/ Asked \/ Leaving \/ Granted \/ Shown \/ Swallowed
    \/ Download \/ Upload \/ Gone \/ Ended

SessionInv == Calm => (SessionTypes /\ Phase) \/ Interrupted

-----------------------------------------------------------------------------
(* Short sequences, and what a read finds in them.                         *)

LEMMA OneMessage ==
    ASSUME NEW a
    PROVE  /\ Head(<<a>>) = a /\ Tail(<<a>>) = <<>> /\ <<a>> # <<>> /\ Len(<<a>>) = 1
           /\ <<>> \o <<a>> = <<a>> /\ <<a>> \o <<>> = <<a>>
OBVIOUS

LEMMA TwoMessages ==
    ASSUME NEW a, NEW b
    PROVE  /\ Head(<<a, b>>) = a /\ Tail(<<a, b>>) = <<b>> /\ <<a, b>> # <<>>
           /\ Len(<<a, b>>) = 2 /\ <<a>> \o <<b>> = <<a, b>>
<1>1. <<a>> \in Seq({a, b}) /\ <<b>> \in Seq({a, b}) /\ <<a, b>> \in Seq({a, b})
  OBVIOUS
<1>2. Len(<<a>>) = 1 /\ Len(<<b>>) = 1 /\ Len(<<a, b>>) = 2
  OBVIOUS
<1>3. /\ <<a>> \o <<b>> \in Seq({a, b}) /\ Len(<<a>> \o <<b>>) = 2
      /\ (<<a>> \o <<b>>)[1] = a /\ (<<a>> \o <<b>>)[2] = b
  BY <1>1, <1>2, ConcatProperties
<1>4. \A i \in 1 .. Len(<<a>> \o <<b>>) : (<<a>> \o <<b>>)[i] = <<a, b>>[i]
  BY <1>3
<1>5. <<a>> \o <<b>> = <<a, b>>
  BY <1>1, <1>2, <1>3, <1>4, SeqEqual
<1> QED BY <1>2, <1>5

\* The sum that Bytes folds, as an equation of the function of its subsets.
Turn(s, g) ==
    [t \in SUBSET DOMAIN s |->
        IF t = {} THEN 0
        ELSE s[CHOOSE x \in t : TRUE].len + g[t \ {CHOOSE x \in t : TRUE}]]

LEMMA BytesUnfold ==
    ASSUME NEW s
    PROVE  Bytes(s) = (CHOOSE g : g = Turn(s, g))[DOMAIN s]
BY DEF Bytes, FoldSeq, FoldFunction, FoldFunctionOnSet, MapThenFoldSet, Turn

LEMMA BytesOfOne ==
    ASSUME NEW a, a.len \in Int
    PROVE  Bytes(<<a>>) = a.len
<1> DEFINE s == <<a>>
           sum == [t \in SUBSET DOMAIN s |-> IF t = {} THEN 0 ELSE a.len]
<1>1. DOMAIN s = {1} /\ s[1] = a
  OBVIOUS
<1>2. \A t \in SUBSET DOMAIN s : t # {} => t = {1} /\ (CHOOSE x \in t : TRUE) = 1
  BY <1>1
<1> HIDE DEF s
<1>3. sum = Turn(s, sum)
  <2>1. sum[{}] = 0 /\ \A t \in SUBSET DOMAIN s : t # {} => sum[t] = a.len
    BY <1>1
  <2>2. sum = [t \in SUBSET DOMAIN s |-> sum[t]]
    OBVIOUS
  <2>3. \A t \in SUBSET DOMAIN s : t # {} => t \ {1} = {}
    BY <1>2
  <2> HIDE DEF sum
  <2>4. \A t \in SUBSET DOMAIN s : sum[t] = Turn(s, sum)[t]
    <3> TAKE t \in SUBSET DOMAIN s
    <3>1. CASE t = {}
      BY <2>1, <3>1 DEF Turn
    <3>2. CASE t # {}
      <4>1. Turn(s, sum)[t] = s[1].len + sum[t \ {1}]
        BY <1>2, <3>2 DEF Turn
      <4>2. sum[t \ {1}] = 0 /\ sum[t] = a.len /\ s[1] = a
        BY <1>1, <2>1, <2>3, <3>2
      <4> QED BY <4>1, <4>2
    <3> QED BY <3>1, <3>2
  <2> QED BY <2>2, <2>4 DEF Turn
<1>4. PICK g : g = Turn(s, g) /\ g = (CHOOSE h : h = Turn(s, h))
  <2> HIDE DEF sum
  <2> QED BY <1>3
<1>5. {} \in SUBSET DOMAIN s /\ {1} \in SUBSET DOMAIN s /\ {1} \ {1} = {}
  BY <1>1
<1>6. g[{}] = 0 /\ g[{1}] = s[1].len + g[{}]
  BY <1>2, <1>4, <1>5 DEF Turn
<1>7. Bytes(s) = a.len
  BY <1>1, <1>4, <1>6, BytesUnfold
<1> QED BY <1>7 DEF s

LEMMA BytesOfTwo ==
    ASSUME NEW a, NEW b, a.len \in Int, b.len \in Int
    PROVE  Bytes(<<a, b>>) = a.len + b.len
<1> DEFINE s == <<a, b>>
           sum == [t \in SUBSET DOMAIN s |->
                     (IF 1 \in t THEN a.len ELSE 0) + (IF 2 \in t THEN b.len ELSE 0)]
<1>1. DOMAIN s = {1, 2} /\ s[1] = a /\ s[2] = b
  OBVIOUS
<1> HIDE DEF s
<1>2. ASSUME NEW t \in SUBSET DOMAIN s, t # {}
      PROVE  sum[t] = s[CHOOSE x \in t : TRUE].len + sum[t \ {CHOOSE x \in t : TRUE}]
  <2>1. PICK x : x = (CHOOSE y \in t : TRUE)
    OBVIOUS
  <2>2. x \in t /\ x \in {1, 2} /\ t \ {x} \in SUBSET DOMAIN s
    BY <1>1, <1>2, <2>1
  <2>3. sum[t] = s[x].len + sum[t \ {x}]
    <3>1. CASE x = 1
      <4>1. 1 \in t /\ 1 \notin t \ {x} /\ (2 \in t <=> 2 \in t \ {x})
        BY <2>2, <3>1
      <4> QED BY <1>1, <2>2, <3>1, <4>1
    <3>2. CASE x = 2
      <4>1. 2 \in t /\ 2 \notin t \ {x} /\ (1 \in t <=> 1 \in t \ {x})
        BY <2>2, <3>2
      <4> QED BY <1>1, <2>2, <3>2, <4>1
    <3> QED BY <2>2, <3>1, <3>2
  <2> HIDE DEF sum
  <2> QED BY <2>1, <2>3
<1>3. sum[{}] = 0
  OBVIOUS
<1>4. sum = Turn(s, sum)
  <2>1. \A t \in SUBSET DOMAIN s : sum[t] = Turn(s, sum)[t]
    <3> HIDE DEF sum
    <3> QED BY <1>2, <1>3 DEF Turn
  <2> QED BY <2>1 DEF Turn
<1>5. PICK g : g = Turn(s, g) /\ g = (CHOOSE h : h = Turn(s, h))
  <2> HIDE DEF sum
  <2> QED BY <1>4
<1>6. {{}, {1}, {2}, {1, 2}} \subseteq SUBSET DOMAIN s
  BY <1>1
<1>7. g[{}] = 0
  BY <1>5, <1>6 DEF Turn
<1>8. g[{1}] = a.len /\ g[{2}] = b.len
  <2>1. (CHOOSE x \in {1} : TRUE) = 1 /\ (CHOOSE x \in {2} : TRUE) = 2
    OBVIOUS
  <2>2. {1} \ {1} = {} /\ {2} \ {2} = {} /\ {1} # {} /\ {2} # {}
    OBVIOUS
  <2> QED BY <1>1, <1>5, <1>6, <1>7, <2>1, <2>2 DEF Turn
<1>9. g[{1, 2}] = a.len + b.len
  <2>1. PICK x : x = (CHOOSE y \in {1, 2} : TRUE)
    OBVIOUS
  <2>2. x \in {1, 2} /\ {1, 2} # {}
    BY <2>1
  <2>3. g[{1, 2}] = s[x].len + g[{1, 2} \ {x}]
    BY <1>5, <1>6, <2>1, <2>2 DEF Turn
  <2>4. {1, 2} \ {1} = {2} /\ {1, 2} \ {2} = {1}
    OBVIOUS
  <2>5. CASE x = 1
    <3>1. g[{1, 2}] = a.len + g[{2}]
      BY <1>1, <2>3, <2>4, <2>5
    <3> QED BY <1>8, <3>1
  <2>6. CASE x = 2
    <3>1. g[{1, 2}] = b.len + g[{1}]
      BY <1>1, <2>3, <2>4, <2>6
    <3> QED BY <1>8, <3>1
  <2>7. x = 1 \/ x = 2
    BY <2>2
  <2> QED BY <2>5, <2>6, <2>7
<1>10. Bytes(s) = a.len + b.len
  BY <1>1, <1>5, <1>9, BytesUnfold
<1> QED BY <1>10 DEF s

\* A read finds one message when there is one.
LEMMA ReadOne ==
    ASSUME NEW a
    PROVE  /\ ReadSome(<<a>>) = {1}
           /\ After(<<a>>, 1) = <<>> /\ SubSeq(<<a>>, 1, 1) = <<a>>
<1>1. <<a>> \in Seq({a}) /\ Len(<<a>>) = 1
  OBVIOUS
<1>2. ReadSome(<<a>>) = {1}
  BY <1>1 DEF ReadSome
<1>3. SubSeq(<<a>>, 1, 1) = <<a>>
  BY <1>1, SubSeqFull
<1>4. After(<<a>>, 1) = <<>>
  BY <1>1, SubSeqEmpty DEF After
<1> QED BY <1>2, <1>3, <1>4

\* Two chunks, the first of which is full, are read one after the other.
LEMMA ReadFirst ==
    ASSUME NEW d, NEW e, IsData(d), IsData(e), d.len = MaxLine
    PROVE  /\ ReadSome(<<d, e>>) = {1}
           /\ After(<<d, e>>, 1) = <<e>> /\ SubSeq(<<d, e>>, 1, 1) = <<d>>
<1>1. <<d, e>> \in Seq({d, e}) /\ Len(<<d, e>>) = 2 /\ <<d, e>>[1] = d /\ <<d, e>>[2] = e
  OBVIOUS
<1>2. MaxLine \in Nat /\ d.len \in Int /\ e.len \in Int /\ e.len > 0
  BY SessionAssumption DEF IsData
<1>3. SubSeq(<<d, e>>, 1, 2) = <<d, e>>
  BY <1>1, SubSeqFull
<1>4. ReadSome(<<d, e>>) = {1}
  <2>1. Bytes(<<d, e>>) = d.len + e.len
    BY <1>2, BytesOfTwo
  <2>2. ~ (Bytes(SubSeq(<<d, e>>, 1, 2)) <= MaxLine)
    <3>1. ~ (d.len + e.len <= MaxLine)
      BY <1>2
    <3> QED BY <1>3, <2>1, <3>1
  <2>3. \A n \in 1 .. 2 : n \in {1, 2}
    OBVIOUS
  <2> QED BY <1>1, <2>2, <2>3 DEF ReadSome
<1>5. SubSeq(<<d, e>>, 1, 1) = <<d>>
  <2> DEFINE s == <<d, e>>
  <2>1. /\ SubSeq(s, 1, 1) \in Seq({d, e}) /\ Len(SubSeq(s, 1, 1)) = 1
        /\ \A i \in 1 .. 1 : SubSeq(s, 1, 1)[i] = s[1 + i - 1]
    <3> HIDE DEF s
    <3>1. \A i \in 1 .. 1 : s[i] \in {d, e}
      BY <1>1 DEF s
    <3> QED BY <3>1, SubSeqProperties
  <2>2. SubSeq(s, 1, 1)[1] = d
    BY <1>1, <2>1
  <2>3. <<d>> \in Seq({d, e}) /\ Len(<<d>>) = 1 /\ <<d>>[1] = d
    OBVIOUS
  <2>4. \A i \in 1 .. 1 : SubSeq(s, 1, 1)[i] = <<d>>[i]
    BY <2>2, <2>3
  <2> QED BY <2>1, <2>3, <2>4, SeqEqual
<1>6. After(<<d, e>>, 1) = <<e>>
  <2> DEFINE s == <<d, e>>
  <2>1. s # <<>> /\ Tail(s) = <<e>>
    BY TwoMessages
  <2>2. s \in Seq({d, e}) /\ Len(s) = 2
    BY <1>1
  <2> HIDE DEF s
  <2>3. Tail(s) = SubSeq(s, 2, Len(s))
    BY <2>1, <2>2, TailIsSubSeq
  <2>4. 1 + 1 = 2
    OBVIOUS
  <2>5. After(s, 1) = <<e>>
    BY <2>1, <2>3, <2>4, Zenon DEF After
  <2> QED BY <2>5 DEF s
<1> QED BY <1>4, <1>5, <1>6

-----------------------------------------------------------------------------
(* What an integer says, and how long a chunk is.                          *)

LEMMA IntRead ==
    ASSUME NEW s, NEW v
    PROVE  /\ Head(s) = Info(v) => IntOf(s) = v
           /\ Head(s) = Size(v) => IntOf(s) = v
           /\ \A c \in AllCommands : Head(s) = Cmd(c) => IntOf(s) = Code(c)
BY DEF IntOf, Info, Size, Cmd, Msg

LEMMA CodesDiffer ==
    /\ \A c, d \in AllCommands : Code(c) = Code(d) => c = d
    /\ Code("GET") = OK /\ Code("EXIT") = 0
<1>1. /\ Code("EXIT") = 0 /\ Code("GET") = 1 /\ Code("LS") = 3 /\ Code("PWD") = 4
      /\ Code("CD") = 6 /\ Code("RM") = 7 /\ Code("MKDIR") = 8 /\ Code("PUT") = 9
      /\ Code("RMR") = 10
  BY DEF Code
<1>2. AllCommands = {"EXIT", "GET", "LS", "PWD", "CD", "RM", "MKDIR", "PUT", "RMR"}
  BY DEF AllCommands, ArgCommands, NameCommands, TextCommands
<1>4. \A c, d \in AllCommands : Code(c) = Code(d) => c = d
  BY <1>1, <1>2
<1> QED BY <1>1, <1>4 DEF OK

LEMMA Answers == OK = 1 /\ ERROR_OPEN = 2 /\ NoFile = -1 /\ OK # ERROR_OPEN
BY DEF OK, ERROR_OPEN, NoFile

\* The next chunk when left bytes of n are left.
LEMMA ChunkOf ==
    ASSUME NEW k, NEW n \in Int, NEW left \in Nat \ {0}
    PROVE  LET d == Data(k, n, n - left) IN
           /\ IsData(d) /\ d.len \in Nat /\ d.len <= left /\ left - d.len \in Nat
           /\ left - d.len > 0 => d.len = MaxLine
<1>1. MaxLine \in Nat \ {0}
  BY SessionAssumption
<1>2. n - (n - left) = left
  OBVIOUS
<1> DEFINE d == Data(k, n, n - left)
<1>3. d.kind = "data" /\ d.len = IF left < MaxLine THEN left ELSE MaxLine
  BY <1>2 DEF Data, Msg
<1> HIDE DEF d
<1>4. /\ IsData(d) /\ d.len \in Nat /\ d.len <= left /\ left - d.len \in Nat
      /\ left - d.len > 0 => d.len = MaxLine
  BY <1>1, <1>3 DEF IsData
<1> QED BY <1>4 DEF d

-----------------------------------------------------------------------------
(* The history of the commands.                                            *)

LEMMA HereFacts ==
    ASSUME SessionTypes
    PROVE  /\ Here \in Nat
           /\ Here > 0 => /\ last \in CommandLine
                          /\ last.cmd \in AllCommands /\ last.size \in Int
                          /\ last.size >= -1
                          /\ last.size = 0 => met # {}
<1>1. Here \in Nat
  BY LenProperties DEF SessionTypes, Here
<1>2. Here > 0 => last \in CommandLine
  <2>1. typed \in Seq(CommandLine)
    BY DEF SessionTypes
  <2>2. Here > 0 => Here \in 1 .. Len(typed)
    BY <1>1 DEF Here
  <2> QED BY <2>1, <2>2, ElementOfSeq DEF last
<1>3. Here > 0 /\ last.size = 0 => met # {}
  <2>1. Here > 0 => Here \in 1 .. Here
    BY <1>1
  <2> QED BY <2>1 DEF SessionTypes, last
<1> QED BY <1>1, <1>2, <1>3 DEF NoFile, CommandLine

LEMMA ExecutedMore ==
    ASSUME SessionTypes, NEW x \in CommandLine,
           typed' = Append(typed, x), done' = done,
           met \subseteq met', x.size = 0 => "empty" \in met'
    PROVE  /\ SessionTypes'
           /\ Here \in Nat /\ Here' = Here + 1 /\ last' = x
           /\ \A i \in 1 .. Here : typed'[i] = typed[i]
           /\ \A k : Executed(k) => Executed(k)'
<1>1. /\ typed' \in Seq(CommandLine)
      /\ Here \in Nat /\ Here' = Here + 1 /\ typed'[Here + 1] = x
      /\ \A i \in 1 .. Here : typed'[i] = typed[i]
  BY AppendProperties, LenProperties DEF SessionTypes, Here
<1>2. SessionTypes'
  <2>1. \A i \in 1 .. Here' : i \in 1 .. Here \/ i = Here + 1
    BY <1>1
  <2>2. \A i \in 1 .. Here' : typed'[i].size = 0 => "empty" \in met'
    BY <1>1, <2>1 DEF SessionTypes
  <2> QED BY <1>1, <2>2 DEF SessionTypes
<1>3. ASSUME NEW k, Executed(k) PROVE Executed(k)'
  <2>1. k \in 0 .. Here /\ k \in 0 .. Here' /\ Len(done') = k
    BY <1>1, <1>3 DEF Executed
  <2>2. \A i \in 1 .. k : i \in 1 .. Here
    BY <1>1, <2>1
  <2>3. \A i \in 1 .. k : typed'[i] = typed[i]
    BY <1>1, <2>2
  <2> QED BY <1>3, <2>1, <2>3 DEF Executed
<1> QED BY <1>1, <1>2, <1>3 DEF last

\* The slave executes the command under way.
LEMMA ExecutedNow ==
    ASSUME SessionTypes, Here > 0, Executed(Here - 1), NEW a \in Nat,
           last.cmd \in ArgCommands => a = Here,
           UNCHANGED typed, met \subseteq met', done' = Append(done, [cmd |-> last.cmd, arg |-> a])
    PROVE  SessionTypes' /\ Executed(Here)'
<1>1. Here \in Nat /\ last.cmd \in AllCommands
  BY HereFacts
<1>2. [cmd |-> last.cmd, arg |-> a] \in Execution
  BY <1>1 DEF Execution
<1>3. /\ done' \in Seq(Execution) /\ Len(done') = Here
      /\ done'[Here] = [cmd |-> last.cmd, arg |-> a]
      /\ \A i \in 1 .. Here - 1 : done'[i] = done[i]
  BY <1>1, <1>2, AppendProperties, LenProperties DEF SessionTypes, Executed
<1>4. \A i \in 1 .. Here : i \in 1 .. Here - 1 \/ i = Here
  BY <1>1
<1>5. Executed(Here)'
  BY <1>1, <1>3, <1>4 DEF Executed, Here, last
<1> QED BY <1>3, <1>5 DEF SessionTypes, Here

LEMMA TypesKept ==
    ASSUME SessionTypes, UNCHANGED <<typed, done>>, met \subseteq met'
    PROVE  /\ SessionTypes' /\ Here' = Here /\ last' = last
           /\ \A k : Executed(k) => Executed(k)'
           /\ Executed(Here) => Executed(Here)'
           /\ Executed(Here - 1) => (Executed(Here - 1))'
BY DEF SessionTypes, Here, last, Executed

LEMMA PhaseExecuted ==
    ASSUME SessionTypes, Phase
    PROVE  SomeExecuted
<1>1. \A k : Executed(k) => SomeExecuted
  BY DEF Executed, SomeExecuted
<1> QED BY <1>1 DEF Phase, AtPrompt, Asked, Leaving, Granted, Shown, Swallowed, Download,
                    Upload, Gone, Ended, CommandSent

LEMMA SomeExecutedKept ==
    ASSUME SomeExecuted, UNCHANGED <<typed, done>>
    PROVE  SomeExecuted'
BY DEF SomeExecuted, Executed, Here

-----------------------------------------------------------------------------
(* Where a process that has something to read is.                          *)

LEMMA ClientReads ==
    ASSUME Phase, s2c # <<>>
    PROVE  /\ cpc = "text" => Shown
           /\ cpc = "ok" => Granted
           /\ cpc \in {"size", "recv"} => Download
           /\ cpc \in {"putok", "putgo", "sent"} => Upload
BY DEF Phase, AtPrompt, Asked, Leaving, Granted, Shown, Swallowed, Download, Upload, Gone, Ended

LEMMA ClientPrompted ==
    ASSUME Phase, cpc = "prompt"
    PROVE  AtPrompt \/ Granted \/ Upload \/ Ended
BY DEF Phase, AtPrompt, Asked, Leaving, Granted, Shown, Swallowed, Download, Upload, Gone, Ended

LEMMA SlaveReads ==
    ASSUME Phase, c2s # <<>>
    PROVE  /\ spc = "cmd" => Asked \/ Leaving
           /\ spc = "arg" => Granted
           /\ spc \in {"getok", "getack"} => AtPrompt \/ Asked \/ Leaving \/ Download
           /\ spc = "putsize" => AtPrompt \/ Asked \/ Leaving \/ Upload
           /\ spc = "putdata" => Upload
BY DEF Phase, AtPrompt, Asked, Leaving, Granted, Shown, Swallowed, Download, Upload, Gone, Ended,
       CommandSent, Rests

-----------------------------------------------------------------------------
(* The steps of the client.                                                *)

LEMMA RestsKept ==
    ASSUME NEW left, Rests(left), UNCHANGED slave, met \subseteq met',
           Here \in Nat, Here' >= Here, Here' \in Nat,
           \A i \in 1 .. Here : typed'[i] = typed[i]
    PROVE  Rests(left)'
<1>1. met # {} => met' # {}
  OBVIOUS
<1>2. \A i \in 1 .. Here : i \in 1 .. Here'
  OBVIOUS
<1> QED BY <1>1, <1>2 DEF Rests, slave

LEMMA RestsIs ==
    ASSUME NEW left, Rests(left)
    PROVE  left \in {<<>>, <<Info(OK)>>, <<Size(NoFile)>>, <<Info(ERROR_OPEN)>>}
BY DEF Rests

LEMMA ClientWritesTo ==
    ASSUME NEW msgs, NEW next, ClientWrites(msgs, next)
    PROVE  /\ link = "open" => /\ c2s' = c2s \o msgs /\ cpc' = next
                               /\ next # "out" => link' = "open"
                               /\ next = "out" => link' \in {"fin", "rst"}
           /\ link # "open" => /\ c2s' = c2s /\ cpc' \in {next, "out"} /\ link' # "open"
<1>1. CASE link = "open"
  <2>1. c2s' = c2s \o msgs /\ cpc' = next
    BY <1>1 DEF ClientWrites
  <2>2. CASE next = "out"
    <3>1. link' \in IF s2c = <<>> THEN {"fin"} ELSE {"fin", "rst"}
      BY <1>1, <2>2 DEF ClientWrites
    <3> QED BY <1>1, <2>1, <2>2, <3>1
  <2>3. CASE next # "out"
    <3>1. link' \in {"open"}
      BY <1>1, <2>3 DEF ClientWrites
    <3> QED BY <1>1, <2>1, <2>3, <3>1
  <2> QED BY <2>2, <2>3
<1>2. CASE link = "closed"
  <2>1. link' \in {"closed", "broken"}
    BY <1>2 DEF ClientWrites
  <2> QED BY <1>2, <2>1 DEF ClientWrites
<1>3. CASE link \notin {"open", "closed"}
  <2>1. link' \in {link}
    BY <1>3 DEF ClientWrites
  <2> QED BY <1>3, <2>1 DEF ClientWrites
<1> QED BY <1>1, <1>2, <1>3

LEMMA TypeKeeps ==
    ASSUME SessionTypes, Phase, NEW c \in Commands, NEW n \in Sizes \cup {0, NoFile},
           Type(c, n), Calm'
    PROVE  SessionTypes' /\ Phase'
<1>1. /\ cpc = "prompt" /\ typed' = Append(typed, [cmd |-> c, size |-> n])
      /\ UNCHANGED <<put, slave, s2c>> /\ met \subseteq met'
  BY DEF Type
<1>w. PICK next :
          /\ ClientWrites(<<Cmd(c)>>, next)
          /\ next = IF c = "EXIT" THEN "out" ELSE IF c \in TextCommands THEN "text" ELSE "ok"
  <2>1. PICK next : next = CASE c = "EXIT" -> "out" [] c \in TextCommands -> "text"
                             [] OTHER -> "ok"
    OBVIOUS
  <2>2. ClientWrites(<<Cmd(c)>>, next)
    BY <2>1 DEF Type
  <2>3. next = IF c = "EXIT" THEN "out" ELSE IF c \in TextCommands THEN "text" ELSE "ok"
    BY <2>1 DEF TextCommands
  <2> QED BY <2>2, <2>3
<1>2. ~ Hurried /\ (put => c = "EXIT")
  BY DEF Type, Calm
<1>3. [cmd |-> c, size |-> n] \in CommandLine
  BY SessionAssumption DEF CommandLine
<1>4. /\ SessionTypes'
      /\ Here \in Nat /\ Here' = Here + 1 /\ last'.cmd = c
      /\ \A i \in 1 .. Here : typed'[i] = typed[i]
      /\ \A k : Executed(k) => Executed(k)'
  <2>1. [cmd |-> c, size |-> n].cmd = c /\ done' = done
    BY <1>1 DEF slave
  <2>2. PICK x \in CommandLine : x = [cmd |-> c, size |-> n]
    BY <1>3
  <2>3. x.size = 0 => "empty" \in met'
    BY <2>2 DEF Type
  <2> QED BY <1>1, <2>1, <2>2, <2>3, ExecutedMore
<1>5. /\ Here' > 0 /\ Here' \in Nat /\ Here' >= Here /\ Here' - 1 = Here
  BY <1>4
<1>6. PICK left : left = c2s
  OBVIOUS
<1>7. ASSUME link = "open", Rests(left), Executed(Here), s2c = <<>> \/ c = "EXIT",
             put = FALSE \/ c = "EXIT"
      PROVE  Phase'
  <2>1. Rests(left)'
    BY <1>1, <1>4, <1>5, <1>7, RestsKept
  <2>2. c2s' = left \o <<Cmd(last'.cmd)>>
    BY <1>4, <1>6, <1>7, <1>w, ClientWritesTo
  <2>3. (Executed(Here - 1))'
    <3>1. PICK k : k = Here
      OBVIOUS
    <3>2. Executed(k)'
      BY <1>4, <1>7, <3>1
    <3> QED BY <1>5, <3>1, <3>2
  <2>4. CommandSent'
    BY <1>5, <1>7, <2>1, <2>2, <2>3, RestsIs DEF CommandSent
  <2>5. CASE c = "EXIT"
    <3>1. cpc' = "out" /\ link' \in {"fin", "rst"}
      BY <1>7, <1>w, <2>5, ClientWritesTo
    <3> QED BY <1>4, <2>4, <2>5, <3>1 DEF Phase, Leaving
  <2>6. CASE c # "EXIT"
    <3>1. cpc' = (IF c \in TextCommands THEN "text" ELSE "ok") /\ link' = "open"
      BY <1>7, <1>w, <2>6, ClientWritesTo DEF TextCommands
    <3> QED BY <1>1, <1>4, <1>7, <2>4, <2>6, <3>1 DEF Phase, Asked, Running
  <2> QED BY <2>5, <2>6
<1>8. CASE AtPrompt
  BY <1>4, <1>6, <1>7, <1>8 DEF AtPrompt, Running
<1>9. CASE Granted
  <2>1. c2s = <<Arg(Here)>>
    BY <1>1, <1>9 DEF Granted
  <2>2. c2s[1].kind = "arg" /\ Len(c2s) = 1
    BY <2>1 DEF Arg, Msg
  <2> QED BY <1>2, <2>2 DEF Hurried
<1>10. CASE Upload
  <2>1. put = TRUE /\ c = "EXIT"
    BY <1>1, <1>2, <1>10 DEF Upload
  <2>2. ASSUME NEW d, c2s = <<d>>, IsData(d) PROVE FALSE
    <3>1. c2s[1].kind = "data" /\ Len(c2s) = 1
      BY <2>2 DEF IsData
    <3> QED BY <1>2, <3>1 DEF Hurried
  <2>3. spc = "cmd" /\ c2s = <<>> /\ link = "open" /\ Executed(Here)
    BY <1>1, <1>10, <2>1, <2>2 DEF Upload
  <2>4. Rests(left)
    BY <1>6, <2>3 DEF Rests
  <2> QED BY <1>4, <1>7, <2>1, <2>3, <2>4
<1>11. CASE Ended
  <2>1. /\ spc' \in {"idle", "spin", "dead"} /\ link' # "open"
        /\ s2c' = <<>> \/ cpc' = "out"
    BY <1>1, <1>2, <1>11, <1>w, ClientWritesTo DEF Ended, slave
  <2>2. SomeExecuted'
    <3>1. PICK k \in 0 .. Here : Executed(k)
      BY <1>11 DEF Ended, SomeExecuted
    <3>2. Executed(k)' /\ k \in 0 .. Here'
      BY <1>4, <1>5, <3>1
    <3> QED BY <3>2 DEF SomeExecuted
  <2> QED BY <1>4, <2>1, <2>2 DEF Phase, Ended
<1> QED BY <1>1, <1>4, <1>8, <1>9, <1>10, <1>11, ClientPrompted

LEMMA ClientTextKeeps ==
    ASSUME SessionTypes, Phase, ClientText
    PROVE  SessionTypes' /\ Phase'
<1>1. /\ cpc = "text" /\ s2c # <<>> /\ cpc' = "prompt"
      /\ UNCHANGED <<typed, put, slave, c2s, link, met>>
      /\ \E n \in ReadSome(s2c) : s2c' = After(s2c, n)
  BY DEF ClientText
<1>2. Shown /\ s2c = <<Text>>
  BY <1>1, ClientReads DEF Shown
<1>3. s2c' = <<>>
  BY <1>1, <1>2, ReadOne
<1>4. SessionTypes' /\ (Executed(Here) => Executed(Here)')
  BY <1>1, TypesKept DEF slave
<1>5. AtPrompt'
  BY <1>1, <1>2, <1>3, <1>4 DEF AtPrompt, Shown, Running, Rests, slave
<1> QED BY <1>4, <1>5 DEF Phase

LEMMA ClientOkKeeps ==
    ASSUME SessionTypes, Phase, ClientOk
    PROVE  SessionTypes' /\ Phase'
<1>1. /\ cpc = "ok" /\ s2c # <<>> /\ s2c' = Tail(s2c)
      /\ UNCHANGED <<typed, put, slave, met>>
  BY DEF ClientOk
<1>2. Granted /\ c2s = <<>> /\ s2c = <<Info(OK)>>
  BY <1>1, ClientReads DEF Granted
<1>3. PICK next :
          /\ ClientWrites(<<Arg(Here)>>, next)
          /\ next = CASE last.cmd = "GET" -> "size" [] last.cmd = "PUT" -> "putok"
                      [] OTHER -> "prompt"
  <2>1. IntOf(s2c) = OK
    BY <1>2, IntRead, OneMessage
  <2> QED BY <2>1 DEF ClientOk, last
<1>4. /\ SessionTypes' /\ Here' = Here /\ last' = last
      /\ Executed(Here - 1) => (Executed(Here - 1))'
  BY <1>1, TypesKept DEF slave
<1>5. next # "out"
  BY <1>3
<1>6. c2s' = <<Arg(Here)>> /\ cpc' = next /\ link' = "open" /\ s2c' = <<>>
  BY <1>1, <1>2, <1>3, <1>5, ClientWritesTo, OneMessage DEF Granted, Running
<1>7. Granted'
  BY <1>1, <1>2, <1>3, <1>4, <1>6 DEF Granted, Running, slave
<1> QED BY <1>4, <1>7 DEF Phase

LEMMA CopyBegins ==
    ASSUME last'.size \in Nat, copy' = <<>>
    PROVE  CopyIs(0)'
<1>1. <<>> = [i \in 1 .. 0 |-> Data(Here', last'.size, MaxLine * (i - 1))]
  OBVIOUS
<1>2. MaxLine * 0 = 0 /\ 0 \in 0 .. last'.size
  BY SessionAssumption
<1> QED BY <1>1, <1>2 DEF CopyIs

LEMMA ClientSizeKeeps ==
    ASSUME SessionTypes, Phase, ClientSize
    PROVE  SessionTypes' /\ Phase'
<1>1. /\ cpc = "size" /\ s2c # <<>> /\ s2c' = Tail(s2c) /\ met \subseteq met'
      /\ UNCHANGED <<typed, put, slave>>
  BY DEF ClientSize
<1>2. /\ Download /\ c2s = <<>> /\ s2c = <<Size(last.size)>>
      /\ spc = IF last.size = NoFile THEN "cmd" ELSE "getok"
  BY <1>1, ClientReads DEF Download
<1>3. /\ SessionTypes' /\ Here' = Here /\ last' = last
      /\ Executed(Here) => Executed(Here)'
  BY <1>1, TypesKept DEF slave
<1>4. IntOf(s2c) = last.size /\ s2c' = <<>>
  BY <1>1, <1>2, IntRead, OneMessage
<1>5. /\ last.size \in Int /\ last.size >= -1 /\ (last.size = 0 => met # {})
      /\ Here \in Nat /\ Here > 0 /\ link = "open" /\ NoFile = -1
  BY <1>2, HereFacts, Answers DEF Download, Running
<1>6. CASE IntOf(s2c) > 0 /\ ClientWrites(<<Info(OK)>>, "recv") /\ copy' = <<>>
             /\ cleft' = IntOf(s2c)
  <2>1. c2s' = <<Info(OK)>> /\ cpc' = "recv" /\ link' = "open"
    BY <1>2, <1>5, <1>6, ClientWritesTo
  <2>2. cleft' = last.size /\ cleft' \in 1 .. last.size /\ last.size - cleft' = 0
    BY <1>4, <1>5, <1>6
  <2>3. CopyIs(0)'
    BY <1>3, <1>5, <1>6, <2>2, CopyBegins
  <2>4. spc = "getok"
    BY <1>2, <1>5, <2>2
  <2> QED BY <1>1, <1>2, <1>3, <1>4, <2>1, <2>2, <2>3, <2>4 DEF Phase, Download, Running, slave
<1>7. CASE /\ IntOf(s2c) > 0 /\ ClientWrites(<<Info(ERROR_OPEN)>>, "prompt")
           /\ met' = met \cup {"unwritable"}
  <2>1. c2s' = <<Info(ERROR_OPEN)>> /\ cpc' = "prompt" /\ link' = "open" /\ met' # {}
    BY <1>2, <1>5, <1>7, ClientWritesTo
  <2>2. spc = "getok"
    BY <1>2, <1>4, <1>5, <1>7
  <2> QED BY <1>1, <1>2, <1>3, <1>4, <2>1, <2>2 DEF Phase, AtPrompt, Rests, Download, Running, slave
<1>8. CASE IntOf(s2c) <= 0 /\ cpc' = "prompt" /\ UNCHANGED <<c2s, link, copy, cleft, met>>
  <2>1. last.size = -1 \/ last.size = 0
    BY <1>4, <1>5, <1>8
  <2>2. Rests(<<>>)'
    <3>1. CASE last.size = -1
      BY <1>1, <1>2, <1>5, <3>1 DEF Rests, slave
    <3>2. CASE last.size = 0
      <4>1. spc = "getok" /\ met' # {} /\ sfile = Here /\ Here \in 1 .. Here
        BY <1>2, <1>5, <1>8, <3>2 DEF Download
      <4>2. typed'[sfile].cmd = "GET" /\ typed'[sfile].size = 0
        BY <1>1, <1>2, <3>2, <4>1 DEF Download, last
      <4> QED BY <1>1, <1>3, <4>1, <4>2 DEF Rests, slave
    <3> QED BY <2>1, <3>1, <3>2
  <2> QED BY <1>1, <1>2, <1>3, <1>4, <1>8, <2>2 DEF Phase, AtPrompt, Download, Running
<1> QED BY <1>6, <1>7, <1>8 DEF ClientSize

\* One more chunk.
LEMMA ChunkAppended ==
    ASSUME NEW k, NEW n, NEW j \in Nat, NEW got, NEW more,
           got = [i \in 1 .. j |-> Data(k, n, MaxLine * (i - 1))],
           more = got \o <<Data(k, n, MaxLine * j)>>
    PROVE  more = [i \in 1 .. j + 1 |-> Data(k, n, MaxLine * (i - 1))]
<1> DEFINE Part(i) == Data(k, n, MaxLine * (i - 1))
           S == {Part(i) : i \in 1 .. j + 1}
<1>1. got \in Seq(S) /\ Len(got) = j /\ \A i \in 1 .. j : got[i] = Part(i)
  <2>1. \A i \in 1 .. j : Part(i) \in S
    OBVIOUS
  <2> HIDE DEF S
  <2> QED BY <2>1
<1>2. Data(k, n, MaxLine * j) = Part(j + 1)
  <2>1. j + 1 - 1 = j
    OBVIOUS
  <2>2. MaxLine * (j + 1 - 1) = MaxLine * j
    BY <2>1
  <2> QED BY <2>2
<1>3. Part(j + 1) \in S
  <2>1. j + 1 \in 1 .. j + 1
    OBVIOUS
  <2> QED BY <2>1
<1> HIDE DEF S, Part
<1>4. PICK one : one = <<Part(j + 1)>>
  OBVIOUS
<1>5. one \in Seq(S) /\ Len(one) = 1 /\ one[1] = Part(j + 1) /\ more = got \o one
  BY <1>2, <1>3, <1>4
<1>6. /\ more \in Seq(S) /\ Len(more) = j + 1
      /\ \A i \in 1 .. j + 1 : more[i] = IF i <= j THEN got[i] ELSE one[i - j]
  <2>1. /\ got \o one \in Seq(S) /\ Len(got \o one) = Len(got) + Len(one)
        /\ \A i \in 1 .. Len(got) + Len(one) :
               (got \o one)[i] = IF i <= Len(got) THEN got[i] ELSE one[i - Len(got)]
    BY <1>1, <1>5, ConcatProperties
  <2> QED BY <1>1, <1>5, <2>1
<1>7. ASSUME NEW i \in 1 .. j + 1 PROVE more[i] = Part(i)
  <2>1. CASE i <= j
    BY <1>1, <1>6, <2>1
  <2>2. CASE i = j + 1
    <3>1. ~ (i <= j) /\ i - j = 1
      BY <2>2
    <3>2. more[i] = one[i - j]
      BY <1>6, <3>1
    <3>3. more[i] = one[1] /\ Part(i) = Part(j + 1)
      BY <2>2, <3>1, <3>2, Zenon
    <3> QED BY <1>5, <3>3, Zenon
  <2>3. i <= j \/ i = j + 1
    OBVIOUS
  <2> QED BY <2>1, <2>2, <2>3, Zenon
<1>8. more = [i \in 1 .. j + 1 |-> Part(i)]
  <2>1. more \in [1 .. Len(more) -> S]
    BY <1>6, LenProperties
  <2> QED BY <1>6, <1>7, <2>1
<1> QED BY <1>8 DEF Part

\* One more full chunk.
LEMMA CopyGrows ==
    ASSUME NEW o \in Nat, CopyIs(o), last.size \in Nat, o + MaxLine <= last.size,
           UNCHANGED <<Here, last>>,
           copy' = copy \o <<Data(Here, last.size, o)>>
    PROVE  CopyIs(o + MaxLine)'
<1>1. PICK j \in 0 .. last.size :
          o = MaxLine * j /\ copy = [i \in 1 .. j |-> Data(Here, last.size, MaxLine * (i - 1))]
  BY DEF CopyIs
<1>2. MaxLine \in Nat \ {0} /\ j \in Nat
  BY SessionAssumption
<1>3. j + 1 \in 0 .. last.size /\ o + MaxLine = MaxLine * (j + 1)
  <2>1. o + MaxLine = MaxLine * (j + 1)
    BY <1>1, <1>2
  <2>2. j + 1 <= MaxLine * (j + 1)
    BY <1>2
  <2> QED BY <1>2, <2>1, <2>2
<1>4. copy' = [i \in 1 .. j + 1 |-> Data(Here, last.size, MaxLine * (i - 1))]
  <2>1. copy' = copy \o <<Data(Here, last.size, MaxLine * j)>>
    BY <1>1
  <2> QED BY <1>1, <1>2, <2>1, ChunkAppended
<1> QED BY <1>3, <1>4 DEF CopyIs

\* What a read of the copy returns.
LEMMA RecvReads ==
    ASSUME SessionTypes, Phase, ClientRecv
    PROVE  LET d == Data(Here, last.size, last.size - cleft) IN
           /\ Download /\ cpc = "recv" /\ cleft \in 1 .. last.size /\ CopyIs(last.size - cleft)
           /\ spc = "getack" /\ c2s = <<>> /\ link = "open"
           /\ IsData(d) /\ sleft = cleft - d.len /\ sleft \in Nat
           /\ sleft > 0 => d.len = MaxLine
           /\ s2c' = <<>> /\ cleft' = sleft /\ copy' = copy \o <<d>>
<1> DEFINE d == Data(Here, last.size, last.size - cleft)
<1>1. /\ cpc = "recv" /\ s2c # <<>>
      /\ \E n \in ReadSome(s2c) :
          /\ s2c' = After(s2c, n)
          /\ copy' = copy \o SubSeq(s2c, 1, n)
          /\ cleft' = cleft - Bytes(SubSeq(s2c, 1, n))
  BY DEF ClientRecv
<1>2. /\ Download /\ cleft \in 1 .. last.size /\ CopyIs(last.size - cleft)
      /\ spc = "getack" /\ c2s = <<>> /\ link = "open"
      /\ s2c = <<d>> /\ sleft = cleft - d.len
  BY <1>1, ClientReads DEF Download, Running
<1>3. last.size \in Int /\ cleft \in Nat \ {0}
  BY <1>2, HereFacts DEF Download
<1>4. IsData(d) /\ d.len \in Nat /\ sleft \in Nat /\ (sleft > 0 => d.len = MaxLine)
  BY <1>2, <1>3, ChunkOf
<1> HIDE DEF d
<1>5. s2c' = <<>> /\ copy' = copy \o <<d>> /\ cleft' = cleft - Bytes(<<d>>)
  BY <1>1, <1>2, ReadOne
<1>6. Bytes(<<d>>) = d.len
  BY <1>4, BytesOfOne
<1> QED BY <1>1, <1>2, <1>4, <1>5, <1>6 DEF d

LEMMA ClientRecvKeeps ==
    ASSUME SessionTypes, Phase, ClientRecv
    PROVE  SessionTypes' /\ Phase'
<1>1. UNCHANGED <<typed, put, slave, met>>
      /\ ClientWrites(<<Info(OK)>>, IF Complete(cleft') THEN "prompt" ELSE "recv")
  BY DEF ClientRecv
<1> DEFINE d == Data(Here, last.size, last.size - cleft)
<1>2. /\ Download /\ cpc = "recv" /\ cleft \in 1 .. last.size /\ CopyIs(last.size - cleft)
      /\ spc = "getack" /\ c2s = <<>> /\ link = "open"
      /\ IsData(d) /\ sleft = cleft - d.len /\ sleft \in Nat
      /\ sleft > 0 => d.len = MaxLine
      /\ s2c' = <<>> /\ cleft' = sleft /\ copy' = copy \o <<d>>
  BY RecvReads
<1>3. /\ SessionTypes' /\ Here' = Here /\ last' = last
      /\ Executed(Here) => Executed(Here)'
  BY <1>1, TypesKept DEF slave
<1>4. c2s' = <<Info(OK)>> /\ link' = "open"
      /\ cpc' = IF cleft' <= 0 THEN "prompt" ELSE "recv"
  BY <1>1, <1>2, ClientWritesTo DEF Complete
<1>5. CASE sleft = 0
  BY <1>1, <1>2, <1>3, <1>4, <1>5 DEF Phase, AtPrompt, Rests, Download, Running, slave
<1>6. CASE sleft > 0
  <2>1. last.size \in Nat /\ MaxLine \in Nat
    BY <1>2, HereFacts, SessionAssumption DEF Download
  <2>2. PICK o \in Nat : o = last.size - cleft
    BY <1>2, <2>1
  <2>3. o + MaxLine = last.size - sleft /\ o + MaxLine <= last.size
    BY <1>2, <1>6, <2>1, <2>2
  <2>4. copy' = copy \o <<Data(Here, last.size, o)>>
    BY <1>2, <2>2
  <2>5. CopyIs(o + MaxLine)'
    BY <1>2, <1>3, <2>1, <2>2, <2>3, <2>4, CopyGrows
  <2>6. CopyIs(last.size - cleft)'
    BY <1>2, <1>3, <2>3, <2>5
  <2>7. cleft' \in 1 .. last'.size /\ cpc' = "recv" /\ sleft = cleft'
    <3>1. sleft = cleft' /\ last'.size = last.size
      BY <1>2, <1>3
    <3>2. PICK r \in Nat : r = sleft
      BY <1>2
    <3>3. r > 0 /\ o + MaxLine = last.size - r
      BY <1>6, <2>3, <3>2
    <3>4. r \in 1 .. last.size
      BY <2>1, <2>2, <3>3
    <3>5. cleft' \in 1 .. last'.size
      BY <3>1, <3>2, <3>4
    <3>6. ~ cleft' <= 0
      BY <2>1, <3>1, <3>2, <3>3
    <3> QED BY <1>4, <3>1, <3>5, <3>6
  <2> QED BY <1>1, <1>2, <1>3, <1>4, <2>6, <2>7 DEF Phase, Download, Running, slave
<1> QED BY <1>2, <1>3, <1>5, <1>6

LEMMA ClientPutOkKeeps ==
    ASSUME SessionTypes, Phase, ClientPutOk
    PROVE  SessionTypes' /\ Phase'
<1>1. /\ cpc = "putok" /\ s2c # <<>> /\ s2c' = Tail(s2c)
      /\ UNCHANGED <<typed, put, slave, met>>
      /\ IF IntOf(s2c) = OK
         THEN ClientWrites(<<Size(last.size)>>,
                           IF last.size = NoFile THEN "prompt" ELSE "putgo")
         ELSE cpc' = "prompt" /\ UNCHANGED <<c2s, link>>
  BY DEF ClientPutOk, last
<1>2. /\ Upload /\ c2s = <<>> /\ put = FALSE /\ link = "open" /\ last.cmd = "PUT"
      /\ \/ spc = "cmd" /\ s2c = <<Info(ERROR_OPEN)>>
         \/ spc = "putsize" /\ s2c = <<Info(OK)>>
  BY <1>1, ClientReads DEF Upload
<1>3. /\ SessionTypes' /\ Here' = Here /\ last' = last
      /\ Executed(Here) => Executed(Here)'
  BY <1>1, TypesKept DEF slave
<1>4. Here > 0 /\ Executed(Here) /\ last.size \in Int /\ last.size >= -1
  BY <1>2, HereFacts DEF Upload
<1>5. CASE spc = "cmd" /\ s2c = <<Info(ERROR_OPEN)>>
  <2>1. IntOf(s2c) # OK /\ s2c' = <<>>
    BY <1>1, <1>5, IntRead, OneMessage, Answers
  <2> QED BY <1>1, <1>2, <1>3, <1>4, <1>5, <2>1 DEF Phase, AtPrompt, Rests, Running, slave
<1>6. CASE spc = "putsize" /\ s2c = <<Info(OK)>>
  <2>1. IntOf(s2c) = OK /\ s2c' = <<>>
    BY <1>1, <1>6, IntRead, OneMessage
  <2>2. /\ c2s' = <<Size(last.size)>> /\ link' = "open"
        /\ cpc' = IF last.size = NoFile THEN "prompt" ELSE "putgo"
    BY <1>1, <1>2, <2>1, ClientWritesTo, OneMessage
  <2>3. CASE last.size = NoFile
    BY <1>1, <1>2, <1>3, <1>4, <1>6, <2>1, <2>2, <2>3 DEF Phase, AtPrompt, Rests, Running, slave
  <2>4. CASE last.size # NoFile
    <3>1. last.size \in Nat
      BY <1>4, <2>4, Answers
    <3> QED BY <1>1, <1>2, <1>3, <1>4, <1>6, <2>1, <2>2, <2>4, <3>1 DEF Phase, Upload, slave
  <2> QED BY <2>3, <2>4
<1> QED BY <1>2, <1>5, <1>6

\* One turn of the loop of envoi_fichier_a_esclave: a chunk, or the end.
LEMMA ClientSendsTo ==
    ASSUME SessionTypes, Here > 0, NEW left \in Nat, ClientSends(left), link = "open"
    PROVE  \/ /\ left > 0 /\ cpc' = "sent" /\ link' = "open" /\ put' = put
              /\ \E d : /\ c2s' = c2s \o <<d>> /\ IsData(d) /\ cleft' \in Nat
                        /\ left = cleft' + d.len /\ (cleft' > 0 => d.len = MaxLine)
           \/ /\ left = 0 /\ cpc' = "prompt" /\ put' = TRUE
              /\ UNCHANGED <<c2s, link, cleft>>
<1>1. CASE left > 0
  <2>1. last.size \in Int
    BY HereFacts
  <2>2. PICK d : d = Data(Here, last.size, last.size - left)
    OBVIOUS
  <2>3. ClientWrites(<<d>>, "sent") /\ cleft' = left - d.len /\ put' = put
    BY <1>1, <2>2 DEF ClientSends, last
  <2>4. /\ IsData(d) /\ d.len \in Nat /\ left - d.len \in Nat
        /\ left - d.len > 0 => d.len = MaxLine
    BY <1>1, <2>1, <2>2, ChunkOf
  <2>5. c2s' = c2s \o <<d>> /\ cpc' = "sent" /\ link' = "open"
    <3>1. PICK msgs : msgs = <<d>>
      OBVIOUS
    <3>2. ClientWrites(msgs, "sent")
      BY <2>3, <3>1
    <3>3. c2s' = c2s \o msgs /\ cpc' = "sent" /\ link' = "open"
      BY <3>2, ClientWritesTo
    <3> QED BY <3>1, <3>3
  <2>6. cleft' \in Nat /\ left = cleft' + d.len /\ (cleft' > 0 => d.len = MaxLine)
    BY <2>3, <2>4
  <2> QED BY <1>1, <2>3, <2>4, <2>5, <2>6
<1>2. CASE left = 0
  BY <1>2 DEF ClientSends
<1>3. left > 0 \/ left = 0
  OBVIOUS
<1> QED BY <1>1, <1>2, <1>3

LEMMA ClientPutGoKeeps ==
    ASSUME SessionTypes, Phase, ClientPutGo
    PROVE  SessionTypes' /\ Phase'
<1>1. /\ cpc = "putgo" /\ s2c # <<>> /\ s2c' = Tail(s2c)
      /\ UNCHANGED <<typed, slave, met>>
      /\ IntOf(s2c) = OK => ClientSends(last.size)
  BY DEF ClientPutGo, last
<1>2. /\ Upload /\ put = FALSE /\ link = "open" /\ last.cmd = "PUT" /\ Here > 0 /\ Executed(Here)
      /\ spc = "putdata" /\ c2s = <<>> /\ s2c = <<Info(OK), Info(OK)>>
      /\ last.size \in Nat \ {0} /\ sleft = last.size
  BY <1>1, ClientReads DEF Upload
<1>3. /\ SessionTypes' /\ Here' = Here /\ last' = last
      /\ Executed(Here) => Executed(Here)'
  BY <1>1, TypesKept DEF slave
<1>4. IntOf(s2c) = OK /\ s2c' = <<Info(OK)>>
  BY <1>1, <1>2, IntRead, TwoMessages
<1>5. /\ cpc' = "sent" /\ link' = "open" /\ put' = put
      /\ \E d : /\ c2s' = c2s \o <<d>> /\ IsData(d) /\ cleft' \in Nat
                /\ last.size = cleft' + d.len /\ (cleft' > 0 => d.len = MaxLine)
  BY <1>1, <1>2, <1>4, ClientSendsTo
<1>6. PICK d : /\ c2s' = <<d>> /\ IsData(d) /\ cleft' \in Nat
               /\ last.size = cleft' + d.len /\ (cleft' > 0 => d.len = MaxLine)
  BY <1>2, <1>5, OneMessage
<1>7. c2s'[1] = d
  BY <1>6
<1>8. Upload'
  BY <1>1, <1>2, <1>3, <1>4, <1>5, <1>6, <1>7 DEF Upload, slave
<1> QED BY <1>3, <1>8 DEF Phase

LEMMA ClientPutAckKeeps ==
    ASSUME SessionTypes, Phase, ClientPutAck
    PROVE  SessionTypes' /\ Phase'
<1>1. /\ cpc = "sent" /\ s2c # <<>> /\ s2c' = Tail(s2c) /\ ClientSends(cleft)
      /\ UNCHANGED <<typed, slave, met>>
  BY DEF ClientPutAck
<1>2. /\ Upload /\ put = FALSE /\ link = "open" /\ last.cmd = "PUT" /\ Here > 0 /\ Executed(Here)
      /\ cleft \in Nat
  BY <1>1, ClientReads DEF Upload
<1>3. /\ SessionTypes' /\ Here' = Here /\ last' = last
      /\ Executed(Here) => Executed(Here)'
  BY <1>1, TypesKept DEF slave
<1>4. \/ /\ cleft > 0 /\ cpc' = "sent" /\ link' = "open" /\ put' = FALSE
         /\ \E d : /\ c2s' = c2s \o <<d>> /\ IsData(d) /\ cleft' \in Nat
                   /\ cleft = cleft' + d.len /\ (cleft' > 0 => d.len = MaxLine)
      \/ /\ cleft = 0 /\ cpc' = "prompt" /\ put' = TRUE
         /\ UNCHANGED <<c2s, link, cleft>>
  BY <1>1, <1>2, ClientSendsTo
<1>5. CASE spc = "cmd" /\ c2s = <<>> /\ s2c = <<Info(OK), Info(OK)>> /\ cleft = 0
  <2>1. s2c' = <<Info(OK)>>
    BY <1>1, <1>5, TwoMessages
  <2> QED BY <1>1, <1>2, <1>3, <1>4, <1>5, <2>1 DEF Phase, Upload, slave
<1>6. CASE /\ spc = "putdata" /\ c2s = <<>> /\ s2c = <<Info(OK), Info(OK)>>
           /\ cleft > 0 /\ sleft = cleft
  <2>1. s2c' = <<Info(OK)>>
    BY <1>1, <1>6, TwoMessages
  <2>2. PICK d : /\ c2s' = <<d>> /\ IsData(d) /\ cleft' \in Nat
                 /\ cleft = cleft' + d.len /\ (cleft' > 0 => d.len = MaxLine)
    BY <1>4, <1>6, OneMessage
  <2>3. c2s'[1] = d
    BY <2>2
  <2> QED BY <1>1, <1>2, <1>3, <1>4, <1>6, <2>1, <2>2, <2>3 DEF Phase, Upload, slave
<1>7. ASSUME NEW d, c2s = <<d>>, IsData(d), spc = "putdata", s2c = <<Info(OK)>>,
             sleft = cleft + d.len, cleft > 0 => d.len = MaxLine
      PROVE  SessionTypes' /\ Phase'
  <2>1. s2c' = <<>>
    BY <1>1, <1>7, OneMessage
  <2>2. CASE cleft > 0
    <3>1. PICK e : /\ c2s' = <<d, e>> /\ IsData(e) /\ cleft' \in Nat
                   /\ cleft = cleft' + e.len /\ (cleft' > 0 => e.len = MaxLine)
      <4>0. cleft # 0
        BY <2>2
      <4>1. PICK e : /\ c2s' = c2s \o <<e>> /\ IsData(e) /\ cleft' \in Nat
                     /\ cleft = cleft' + e.len /\ (cleft' > 0 => e.len = MaxLine)
        BY <1>4, <4>0
      <4>2. <<d>> \o <<e>> = <<d, e>>
        BY TwoMessages
      <4>3. c2s' = <<d, e>>
        BY <1>7, <4>1, <4>2
      <4> QED BY <4>1, <4>3
    <3>2. c2s'[1] = d /\ c2s'[2] = e
      BY <3>1
    <3>3. d.len \in Int /\ e.len \in Int
      BY <1>7, <3>1, SessionAssumption DEF IsData
    <3>4. sleft = cleft' + d.len + e.len
      BY <1>2, <1>7, <3>1, <3>3
    <3>5. Upload'
      BY <1>1, <1>2, <1>3, <1>4, <1>7, <2>1, <2>2, <3>1, <3>2, <3>4 DEF Upload, slave
    <3> QED BY <1>3, <3>5 DEF Phase
  <2>3. CASE cleft = 0
    <3>1. d.len \in Int
      BY <1>7, SessionAssumption DEF IsData
    <3>2. sleft = d.len /\ c2s'[1] = d /\ c2s' = <<d>>
      BY <1>4, <1>7, <2>3, <3>1
    <3>3. Upload'
      BY <1>1, <1>2, <1>3, <1>4, <1>7, <2>1, <2>3, <3>2 DEF Upload, slave
    <3> QED BY <1>3, <3>3 DEF Phase
  <2> QED BY <1>2, <2>2, <2>3
<1> QED BY <1>1, <1>2, <1>5, <1>6, <1>7 DEF Upload

\* The client gives up when both sockets are empty.
LEMMA ClientTimeoutKeeps ==
    ASSUME SessionTypes, Phase, ClientTimeout
    PROVE  SessionTypes' /\ Phase'
<1>1. /\ link = "open" /\ c2s = <<>> /\ ClientWrites(<<>>, "out")
      /\ UNCHANGED <<typed, slave, met>>
  BY DEF ClientTimeout, attente_reponse_expires
<1>2. c2s' = <<>> /\ cpc' = "out" /\ link' # "open"
  BY <1>1, ClientWritesTo
<1>3. SessionTypes' /\ SomeExecuted'
  BY <1>1, TypesKept, PhaseExecuted, SomeExecutedKept DEF slave
<1> QED BY <1>2, <1>3 DEF Phase, Gone

LEMMA ClientEofKeeps ==
    ASSUME SessionTypes, Phase, ClientEof
    PROVE  SessionTypes' /\ Phase'
<1>1. /\ cpc \notin {"prompt", "out"} /\ s2c = <<>> /\ link \in {"closed", "broken"}
      /\ UNCHANGED <<typed, slave, s2c, link, met>>
  BY DEF ClientEof
<1>2. Ended
  BY <1>1 DEF Phase, AtPrompt, Asked, Leaving, Granted, Shown, Swallowed, Download, Upload, Gone,
              Running
<1>3. SessionTypes' /\ SomeExecuted'
  BY <1>1, <1>2, TypesKept, SomeExecutedKept DEF slave, Ended
<1> QED BY <1>1, <1>2, <1>3 DEF Phase, Ended, slave
-----------------------------------------------------------------------------
(* The steps of the slave.                                                 *)

LEMMA SlaveWritesTo ==
    ASSUME NEW msgs, NEW next, SlaveWrites(msgs, next), link = "open"
    PROVE  s2c' = s2c \o msgs /\ spc' = next /\ link' = "open"
<1>1. link' \in {link}
  BY DEF SlaveWrites
<1> QED BY <1>1 DEF SlaveWrites

\* The slave closes the connection, and the client has nothing left to read.
LEMMA SlaveOver ==
    ASSUME SessionTypes, SomeExecuted, NEW n, NEW next \in {"idle", "dead"}, SlaveEnds(n, next),
           UNCHANGED <<client, done>>, met \subseteq met',
           s2c = <<>> \/ cpc = "out" \/ (cpc = "prompt" /\ put)
    PROVE  SessionTypes' /\ Phase'
<1>1. UNCHANGED <<cpc, typed, put>>
  BY DEF client
<1>2. SessionTypes' /\ SomeExecuted'
  BY <1>1, TypesKept, SomeExecutedKept
<1>3. spc' \in {"idle", "spin", "dead"} /\ link' # "open" /\ s2c' = s2c
  BY DEF SlaveEnds
<1>4. s2c' = <<>> \/ cpc' = "out" \/ (cpc' = "prompt" /\ put')
  BY <1>1, <1>3
<1> QED BY <1>2, <1>3, <1>4 DEF Phase, Ended

\* What rests of the former command and is read first.
Precedes(a) ==
    \/ AtPrompt /\ c2s = <<a>>
    \/ (Asked \/ Leaving) /\ c2s = <<a, Cmd(last.cmd)>>

Alone == (Asked \/ Leaving) /\ c2s = <<Cmd(last.cmd)>>

LEMMA RestFound ==
    ASSUME AtPrompt \/ Asked \/ Leaving, c2s # <<>>
    PROVE  \/ spc = "getack" /\ sleft = 0 /\ Precedes(Info(OK))
           \/ spc = "putsize" /\ Precedes(Size(NoFile))
           \/ spc = "getok" /\ met # {} /\ Precedes(Info(ERROR_OPEN))
           \/ /\ spc = "getok" /\ met # {} /\ Alone
              /\ sfile \in 1 .. Here /\ typed[sfile].cmd = "GET" /\ typed[sfile].size = 0
           \/ spc = "cmd" /\ Alone
<1>1. CASE AtPrompt
  BY <1>1 DEF AtPrompt, Rests, Precedes
<1>2. CASE Asked \/ Leaving
  <2>1. PICK left : Rests(left) /\ c2s = left \o <<Cmd(last.cmd)>>
    BY <1>2 DEF Asked, Leaving, CommandSent
  <2>2. left = <<>> => c2s = <<Cmd(last.cmd)>>
    BY <2>1, OneMessage
  <2>3. \A a : left = <<a>> => c2s = <<a, Cmd(last.cmd)>>
    BY <2>1, TwoMessages
  <2> QED BY <1>2, <2>1, <2>2, <2>3 DEF Rests, Precedes, Alone
<1> QED BY <1>1, <1>2

\* It is read, and the slave is back in its command loop.
LEMMA RestRead ==
    ASSUME SessionTypes, NEW a, Precedes(a), c2s' = Tail(c2s), spc' = "cmd",
           UNCHANGED <<client, done, s2c, link, met>>
    PROVE  SessionTypes' /\ Phase'
<1>1. UNCHANGED <<cpc, typed, put>>
  BY DEF client
<1>2. /\ SessionTypes' /\ Here' = Here /\ last' = last
      /\ Executed(Here) => Executed(Here)'
      /\ Executed(Here - 1) => (Executed(Here - 1))'
  BY <1>1, TypesKept
<1>3. Rests(<<>>)'
  BY DEF Rests
<1>4. CASE AtPrompt /\ c2s = <<a>>
  <2>1. c2s' = <<>>
    BY <1>4, OneMessage
  <2> QED BY <1>1, <1>2, <1>3, <1>4, <2>1 DEF Phase, AtPrompt, Running
<1>5. CASE (Asked \/ Leaving) /\ c2s = <<a, Cmd(last.cmd)>>
  <2>1. c2s' = <<Cmd(last.cmd)>>
    BY <1>5, TwoMessages
  <2>2. c2s' = <<>> \o <<Cmd(last'.cmd)>>
    BY <1>2, <2>1, OneMessage
  <2>3. CommandSent'
    BY <1>2, <1>3, <1>5, <2>2 DEF Asked, Leaving, CommandSent
  <2> QED BY <1>1, <1>2, <1>5, <2>3 DEF Phase, Asked, Leaving, Running
<1> QED BY <1>4, <1>5 DEF Precedes

LEMMA SlaveCommandKeeps ==
    ASSUME SessionTypes, Phase, SlaveCommand
    PROVE  SessionTypes' /\ Phase'
<1>1. /\ spc = "cmd" /\ c2s # <<>> /\ c2s' = Tail(c2s) /\ met \subseteq met'
      /\ UNCHANGED <<cpc, typed, put>> /\ UNCHANGED client
  BY DEF SlaveCommand, client
<1>2. Alone
  BY <1>1, SlaveReads, RestFound
<1>3. /\ IntOf(c2s) = Code(last.cmd) /\ c2s' = <<>> /\ last.cmd \in AllCommands
      /\ Here > 0 /\ Executed(Here - 1) /\ Here \in Nat
  <2>1. Here > 0 /\ Executed(Here - 1)
    BY <1>2 DEF Alone, Asked, Leaving, CommandSent
  <2>2. last.cmd \in AllCommands
    BY <2>1, HereFacts
  <2>3. Head(c2s) = Cmd(last.cmd) /\ Tail(c2s) = <<>>
    BY <1>2, OneMessage DEF Alone
  <2> QED BY <1>1, <2>1, <2>2, <2>3, IntRead, HereFacts
<1>4. ArgCommands \subseteq AllCommands /\ TextCommands \subseteq AllCommands
      /\ "EXIT" \in AllCommands /\ TextCommands \cap ArgCommands = {}
      /\ "EXIT" \notin TextCommands \cup ArgCommands
  BY DEF ArgCommands, TextCommands, NameCommands, AllCommands
<1>5. last.cmd # "EXIT" => Asked /\ link = "open" /\ put = FALSE /\ s2c = <<>>
  BY <1>2 DEF Alone, Asked, Leaving, Running
<1>6. CASE \E c \in ArgCommands :
             /\ IntOf(c2s) = Code(c)
             /\ scmd' = c
             /\ SlaveWrites(<<Info(OK)>>, "arg")
             /\ UNCHANGED <<done, told, met>>
  <2>1. /\ last.cmd \in ArgCommands /\ scmd' = last.cmd /\ UNCHANGED <<done, met>>
        /\ SlaveWrites(<<Info(OK)>>, "arg")
    BY <1>3, <1>4, <1>6, CodesDiffer
  <2>2. Asked /\ link = "open" /\ put = FALSE /\ s2c = <<>> /\ last.cmd \notin TextCommands
    BY <1>4, <1>5, <2>1
  <2>3. s2c' = <<Info(OK)>> /\ spc' = "arg" /\ link' = "open"
    BY <2>1, <2>2, SlaveWritesTo, OneMessage
  <2>4. /\ SessionTypes' /\ Here' = Here /\ last' = last
        /\ Executed(Here - 1) => (Executed(Here - 1))'
    BY <1>1, <2>1, TypesKept
  <2>5. Granted'
    BY <1>1, <1>3, <2>1, <2>2, <2>3, <2>4 DEF Granted, Running, Asked
  <2> QED BY <2>4, <2>5 DEF Phase
<1>7. CASE \E c \in TextCommands :
             /\ IntOf(c2s) = Code(c)
             /\ scmd' = c
             /\ done' = Append(done, [cmd |-> c, arg |-> Garbled])
             /\ \/ SlaveWrites(<<Text>>, "cmd") /\ UNCHANGED met
                \/ /\ c = "LS" /\ "empty" \in Faults
                   /\ SlaveWrites(<<>>, "cmd")
                   /\ met' = met \cup {"empty"}
             /\ UNCHANGED told
  <2>1. /\ last.cmd \in TextCommands
        /\ done' = Append(done, [cmd |-> last.cmd, arg |-> Garbled])
        /\ \/ SlaveWrites(<<Text>>, "cmd")
           \/ SlaveWrites(<<>>, "cmd") /\ met' # {}
    <3>1. PICK c \in TextCommands :
             /\ IntOf(c2s) = Code(c)
             /\ done' = Append(done, [cmd |-> c, arg |-> Garbled])
             /\ \/ SlaveWrites(<<Text>>, "cmd")
                \/ SlaveWrites(<<>>, "cmd") /\ met' = met \cup {"empty"}
      BY <1>7
    <3>2. c = last.cmd
      BY <1>3, <1>4, <3>1, CodesDiffer
    <3>3. met' = met \cup {"empty"} => met' # {}
      OBVIOUS
    <3> QED BY <3>1, <3>2, <3>3
  <2>2. Asked /\ link = "open" /\ put = FALSE /\ s2c = <<>>
    BY <1>4, <1>5, <2>1
  <2>3. /\ spc' = "cmd" /\ link' = "open"
        /\ s2c' = <<Text>> \/ (s2c' = <<>> /\ met' # {})
    <3>1. CASE SlaveWrites(<<Text>>, "cmd")
      BY <2>2, <3>1, SlaveWritesTo, OneMessage
    <3>2. CASE SlaveWrites(<<>>, "cmd") /\ met' # {}
      BY <2>2, <3>2, SlaveWritesTo
    <3> QED BY <2>1, <3>1, <3>2
  <2>4. SessionTypes' /\ Executed(Here)'
    <3>1. Garbled \in Nat /\ last.cmd \notin ArgCommands
      BY <1>4, <2>1 DEF Garbled
    <3> QED BY <1>1, <1>3, <2>1, <3>1, ExecutedNow
  <2>5. Here' = Here /\ cpc' = "text"
    BY <1>1, <2>1, <2>2 DEF Here, Asked
  <2>6. Shown'
    BY <1>1, <1>3, <2>2, <2>3, <2>4, <2>5 DEF Shown, Running
  <2> QED BY <2>4, <2>6 DEF Phase
<1>8. CASE IntOf(c2s) = Code("EXIT") /\ SlaveEnds(1, "idle") /\ UNCHANGED done
  <2>1. last.cmd = "EXIT"
    BY <1>3, <1>4, <1>8, CodesDiffer
  <2>2. cpc = "out"
    BY <1>2, <2>1 DEF Alone, Asked, Leaving
  <2> QED BY <1>1, <1>8, <2>2, SlaveOver, PhaseExecuted
<1>9. ~ \A c \in AllCommands : IntOf(c2s) # Code(c)
  BY <1>3
<1> QED BY <1>6, <1>7, <1>8, <1>9 DEF SlaveCommand
LEMMA SlaveArgKeeps ==
    ASSUME SessionTypes, Phase, SlaveArg
    PROVE  SessionTypes' /\ Phase'
<1>1. /\ spc = "arg" /\ c2s # <<>> /\ UNCHANGED <<cpc, typed, put, scmd, met>>
  BY DEF SlaveArg, client
<1>2. Granted /\ c2s = <<Arg(Here)>> /\ s2c = <<>>
  BY <1>1, SlaveReads DEF Granted
<1>3. /\ Here > 0 /\ Here \in Nat /\ Executed(Here - 1) /\ scmd = last.cmd
      /\ last.cmd \in ArgCommands /\ link = "open" /\ put = FALSE
  BY <1>2, HereFacts DEF Granted, Running
<1>4. /\ c2s' = <<>> /\ NameRead(Here) /\ sfile' = Here
      /\ done' = Append(done, [cmd |-> last.cmd, arg |-> Here])
  <2>1. PICK n \in ReadSome(c2s) :
          /\ c2s' = After(c2s, n)
          /\ NameRead(NameOf(SubSeq(c2s, 1, n)))
          /\ done' = Append(done, [cmd |-> scmd, arg |-> NameOf(SubSeq(c2s, 1, n))])
          /\ sfile' = NameOf(SubSeq(c2s, 1, n))
    BY DEF SlaveArg
  <2>2. n = 1 /\ After(c2s, n) = <<>> /\ SubSeq(c2s, 1, n) = <<Arg(Here)>>
    BY <1>2, <2>1, ReadOne
  <2>3. NameOf(<<Arg(Here)>>) = Here
    <3>1. PICK m : m = Arg(Here)
      OBVIOUS
    <3>2. m.kind = "arg" /\ m.val = Here
      BY <3>1 DEF Arg, Msg
    <3>3. Head(<<m>>) = m /\ Len(<<m>>) = 1
      OBVIOUS
    <3>4. NameOf(<<m>>) = Here
      BY <3>2, <3>3 DEF NameOf
    <3> QED BY <3>1, <3>4
  <2> QED BY <1>3, <2>1, <2>2, <2>3
<1>5. SessionTypes' /\ Executed(Here)'
  BY <1>1, <1>3, <1>4, ExecutedNow
<1>6. Here' = Here /\ last' = last
  BY <1>1 DEF Here, last
<1>7. cpc = CASE last.cmd = "GET" -> "size" [] last.cmd = "PUT" -> "putok"
              [] OTHER -> "prompt"
  <2>1. c2s # <<>>
    BY <1>1
  <2> QED BY <1>2, <2>1 DEF Granted
<1>8. "GET" \notin NameCommands /\ "PUT" \notin NameCommands
  BY DEF NameCommands
<1>9. CASE scmd \in NameCommands
  <2>1. SlaveWrites(<<>>, "cmd")
    BY <1>3, <1>4, <1>8, <1>9 DEF NameRead
  <2>2. s2c' = <<>> /\ spc' = "cmd" /\ link' = "open"
    BY <1>2, <1>3, <2>1, SlaveWritesTo
  <2>3. cpc = "prompt"
    BY <1>3, <1>7, <1>8, <1>9
  <2> QED BY <1>1, <1>3, <1>4, <1>5, <2>2, <2>3 DEF Phase, AtPrompt, Running, Rests
<1>10. CASE scmd = "GET"
  <2>1. SizeOnServer(Here) = last.size
    BY <1>3, <1>10 DEF SizeOnServer, Garbled, last
  <2>2. SlaveWrites(<<Size(last.size)>>, IF last.size = NoFile THEN "cmd" ELSE "getok")
    BY <1>4, <1>8, <1>10, <2>1 DEF NameRead
  <2>3. /\ s2c' = <<Size(last.size)>> /\ link' = "open"
        /\ spc' = IF last.size = NoFile THEN "cmd" ELSE "getok"
    BY <1>2, <1>3, <2>2, SlaveWritesTo, OneMessage
  <2>4. cpc = "size" /\ last.cmd = "GET"
    BY <1>3, <1>7, <1>10
  <2> QED BY <1>1, <1>3, <1>4, <1>5, <1>6, <2>3, <2>4 DEF Phase, Download, Running
<1>11. CASE scmd = "PUT"
  <2>1. SlaveWrites(<<Info(OK)>>, "putsize") \/ SlaveWrites(<<Info(ERROR_OPEN)>>, "cmd")
    BY <1>4, <1>8, <1>11 DEF NameRead
  <2>2. /\ link' = "open"
        /\ \/ spc' = "cmd" /\ s2c' = <<Info(ERROR_OPEN)>>
           \/ spc' = "putsize" /\ s2c' = <<Info(OK)>>
    BY <1>2, <1>3, <2>1, SlaveWritesTo, OneMessage
  <2>3. cpc = "putok" /\ last.cmd = "PUT"
    BY <1>3, <1>7, <1>11
  <2> QED BY <1>1, <1>3, <1>4, <1>5, <1>6, <2>2, <2>3 DEF Phase, Upload
<1> QED BY <1>3, <1>9, <1>10, <1>11 DEF ArgCommands

\* One turn of the loop of envoi_fichier_au_client: a chunk, or the end.
LEMMA SlaveSendsTo ==
    ASSUME SessionTypes, sfile \in 1 .. Here, typed[sfile].cmd = "GET", NEW left \in Nat,
           SlaveSends(left), link = "open" \/ left = 0
    PROVE  LET d == Data(sfile, typed[sfile].size, typed[sfile].size - left) IN
           \/ /\ left > 0 /\ spc' = "getack" /\ link' = "open"
              /\ s2c' = s2c \o <<d>> /\ sleft' = left - d.len
           \/ left = 0 /\ spc' = "cmd" /\ UNCHANGED <<s2c, link, sleft>>
<1> DEFINE d == Data(sfile, typed[sfile].size, typed[sfile].size - left)
<1>1. SizeOnServer(sfile) = typed[sfile].size
  <2>1. sfile # Garbled
    BY HereFacts DEF Garbled
  <2> QED BY <2>1 DEF SizeOnServer
<1>2. CASE left > 0
  <2>1. SlaveWrites(<<d>>, "getack") /\ sleft' = left - d.len
    BY <1>1, <1>2 DEF SlaveSends
  <2> HIDE DEF d
  <2>2. PICK msgs : msgs = <<d>>
    OBVIOUS
  <2>3. s2c' = s2c \o msgs /\ spc' = "getack" /\ link' = "open"
    BY <1>2, <2>1, <2>2, SlaveWritesTo
  <2> QED BY <1>2, <2>1, <2>2, <2>3 DEF d
<1>3. CASE left = 0
  BY <1>3 DEF SlaveSends
<1>4. left > 0 \/ left = 0
  OBVIOUS
<1> QED BY <1>2, <1>3, <1>4

LEMMA SlaveGetOkKeeps ==
    ASSUME SessionTypes, Phase, SlaveGetOk
    PROVE  SessionTypes' /\ Phase'
<1>1. /\ spc = "getok" /\ c2s # <<>> /\ c2s' = Tail(c2s)
      /\ UNCHANGED <<client, cpc, typed, put, cleft, copy, sfile, done, met>>
      /\ IF IntOf(c2s) = OK
         THEN SlaveSends(SizeOnServer(sfile))
         ELSE SlaveEnds(0, "idle")
  BY DEF SlaveGetOk, client
<1>2. /\ SessionTypes' /\ Here' = Here /\ last' = last
      /\ Executed(Here) => Executed(Here)'
      /\ Executed(Here - 1) => (Executed(Here - 1))'
  BY <1>1, TypesKept
<1>3. CASE Download
  <2>1. /\ cpc = "recv" /\ cleft \in 1 .. last.size /\ CopyIs(last.size - cleft)
        /\ c2s = <<Info(OK)>> /\ s2c = <<>> /\ cleft = last.size
        /\ put = FALSE /\ link = "open" /\ Here > 0 /\ Executed(Here)
        /\ last.cmd = "GET" /\ sfile = Here
    BY <1>1, <1>3 DEF Download, Running
  <2>2. Here \in 1 .. Here /\ last.size \in Nat \ {0}
    BY <2>1, HereFacts
  <2>3. IntOf(c2s) = OK /\ c2s' = <<>>
    BY <1>1, <2>1, IntRead, OneMessage
  <2>4. SizeOnServer(sfile) = last.size /\ typed[sfile].cmd = "GET" /\ typed[sfile].size = last.size
    BY <2>1, <2>2 DEF SizeOnServer, Garbled, last
  <2>5. LET d == Data(Here, last.size, last.size - last.size) IN
        spc' = "getack" /\ link' = "open" /\ s2c' = s2c \o <<d>> /\ sleft' = last.size - d.len
    <3>1. SlaveSends(last.size)
      BY <1>1, <2>3, <2>4
    <3> QED BY <2>1, <2>2, <2>4, <3>1, SlaveSendsTo
  <2>6. LET d == Data(Here, last.size, last.size - cleft) IN
        s2c' = <<d>> /\ sleft' = cleft - d.len
    BY <2>1, <2>5, OneMessage
  <2>7. CopyIs(last.size - cleft)'
    BY <1>1, <1>2, <2>1 DEF CopyIs
  <2> QED BY <1>1, <1>2, <2>1, <2>3, <2>5, <2>6, <2>7 DEF Phase, Download, Running
<1>4. CASE AtPrompt \/ Asked \/ Leaving
  <2>1. SomeExecuted /\ (s2c = <<>> \/ cpc = "out")
    BY <1>4, PhaseExecuted DEF AtPrompt, Asked, Leaving
  <2>2. ASSUME IntOf(c2s) # OK PROVE SessionTypes' /\ Phase'
    BY <1>1, <2>1, <2>2, SlaveOver
  <2>3. CASE Precedes(Info(ERROR_OPEN))
    <3>1. Head(c2s) = Info(ERROR_OPEN)
      BY <2>3, OneMessage, TwoMessages DEF Precedes
    <3> QED BY <2>2, <3>1, IntRead, Answers
  <2>4. CASE /\ met # {} /\ Alone
             /\ sfile \in 1 .. Here /\ typed[sfile].cmd = "GET" /\ typed[sfile].size = 0
    <3>1. /\ IntOf(c2s) = Code(last.cmd) /\ c2s' = <<>> /\ last.cmd \in AllCommands
          /\ Here > 0 /\ Executed(Here - 1)
      <4>1. Here > 0 /\ Executed(Here - 1)
        BY <2>4 DEF Alone, Asked, Leaving, CommandSent
      <4>2. last.cmd \in AllCommands
        BY <4>1, HereFacts
      <4>3. Head(c2s) = Cmd(last.cmd) /\ Tail(c2s) = <<>>
        BY <2>4, OneMessage DEF Alone
      <4> QED BY <1>1, <4>1, <4>2, <4>3, IntRead
    <3>2. CASE last.cmd # "GET"
      <4>1. "GET" \in AllCommands
        BY DEF AllCommands, ArgCommands
      <4> QED BY <2>2, <3>1, <3>2, <4>1, CodesDiffer
    <3>3. CASE last.cmd = "GET"
      <4>1. Asked
        BY <2>4, <3>3 DEF Alone, Leaving
      <4>2. cpc = "ok" /\ put = FALSE /\ link = "open" /\ s2c = <<>>
        BY <3>3, <4>1 DEF Asked, Running, TextCommands
      <4>3. SizeOnServer(sfile) = 0
        BY <2>4, HereFacts DEF SizeOnServer, Garbled
      <4>4. spc' = "cmd" /\ s2c' = <<>> /\ link' = "open"
        <5>1. SlaveSends(0)
          BY <1>1, <3>1, <3>3, <4>3, CodesDiffer
        <5> QED BY <4>2, <5>1 DEF SlaveSends
      <4> QED BY <1>1, <1>2, <2>4, <3>1, <4>2, <4>4 DEF Phase, Swallowed, Running
    <3> QED BY <3>2, <3>3
  <2> QED BY <1>1, <1>4, <2>3, <2>4, RestFound
<1> QED BY <1>1, <1>3, <1>4, SlaveReads

LEMMA SlaveGetAckKeeps ==
    ASSUME SessionTypes, Phase, SlaveGetAck
    PROVE  SessionTypes' /\ Phase'
<1>1. /\ spc = "getack" /\ c2s # <<>> /\ c2s' = Tail(c2s) /\ SlaveSends(sleft)
      /\ UNCHANGED <<client, cpc, typed, put, cleft, copy, sfile, done, met>>
  BY DEF SlaveGetAck, client
<1>2. /\ SessionTypes' /\ Here' = Here /\ last' = last
      /\ Executed(Here) => Executed(Here)'
  BY <1>1, TypesKept
<1>3. CASE Download
  <2>1. /\ cpc = "recv" /\ cleft \in 1 .. last.size /\ CopyIs(last.size - cleft)
        /\ c2s = <<Info(OK)>> /\ s2c = <<>> /\ sleft = cleft
        /\ put = FALSE /\ link = "open" /\ Here > 0 /\ Executed(Here)
        /\ last.cmd = "GET" /\ sfile = Here
    BY <1>1, <1>3 DEF Download, Running
  <2>2. Here \in 1 .. Here /\ sleft \in Nat \ {0} /\ c2s' = <<>>
    BY <1>1, <2>1, HereFacts, OneMessage
  <2>3. typed[sfile].cmd = "GET" /\ typed[sfile].size = last.size
    BY <2>1 DEF last
  <2>4. LET d == Data(Here, last.size, last.size - cleft) IN
        spc' = "getack" /\ link' = "open" /\ s2c' = s2c \o <<d>> /\ sleft' = cleft - d.len
    BY <1>1, <2>1, <2>2, <2>3, SlaveSendsTo
  <2>5. LET d == Data(Here, last.size, last.size - cleft) IN
        s2c' = <<d>> /\ sleft' = cleft - d.len
    BY <2>1, <2>4, OneMessage
  <2>6. CopyIs(last.size - cleft)'
    BY <1>1, <1>2, <2>1 DEF CopyIs
  <2> QED BY <1>1, <1>2, <2>1, <2>2, <2>4, <2>5, <2>6 DEF Phase, Download, Running
<1>4. CASE AtPrompt \/ Asked \/ Leaving
  <2>1. sleft = 0 /\ Precedes(Info(OK))
    BY <1>1, <1>4, RestFound
  <2>2. spc' = "cmd" /\ UNCHANGED <<s2c, link>>
    BY <1>1, <2>1 DEF SlaveSends
  <2> QED BY <1>1, <2>1, <2>2, RestRead
<1> QED BY <1>1, <1>3, <1>4, SlaveReads
LEMMA SlavePutSizeKeeps ==
    ASSUME SessionTypes, Phase, SlavePutSize
    PROVE  SessionTypes' /\ Phase'
<1>1. /\ spc = "putsize" /\ c2s # <<>> /\ c2s' = Tail(c2s)
      /\ UNCHANGED <<client, cpc, typed, put, done, met>>
      /\ IF IntOf(c2s) > 0
         THEN SlaveWrites(UploadAnswer, "putdata") /\ sleft' = IntOf(c2s)
         ELSE spc' = "cmd" /\ UNCHANGED <<s2c, link>>
  BY DEF SlavePutSize, client
<1>2. /\ SessionTypes' /\ Here' = Here /\ last' = last
      /\ Executed(Here) => Executed(Here)'
  BY <1>1, TypesKept
<1>3. CASE Upload
  <2>1. /\ cpc = "putgo" /\ put = FALSE /\ c2s = <<Size(last.size)>> /\ s2c = <<>>
        /\ last.size \in Nat /\ link = "open" /\ Here > 0 /\ Executed(Here) /\ last.cmd = "PUT"
    BY <1>1, <1>3 DEF Upload
  <2>2. IntOf(c2s) = last.size /\ c2s' = <<>>
    BY <1>1, <2>1, IntRead, OneMessage
  <2>3. CASE last.size = 0
    <3>1. met # {} /\ spc' = "cmd" /\ s2c' = <<>> /\ link' = "open"
      BY <1>1, <2>1, <2>2, <2>3, HereFacts
    <3> QED BY <1>1, <1>2, <2>1, <2>2, <3>1 DEF Phase, Upload
  <2>4. CASE last.size > 0
    <3>1. SlaveWrites(<<Info(OK), Info(OK)>>, "putdata") /\ sleft' = last.size
      <4>1. UploadAnswer = <<Info(OK), Info(OK)>>
        BY TwoMessages DEF UploadAnswer, ReceptionBegins
      <4> QED BY <1>1, <2>2, <2>4, <4>1
    <3>2. PICK msgs : msgs = <<Info(OK), Info(OK)>>
      OBVIOUS
    <3>3. s2c' = s2c \o msgs /\ spc' = "putdata" /\ link' = "open"
      BY <2>1, <3>1, <3>2, SlaveWritesTo
    <3>4. s2c' = <<Info(OK), Info(OK)>>
      BY <2>1, <3>2, <3>3
    <3> QED BY <1>1, <1>2, <2>1, <2>2, <2>4, <3>1, <3>3, <3>4 DEF Phase, Upload
  <2> QED BY <2>1, <2>3, <2>4
<1>4. CASE AtPrompt \/ Asked \/ Leaving
  <2>1. Precedes(Size(NoFile))
    BY <1>1, <1>4, RestFound
  <2>2. Head(c2s) = Size(NoFile)
    BY <2>1, OneMessage, TwoMessages DEF Precedes
  <2>3. ~ (IntOf(c2s) > 0)
    BY <2>2, IntRead, Answers
  <2> QED BY <1>1, <2>1, <2>3, RestRead
<1> QED BY <1>1, <1>3, <1>4, SlaveReads

LEMMA SlavePutDataKeeps ==
    ASSUME SessionTypes, Phase, SlavePutData
    PROVE  SessionTypes' /\ Phase'
<1>1. /\ spc = "putdata" /\ c2s # <<>> /\ UNCHANGED <<cpc, typed, put, cleft, done, met>>
      /\ SlaveWrites(<<Info(OK)>>, IF sleft' <= 0 THEN "cmd" ELSE "putdata")
  BY DEF SlavePutData, client, Complete
<1>2. PICK n \in ReadSome(c2s) :
          c2s' = After(c2s, n) /\ sleft' = sleft - Bytes(SubSeq(c2s, 1, n))
  BY DEF SlavePutData
<1>3. /\ SessionTypes' /\ Here' = Here /\ last' = last
      /\ Executed(Here) => Executed(Here)'
  BY <1>1, TypesKept
<1>4. Upload /\ link = "open" /\ Here > 0 /\ Executed(Here) /\ last.cmd = "PUT"
  BY <1>1, SlaveReads DEF Upload
<1>5. /\ s2c' = s2c \o <<Info(OK)>> /\ link' = "open"
      /\ spc' = IF sleft' <= 0 THEN "cmd" ELSE "putdata"
  <2>1. PICK next : next = IF sleft' <= 0 THEN "cmd" ELSE "putdata"
    OBVIOUS
  <2>2. SlaveWrites(<<Info(OK)>>, next)
    BY <1>1, <2>1
  <2>3. s2c' = s2c \o <<Info(OK)>> /\ link' = "open" /\ spc' = next
    BY <1>4, <2>2, SlaveWritesTo
  <2> QED BY <2>1, <2>3
<1>6. \A d : IsData(d) => d.len \in Nat /\ d.len > 0
  BY SessionAssumption DEF IsData
<1>7. ASSUME NEW d, IsData(d), c2s = <<d>>
      PROVE  c2s' = <<>> /\ sleft' = sleft - d.len
  <2>1. c2s' = <<>> /\ sleft' = sleft - Bytes(<<d>>)
    BY <1>2, <1>7, ReadOne
  <2> QED BY <1>6, <1>7, <2>1, BytesOfOne
<1>8. ASSUME NEW d, NEW e, IsData(d), IsData(e), d.len = MaxLine, c2s = <<d, e>>
      PROVE  c2s' = <<e>> /\ sleft' = sleft - d.len
  <2>1. c2s' = <<e>> /\ sleft' = sleft - Bytes(<<d>>)
    <3>1. /\ ReadSome(c2s) = {1}
          /\ After(c2s, 1) = <<e>> /\ SubSeq(c2s, 1, 1) = <<d>>
      <4>1. /\ ReadSome(<<d, e>>) = {1}
            /\ After(<<d, e>>, 1) = <<e>> /\ SubSeq(<<d, e>>, 1, 1) = <<d>>
        BY <1>8, ReadFirst
      <4> QED BY <1>8, <4>1
    <3> QED BY <1>2, <3>1
  <2> QED BY <1>6, <1>8, <2>1, BytesOfOne
<1>9. CASE cpc = "sent"
  <2>1. put = FALSE /\ cleft \in Nat
    BY <1>4, <1>9 DEF Upload
  <2>2. ASSUME NEW d, c2s = <<d>>, IsData(d), s2c = <<Info(OK)>>,
               sleft = cleft + d.len, cleft > 0 => d.len = MaxLine
        PROVE  SessionTypes' /\ Phase'
    <3>1. c2s' = <<>> /\ sleft' = cleft
      BY <1>6, <1>7, <2>1, <2>2
    <3>2. s2c' = <<Info(OK), Info(OK)>>
      BY <1>5, <2>2, TwoMessages
    <3>3. \/ cleft = 0 /\ spc' = "cmd"
          \/ cleft > 0 /\ spc' = "putdata"
      BY <1>5, <2>1, <3>1
    <3>4. /\ Here' > 0 /\ Executed(Here)' /\ last'.cmd = "PUT" /\ link' = "open"
          /\ cpc' = "sent" /\ put' = FALSE /\ cleft' = cleft /\ cleft' \in Nat
      BY <1>1, <1>3, <1>4, <1>5, <1>9, <2>1
    <3>5. Upload'
      BY <3>1, <3>2, <3>3, <3>4 DEF Upload
    <3> QED BY <1>3, <3>5 DEF Phase
  <2>3. ASSUME NEW d, NEW e, c2s = <<d, e>>, IsData(d), IsData(e), d.len = MaxLine,
               s2c = <<>>, sleft = cleft + d.len + e.len, cleft > 0 => e.len = MaxLine
        PROVE  SessionTypes' /\ Phase'
    <3>1. c2s' = <<e>> /\ sleft' = cleft + e.len /\ sleft' > 0
      BY <1>6, <1>8, <2>1, <2>3
    <3>2. s2c' = <<Info(OK)>> /\ c2s'[1] = e /\ spc' = "putdata"
      BY <1>5, <2>3, <3>1, OneMessage
    <3>3. Upload'
      BY <1>1, <1>3, <1>4, <1>5, <1>9, <2>1, <2>3, <3>1, <3>2 DEF Upload
    <3> QED BY <1>3, <3>3 DEF Phase
  <2> QED BY <1>1, <1>4, <1>9, <2>2, <2>3 DEF Upload
<1>10. CASE cpc = "prompt"
  <2>1. PICK d : c2s = <<d>> /\ IsData(d) /\ sleft = d.len /\ s2c = <<>> /\ put = TRUE
    BY <1>1, <1>4, <1>10 DEF Upload
  <2>2. c2s' = <<>> /\ sleft' = 0
    BY <1>6, <1>7, <2>1
  <2>3. s2c' = <<Info(OK)>> /\ spc' = "cmd"
    BY <1>5, <2>1, <2>2, OneMessage
  <2> QED BY <1>1, <1>3, <1>4, <1>5, <1>10, <2>1, <2>2, <2>3 DEF Phase, Upload
<1> QED BY <1>1, <1>4, <1>9, <1>10 DEF Upload

\* Who waits in vain for the client leaves it nothing to read.
LEMMA QuietEnds ==
    ASSUME SessionTypes, Phase, Quiet
    PROVE  SomeExecuted /\ (s2c = <<>> \/ (cpc = "prompt" /\ put))
<1>1. link = "open" /\ c2s = <<>> /\ (cpc = "prompt" \/ s2c = <<>>)
  BY DEF Quiet
<1>2. CASE cpc = "prompt"
  <2>1. s2c = <<>> \/ put = TRUE
    BY <1>1, <1>2, ClientPrompted DEF AtPrompt, Granted, Upload, Ended
  <2> QED BY <1>2, <2>1, PhaseExecuted
<1> QED BY <1>1, <1>2, PhaseExecuted

LEMMA SlaveTimeoutKeeps ==
    ASSUME SessionTypes, Phase, SlaveTimeout
    PROVE  SessionTypes' /\ Phase'
<1>1. Quiet /\ UNCHANGED <<client, done, met>>
      /\ (SlaveEnds(0, "dead") \/ SlaveEnds(1, "idle"))
  BY DEF SlaveTimeout
<1> QED BY <1>1, QuietEnds, SlaveOver

LEMMA SlaveLongTimeoutKeeps ==
    ASSUME SessionTypes, Phase, SlaveLongTimeout
    PROVE  SessionTypes' /\ Phase'
<1>1. Quiet /\ UNCHANGED <<client, done, met>> /\ SlaveEnds(1, "idle")
  BY DEF SlaveLongTimeout
<1> QED BY <1>1, QuietEnds, SlaveOver

LEMMA SlaveEofKeeps ==
    ASSUME SessionTypes, Phase, SlaveEof
    PROVE  SessionTypes' /\ Phase'
<1>1. /\ spc \notin {"idle", "spin", "dead"} /\ c2s = <<>> /\ link \in {"fin", "rst"}
      /\ UNCHANGED <<cpc, typed, done, c2s, link, met>>
  BY DEF SlaveEof, client
<1>2. cpc = "out" /\ SomeExecuted
  BY <1>1, PhaseExecuted, OneMessage
     DEF Phase, AtPrompt, Asked, Granted, Shown, Swallowed, Download, Upload, Gone, Ended,
         Running, Leaving, CommandSent, Rests
<1>3. SessionTypes' /\ SomeExecuted'
  BY <1>1, <1>2, TypesKept, SomeExecutedKept
<1> QED BY <1>1, <1>2, <1>3 DEF Phase, Gone
-----------------------------------------------------------------------------
(* The invariant.                                                          *)

LEMMA SessionBegins == Init => SessionInv
<1> SUFFICES ASSUME Init PROVE SessionTypes /\ AtPrompt
  BY DEF SessionInv, Phase
<1>1. Here = 0
  BY DEF Init, Here
<1>2. SessionTypes
  BY <1>1 DEF Init, SessionTypes, Here
<1>3. Executed(0)
  BY <1>1 DEF Init, Executed
<1> QED BY <1>1, <1>2, <1>3 DEF Init, AtPrompt, Running, Rests

LEMMA ClientStepKeeps ==
    ASSUME SessionTypes, Phase, ClientStep
    PROVE  SessionTypes' /\ Phase'
BY ClientTextKeeps, ClientOkKeeps, ClientSizeKeeps, ClientRecvKeeps, ClientPutOkKeeps,
   ClientPutGoKeeps, ClientPutAckKeeps, ClientTimeoutKeeps, ClientEofKeeps DEF ClientStep

LEMMA SlaveStepKeeps ==
    ASSUME SessionTypes, Phase, SlaveStep
    PROVE  SessionTypes' /\ Phase'
BY SlaveCommandKeeps, SlaveArgKeeps, SlaveGetOkKeeps, SlaveGetAckKeeps, SlavePutSizeKeeps,
   SlavePutDataKeeps, SlaveTimeoutKeeps, SlaveLongTimeoutKeeps, SlaveEofKeeps DEF SlaveStep

LEMMA ClientInterrupted ==
    ASSUME ClientInterrupt
    PROVE  Interrupted'
<1>1. ClientWrites(<<Cmd("EXIT")>>, "out") /\ "interrupt" \in met'
  BY DEF ClientInterrupt
<1>2. cpc' = "out"
  BY <1>1 DEF ClientWrites
<1> QED BY <1>1, <1>2 DEF Interrupted

LEMMA StaysStill ==
    ASSUME SessionTypes, Phase, UNCHANGED vars
    PROVE  SessionTypes' /\ Phase'
BY DEF vars, client, slave, SessionTypes, Phase, AtPrompt, Asked, Leaving, Granted, Shown,
       Swallowed, Download, Upload, Gone, Ended, CommandSent, Rests, Running, CopyIs, IsData,
       Executed, SomeExecuted, Here, last

\* A client that has gone does nothing.
LEMMA StaysInterrupted ==
    ASSUME Interrupted, [Next]_vars
    PROVE  Interrupted'
<1>1. cpc = "out" /\ "interrupt" \in met
  BY DEF Interrupted
<1>2. ~ ClientInterrupt /\ ~ ClientStep
      /\ ~ \E c \in Commands, n \in Sizes \cup {0, NoFile} : Type(c, n)
  BY <1>1 DEF ClientInterrupt, ClientStep, ClientText, ClientOk, ClientSize, ClientRecv,
              ClientPutOk, ClientPutGo, ClientPutAck, ClientTimeout, ClientEof, Type
<1>3. CASE SlaveStep
  <2>1. UNCHANGED client /\ met \subseteq met'
    BY <1>3 DEF SlaveStep, SlaveCommand, SlaveArg, SlaveGetOk, SlaveGetAck, SlavePutSize,
                SlavePutData, SlaveTimeout, SlaveLongTimeout, SlaveEof
  <2> QED BY <1>1, <2>1 DEF Interrupted, client
<1>4. CASE UNCHANGED vars
  BY <1>1, <1>4 DEF Interrupted, vars, client
<1> QED BY <1>2, <1>3, <1>4 DEF Next

LEMMA MetGrows ==
    ASSUME [Next]_vars
    PROVE  met \subseteq met'
BY DEF Next, ClientInterrupt, ClientStep, ClientText, ClientOk, ClientSize, ClientRecv,
       ClientPutOk, ClientPutGo, ClientPutAck, ClientTimeout, ClientEof, Type,
       SlaveStep, SlaveCommand, SlaveArg, SlaveGetOk, SlaveGetAck, SlavePutSize,
       SlavePutData, SlaveTimeout, SlaveLongTimeout, SlaveEof, vars

LEMMA SessionGoesOn == SessionInv /\ [Next]_vars => SessionInv'
<1> SUFFICES ASSUME SessionInv, [Next]_vars, Calm'
             PROVE  (SessionTypes' /\ Phase') \/ Interrupted'
  BY DEF SessionInv
<1>1. Calm
  BY MetGrows DEF Calm
<1>2. CASE Interrupted
  BY <1>2, StaysInterrupted
<1>3. CASE SessionTypes /\ Phase
  <2>1. CASE \E c \in Commands, n \in Sizes \cup {0, NoFile} : Type(c, n)
    BY <1>3, <2>1, TypeKeeps
  <2>2. CASE ClientInterrupt
    BY <2>2, ClientInterrupted
  <2>3. CASE ClientStep
    BY <1>3, <2>3, ClientStepKeeps
  <2>4. CASE SlaveStep
    BY <1>3, <2>4, SlaveStepKeeps
  <2>5. CASE UNCHANGED vars
    BY <1>3, <2>5, StaysStill
  <2> QED BY <2>1, <2>2, <2>3, <2>4, <2>5 DEF Next
<1> QED BY <1>1, <1>2, <1>3 DEF SessionInv

\* Between two commands, and at every point of one, the client and the slave
\* are in one of the ten states of Phase, until the client is interrupted, for
\* a user who makes uploads last and does not type ahead.
THEOREM SessionInvariant == Spec => []SessionInv
<1>1. Init => SessionInv
  BY SessionBegins
<1>2. SessionInv /\ [Next]_vars => SessionInv'
  BY SessionGoesOn
<1> QED BY <1>1, <1>2, PTL DEF Spec

-----------------------------------------------------------------------------
(* What follows.                                                           *)

LEMMA PhaseInStep ==
    ASSUME SessionTypes, Phase, met = {}
    PROVE  InStep
<1> USE OneMessage, TwoMessages
<1>1. ASSUME cpc \in DOMAIN ClientExpects, s2c # <<>>
      PROVE  Head(s2c).kind = ClientExpects[cpc]
  <2>1. cpc \in {"text", "ok", "size", "recv", "putok", "putgo", "sent"}
    BY <1>1 DEF ClientExpects
  <2>2. /\ \A v : Info(v).kind = "info" /\ Size(v).kind = "size"
        /\ Text.kind = "text" /\ \A k, n, o : Data(k, n, o).kind = "data"
    BY DEF Info, Size, Text, Data, Msg
  <2>3. CASE cpc = "text"
    <3>1. s2c = <<Text>>
      BY <1>1, <2>3, ClientReads DEF Shown
    <3> QED BY <2>2, <2>3, <3>1 DEF ClientExpects
  <2>4. CASE cpc = "ok"
    <3>1. s2c = <<Info(OK)>>
      BY <1>1, <2>4, ClientReads DEF Granted
    <3> QED BY <2>2, <2>4, <3>1 DEF ClientExpects
  <2>5. CASE cpc = "size"
    <3>1. s2c = <<Size(last.size)>>
      BY <1>1, <2>5, ClientReads DEF Download
    <3> QED BY <2>2, <2>5, <3>1 DEF ClientExpects
  <2>6. CASE cpc = "recv"
    <3>1. s2c = <<Data(Here, last.size, last.size - cleft)>>
      BY <1>1, <2>6, ClientReads DEF Download
    <3>2. PICK d : d = Data(Here, last.size, last.size - cleft)
      OBVIOUS
    <3>3. Head(s2c) = d /\ d.kind = "data"
      BY <2>2, <3>1, <3>2
    <3> QED BY <2>6, <3>3 DEF ClientExpects
  <2>7. CASE cpc \in {"putok", "putgo", "sent"}
    <3>1. Head(s2c) = Info(OK) \/ Head(s2c) = Info(ERROR_OPEN)
      BY <1>1, <2>7, ClientReads DEF Upload
    <3> QED BY <2>2, <2>7, <3>1 DEF ClientExpects
  <2> QED BY <2>1, <2>3, <2>4, <2>5, <2>6, <2>7
<1>2. ASSUME spc \in DOMAIN SlaveExpects, c2s # <<>>
      PROVE  Head(c2s).kind = SlaveExpects[spc]
  <2>1. spc \in {"cmd", "arg", "getok", "getack", "putsize", "putdata"}
    BY <1>2 DEF SlaveExpects
  <2>2. /\ \A v : Info(v).kind = "info" /\ Size(v).kind = "size" /\ Cmd(v).kind = "cmd"
        /\ \A k : Arg(k).kind = "arg"
    BY DEF Info, Size, Cmd, Arg, Msg
  <2>3. CASE spc = "cmd"
    <3>1. c2s = <<Cmd(last.cmd)>>
      BY <1>2, <2>3, SlaveReads, RestFound DEF Alone
    <3> QED BY <2>2, <2>3, <3>1 DEF SlaveExpects
  <2>4. CASE spc = "arg"
    <3>1. c2s = <<Arg(Here)>>
      BY <1>2, <2>4, SlaveReads DEF Granted
    <3> QED BY <2>2, <2>4, <3>1 DEF SlaveExpects
  <2>5. CASE spc \in {"getok", "getack"}
    <3>1. CASE Download
      <4>1. c2s = <<Info(OK)>>
        BY <1>2, <2>5, <3>1 DEF Download
      <4> QED BY <2>2, <2>5, <4>1 DEF SlaveExpects
    <3>2. CASE AtPrompt \/ Asked \/ Leaving
      <4>1. Precedes(Info(OK))
        BY <1>2, <2>5, <3>2, RestFound
      <4>2. Head(c2s) = Info(OK)
        BY <4>1 DEF Precedes
      <4> QED BY <2>2, <2>5, <4>2 DEF SlaveExpects
    <3> QED BY <1>2, <2>5, <3>1, <3>2, SlaveReads
  <2>6. CASE spc = "putsize"
    <3>1. CASE Upload
      <4>1. c2s = <<Size(last.size)>>
        BY <1>2, <2>6, <3>1 DEF Upload
      <4> QED BY <2>2, <2>6, <4>1 DEF SlaveExpects
    <3>2. CASE AtPrompt \/ Asked \/ Leaving
      <4>1. Precedes(Size(NoFile))
        BY <1>2, <2>6, <3>2, RestFound
      <4>2. Head(c2s) = Size(NoFile)
        BY <4>1 DEF Precedes
      <4> QED BY <2>2, <2>6, <4>2 DEF SlaveExpects
    <3> QED BY <1>2, <2>6, <3>1, <3>2, SlaveReads
  <2>7. CASE spc = "putdata"
    <3>1. PICK d : IsData(d) /\ Head(c2s) = d
      <4>1. \/ \E d : c2s = <<d>> /\ IsData(d)
            \/ \E d, e : c2s = <<d, e>> /\ IsData(d)
        BY <1>2, <2>7, SlaveReads DEF Upload
      <4> QED BY <4>1
    <3> QED BY <2>7, <3>1 DEF SlaveExpects, IsData
  <2> QED BY <2>1, <2>3, <2>4, <2>5, <2>6, <2>7
<1> QED BY <1>1, <1>2 DEF InStep

\* As long as nothing unusual happens no read of either side takes a message
\* for another: the answers, sizes, names and chunks of client.c and slave.c
\* are told apart by their order only, and the two orders are the same.
THEOREM NoMessageIsMistaken == Spec => []InStep
<1>1. SessionInv => InStep
  <2> SUFFICES ASSUME SessionInv, met = {} PROVE InStep
    BY DEF InStep
  <2>1. Calm /\ ~ Interrupted
    BY DEF Calm, Interrupted
  <2> QED BY <2>1, PhaseInStep DEF SessionInv
<1> QED BY <1>1, SessionInvariant, PTL

\* The slave executes what the user typed, in order, each command with its own
\* argument: slave.c reads the code and the name of a command separately, and
\* no byte of another command or of a transfer comes between them.
THEOREM SlaveExecutesTyped == Spec => []ExecutesTyped
<1>1. SessionInv => ExecutesTyped
  <2> SUFFICES ASSUME SessionInv, met \subseteq {"empty", "unwritable"} PROVE ExecutesTyped
    BY DEF ExecutesTyped
  <2>1. Calm /\ ~ Interrupted
    BY DEF Calm, Interrupted
  <2>2. SessionTypes /\ SomeExecuted
    BY <2>1, PhaseExecuted DEF SessionInv
  <2>3. PICK k \in 0 .. Here : Executed(k)
    BY <2>2 DEF SomeExecuted
  <2>4. Here \in Nat
    BY <2>2, HereFacts
  <2> QED BY <2>3, <2>4 DEF Executed, ExecutesTyped, Here
<1> QED BY <1>1, SessionInvariant, PTL

LEMMA DivisionOf ==
    ASSUME NEW m \in Nat \ {0}, NEW q \in Nat, NEW r \in 0 .. m - 1
    PROVE  (m * q + r) \div m = q
OBVIOUS

\* The last chunk read completes the copy.
LEMMA CopyEnds ==
    ASSUME SessionTypes, Phase, ClientRecv, cpc' = "prompt"
    PROVE  copy' = Chunks(Here, last.size)
<1> DEFINE d == Data(Here, last.size, last.size - cleft)
<1>1. /\ Download /\ cleft \in 1 .. last.size /\ CopyIs(last.size - cleft) /\ link = "open"
      /\ IsData(d) /\ sleft = cleft - d.len /\ sleft \in Nat
      /\ cleft' = sleft /\ copy' = copy \o <<d>>
  BY RecvReads
<1>2. sleft = 0
  <2>1. ClientWrites(<<Info(OK)>>, IF Complete(cleft') THEN "prompt" ELSE "recv")
    BY DEF ClientRecv
  <2>2. cpc' = IF Complete(cleft') THEN "prompt" ELSE "recv"
    BY <1>1, <2>1 DEF ClientWrites
  <2>3. cleft' <= 0
    BY <2>2 DEF Complete
  <2> QED BY <1>1, <2>3
<1>3. /\ last.size \in Nat /\ MaxLine \in Nat \ {0} /\ cleft \in Nat
      /\ cleft \in 1 .. MaxLine
  <2>1. last.size \in Int /\ MaxLine \in Nat \ {0}
    BY <1>1, HereFacts, SessionAssumption DEF Download
  <2>2. d.len \in 1 .. MaxLine
    BY <1>1 DEF IsData
  <2> QED BY <1>1, <1>2, <2>1, <2>2
<1>4. PICK j \in 0 .. last.size :
          /\ last.size - cleft = MaxLine * j
          /\ copy = [i \in 1 .. j |-> Data(Here, last.size, MaxLine * (i - 1))]
  BY <1>1 DEF CopyIs
<1>5. j \in Nat
  BY <1>3
<1>6. copy' = [i \in 1 .. j + 1 |-> Data(Here, last.size, MaxLine * (i - 1))]
  <2>1. copy' = copy \o <<Data(Here, last.size, MaxLine * j)>>
    BY <1>1, <1>4
  <2> QED BY <1>4, <1>5, <2>1, ChunkAppended
<1>7. (last.size + MaxLine - 1) \div MaxLine = j + 1
  <2>1. cleft - 1 \in 0 .. MaxLine - 1 /\ j + 1 \in Nat
    BY <1>3, <1>5
  <2>2. last.size + MaxLine - 1 = MaxLine * (j + 1) + (cleft - 1)
    BY <1>3, <1>4, <1>5
  <2>3. (MaxLine * (j + 1) + (cleft - 1)) \div MaxLine = j + 1
    BY <1>3, <2>1, DivisionOf
  <2> QED BY <2>2, <2>3
<1> QED BY <1>6, <1>7 DEF Chunks

\* A client that announces a download as done has the server's file, whatever
\* its size and MAXLINE: reception_fichier of client.c returns when as many
\* bytes as the slave announced were read, and these are the chunks of
\* envoi_fichier_au_client, all of them, once and in order.
THEOREM DownloadIsWhole == Spec => GetDeliversInStep
<1> DEFINE Delivers ==
        (/\ cpc = "recv" /\ cpc' = "prompt" /\ link \notin {"closed", "broken"}
         /\ met \cap {"afterput", "typeahead"} = {})
            => copy' = Chunks(Here, typed[Here].size)
<1>1. SessionInv /\ [Next]_vars => [Delivers]_vars
  <2> SUFFICES ASSUME SessionInv, [Next]_vars, cpc = "recv", cpc' = "prompt",
                      link \notin {"closed", "broken"}, Calm
               PROVE  copy' = Chunks(Here, last.size)
    BY DEF Calm, last
  <2>1. SessionTypes /\ Phase
    BY DEF SessionInv, Interrupted
  <2>2. ~ UNCHANGED cpc
    OBVIOUS
  <2>3. ClientRecv
    <3>1. ~ SlaveStep
      BY <2>2 DEF client, SlaveStep, SlaveCommand, SlaveArg, SlaveGetOk, SlaveGetAck, SlavePutSize,
                SlavePutData, SlaveTimeout, SlaveLongTimeout, SlaveEof
    <3>2. ~ UNCHANGED vars
      BY <2>2 DEF vars, client
    <3>3. ~ ClientInterrupt
      BY DEF ClientInterrupt, ClientWrites
    <3>4. ~ ClientTimeout
      BY DEF ClientTimeout, ClientWrites
    <3>5. ~ \E c \in Commands, n \in Sizes \cup {0, NoFile} : Type(c, n)
      BY DEF Type
    <3> QED BY <3>1, <3>2, <3>3, <3>4, <3>5
            DEF Next, ClientStep, ClientText, ClientOk, ClientSize, ClientPutOk, ClientPutGo,
                ClientPutAck, ClientEof
  <2> QED BY <2>1, <2>3, CopyEnds
<1>2. Spec => [][Delivers]_vars
  <2> HIDE DEF Delivers
  <2> QED BY <1>1, SessionInvariant, PTL DEF Spec
<1> QED BY <1>2 DEF GetDeliversInStep
=============================================================================
