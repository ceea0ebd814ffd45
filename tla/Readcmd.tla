------------------------------ MODULE Readcmd ------------------------------
(***************************************************************************)
(* SR/Projet/readcmd.c: a line of the terminal is split in words, the      *)
(* words are grouped into the commands of a pipe and its redirections.     *)
(* projet_ftp/parse.c splits its lines with the same code.                 *)
(*                                                                         *)
(* A character is "a" or "x" (any letter; a word of one "x" stands for     *)
(* "exit"), " " (any blank), an operator or a line feed.  A word is kept   *)
(* as its place in the line, with whether it is a literal of the program   *)
(* ("<", ">", "|" or "&") or was allocated: what matters is which words    *)
(* are freed.                                                              *)
(***************************************************************************)
EXTENDS Integers, Sequences, FiniteSets, SequencesExt

CONSTANT BufLen     \* what readline allocates first, 16 in the code
ASSUME BufLenAssumption == BufLen \in Nat /\ BufLen >= 2

Ends_line(s) == s # <<>> /\ Last(s) = "\n"

\* fgets(, n, ): at most n - 1 characters, up to the first line feed.
fgets(input, n) ==
    LET stops == {k \in 1..Len(input) : k = n - 1 \/ k = Len(input) \/ input[k] = "\n"}
    IN IF stops = {} THEN <<>>
       ELSE SubSeq(input, 1, CHOOSE k \in stops : \A j \in stops : k <= j)

\* How many characters readline takes: a piece that ends no line is kept in
\* buf, whose size doubles, and fgets goes on behind it.
Taken(input) ==
    LET more[buf \in [len : Nat, l : 0..Len(input)]] ==
            LET got == fgets(SubSeq(input, buf.l + 1, Len(input)), buf.len - buf.l)
                end == buf.l + Len(got)
            IN IF got = <<>> \/ Ends_line(got) THEN end
               ELSE more[[len |-> 2 * buf.len, l |-> end]]
    IN more[[len |-> BufLen, l |-> 0]]

\* The line at the head of the input, without its line feed, and the rest of
\* the input; line is "null" when the input is over.
readline(input) ==
    LET read == SubSeq(input, 1, Taken(input))
    IN [null |-> Taken(input) = 0,
        line |-> IF Ends_line(read) THEN Front(read) ELSE read,
        rest |-> SubSeq(input, Taken(input) + 1, Len(input))]

-----------------------------------------------------------------------------
Operators == {"<", ">", "|"}
Blank == " "

Mut_StopsAtAmpersand == Operators \cup {Blank, "&"}
\* What ends a word that was allocated: '&' does not.
Stops == Operators \cup {Blank}

\* Where the word that starts at k ends.
WordEnd(line, k) ==
    CHOOSE e \in k..Len(line) :
        /\ e = Len(line) \/ line[e + 1] \in Stops
        /\ \A j \in k..(e - 1) : line[j + 1] \notin Stops

split_in_words(line) ==
    LET from[k \in 1..(Len(line) + 1)] ==
            IF k > Len(line) THEN <<>>
            ELSE IF line[k] = Blank THEN from[k + 1]
            ELSE IF line[k] \in Operators \cup {"&"}
            THEN <<[from |-> k, to |-> k, op |-> line[k]]>> \o from[k + 1]
            ELSE <<[from |-> k, to |-> WordEnd(line, k), op |-> "word"]>>
                    \o from[WordEnd(line, k) + 1]
    IN from[1]

Literal(word) == word.op # "word"

-----------------------------------------------------------------------------
(* readcmd: the loop over the words, a fold whose state is s with the      *)
(* command and the sequence being built, all words by their index.  take   *)
(* is the redirection whose file name comes next; at is where the loop     *)
(* left on an error.                                                       *)

NewCmdline == [err |-> FALSE, in |-> 0, out |-> 0, background |-> FALSE,
               cmd |-> <<>>, seq |-> <<>>, take |-> "none", at |-> 0]

Error(s, i) == [s EXCEPT !.err = TRUE, !.at = i]

Redirect(s, i, n, which) ==
    IF s[which] # 0 \/ i = n THEN Error(s, i) ELSE [s EXCEPT !.take = which]

ReadWord(s, i, words) ==
    CASE s.err -> s
      [] ~ s.err /\ s.take = "in" -> [s EXCEPT !.in = i, !.take = "none"]
      [] ~ s.err /\ s.take = "out" -> [s EXCEPT !.out = i, !.take = "none"]
      [] OTHER ->
        CASE words[i].op = "<" -> Redirect(s, i, Len(words), "in")
          [] words[i].op = ">" -> Redirect(s, i, Len(words), "out")
          [] words[i].op = "|" ->
                IF s.cmd = <<>> THEN Error(s, i)
                ELSE [s EXCEPT !.seq = Append(@, s.cmd), !.cmd = <<>>]
          [] words[i].op = "&" -> [s EXCEPT !.background = TRUE]
          [] OTHER -> [s EXCEPT !.cmd = Append(@, i)]

\* The end of the loop: a last command, or a pipe with nothing after it.
LastCommand(s, n) ==
    CASE s.err -> s
      [] ~ s.err /\ s.cmd # <<>> -> [s EXCEPT !.seq = Append(@, s.cmd), !.cmd = <<>>]
      [] ~ s.err /\ s.cmd = <<>> /\ s.seq # <<>> -> Error(s, n)
      [] OTHER -> s

\* The names of the files of the redirections.
Files(s) ==
    (IF s.in = 0 THEN <<>> ELSE <<s.in>>) \o (IF s.out = 0 THEN <<>> ELSE <<s.out>>)

\* The words freecmd frees, in its order.
freecmd(s) == Files(s) \o FlattenSeq(s.seq)

Mut_ErrorKeepsRest(s, words) == <<>>
\* The words that follow the error are freed, but the operators: those of
\* the list at readcmd.c:261, which forgets '&'.
FreeRest(s, words) ==
    LET free[k \in 0..(Len(words) - s.at)] ==
            IF k = 0 THEN <<>>
            ELSE IF words[s.at + k].op \in Operators THEN free[k - 1]
            ELSE Append(free[k - 1], s.at + k)
    IN free[Len(words) - s.at]

\* The structure when the loop and the tests behind it are over.
ReadAll(words) ==
    LET loop[i \in 0..Len(words)] ==
            IF i = 0 THEN NewCmdline ELSE ReadWord(loop[i - 1], i, words)
    IN LastCommand(loop[Len(words)], Len(words))

\* What readcmd returns for these words, and what it freed: nothing, or on an
\* error all it had.
readcmd(words) ==
    LET s == ReadAll(words)
    IN IF ~ s.err THEN [s |-> s, freed |-> <<>>]
       ELSE [s |-> [s EXCEPT !.in = 0, !.out = 0, !.seq = <<>>, !.cmd = <<>>],
             freed |-> FreeRest(s, words) \o FlattenSeq(s.seq) \o s.cmd
                       \o Files(s)]

\* free() of a literal: undefined, glibc aborts.
FreesLiteral(freed, words) == \E k \in DOMAIN freed : Literal(words[freed[k]])

-----------------------------------------------------------------------------
(* What these functions promise of an input.                               *)

\* readline returns the first line whatever its length, and leaves the others.
ReadsOneLine(input) ==
    LET r == readline(input) IN
    /\ r.null <=> input = <<>>
    /\ "\n" \notin Range(r.line)
    /\ input = r.line \o r.rest \/ input = Append(r.line, "\n") \o r.rest
    /\ "\n" \in Range(input) => input = Append(r.line, "\n") \o r.rest

\* The words are the characters that are not blanks, in order, each once; an
\* operator is a word, and a word of letters is as long as it can be.
SplitsInWords(line) ==
    LET words == split_in_words(line) IN
    /\ \A k \in 1..Len(line) :
        Cardinality({w \in DOMAIN words : k \in words[w].from..words[w].to})
            = IF line[k] = Blank THEN 0 ELSE 1
    /\ \A w \in DOMAIN words :
        LET first == words[w].from
            last == words[w].to
        IN /\ w > 1 => words[w - 1].to < first
           /\ IF Literal(words[w])
              THEN first = last /\ line[first] = words[w].op
              ELSE /\ line[first] # "&"
                   /\ \A k \in first..last : line[k] \notin Operators
                   /\ last < Len(line) => line[last + 1] \in Operators \cup {Blank}

\* No '&', and the name of a file behind each redirection.
NamesItsFiles(words) ==
    \A w \in DOMAIN words :
        /\ words[w].op # "&"
        /\ words[w].op \in {"<", ">"} => w < Len(words) /\ words[w + 1].op = "word"

\* Every allocated word has one owner, the structure or free(), never two;
\* only a redirection to an operator, or an '&' after an error, gives free()
\* a literal.
OwnsWords(line) ==
    LET words == split_in_words(line)
        r == readcmd(words)
        owned == freecmd(r.s) \o r.freed
    IN /\ IsInjective(owned)
       /\ {w \in DOMAIN words : ~ Literal(words[w])} \subseteq Range(owned)
       /\ r.s.err \/ r.freed = <<>>
       /\ NamesItsFiles(words) => ~ FreesLiteral(owned, words)
=============================================================================
