------------------------- MODULE CommandLineProofs -------------------------
(***************************************************************************)
(* Proofs about CommandLine for every buffer size, every set of names and  *)
(* lines of any length.  The parser's loop is a recursive function; what    *)
(* it leaves in the tokens is shown by induction over its rounds, with the *)
(* lemmas of Iteration.                                                    *)
(***************************************************************************)
EXTENDS CommandLine, Iteration, SequenceTheorems

-----------------------------------------------------------------------------
(* Least elements and scans.                                               *)

LEMMA MinIsLeast ==
  ASSUME NEW T \in SUBSET Nat, T # {}
  PROVE  Min(T) \in T /\ \A y \in T : Min(T) <= y
BY LeastNatural DEF Min

LEMMA MinIs ==
  ASSUME NEW T \in SUBSET Nat, NEW x \in T, \A y \in T : x <= y
  PROVE  Min(T) = x
<1>1. Min(T) \in T /\ Min(T) <= x
  BY MinIsLeast
<1>2. x <= Min(T)
  BY <1>1
<1>3. Min(T) \in Nat /\ x \in Nat
  BY <1>1
<1>4. \A a, b \in Nat : a <= b /\ b <= a => a = b
  OBVIOUS
<1>5. QED
  BY <1>1, <1>2, <1>3, <1>4

LEMMA SizeAndPositions ==
  /\ Size \in Nat /\ Size > 1
  /\ Positions = 0 .. (Size - 1)
  /\ Positions \subseteq Nat
BY CommandLineAssumption DEF Positions

LEMMA FirstIsLeast ==
  ASSUME NEW P \in SUBSET Positions
  PROVE  /\ First(P) \in P \cup {Size}
         /\ First(P) \in 0 .. Size
         /\ \A r \in P : First(P) <= r
<1>1. P \cup {Size} \in SUBSET Nat /\ P \cup {Size} # {}
  BY SizeAndPositions
<1>2. First(P) \in P \cup {Size} /\ \A r \in P \cup {Size} : First(P) <= r
  BY <1>1, MinIsLeast DEF First
<1>3. First(P) \in 0 .. Size
  <2>1. \A x \in Positions \cup {Size} : x \in 0 .. Size
    BY SizeAndPositions
  <2>2. QED
    BY <1>2, <2>1
<1>4. QED
  BY <1>2, <1>3

LEMMA FirstIs ==
  ASSUME NEW P \in SUBSET Positions, NEW x \in P, \A r \in P : x <= r
  PROVE  First(P) = x
<1>1. First(P) \in P \cup {Size} /\ First(P) <= x /\ First(P) \in 0 .. Size
  BY FirstIsLeast
<1>2. First(P) \in P
  BY <1>1, SizeAndPositions
<1>3. QED
  BY <1>1, <1>2, SizeAndPositions

-----------------------------------------------------------------------------
(* atoi.                                                                   *)

LEMMA DigitType ==
  ASSUME NEW c, IsDigit(c)
  PROVE  (CHOOSE d \in 0 .. 9 : Digits[d + 1] = c) \in 0 .. 9
<1>1. \E d \in 0 .. 9 : Digits[d + 1] = c
  <2>1. PICK i \in DOMAIN Digits : Digits[i] = c
    BY DEF IsDigit, ToSet
  <2>2. i \in 1 .. 10
    BY <2>1 DEF Digits
  <2>3. i - 1 \in 0 .. 9 /\ (i - 1) + 1 = i
    BY <2>2
  <2>4. QED
    BY <2>1, <2>3
<1>2. QED
  BY <1>1

LEMMA ValueType ==
  ASSUME NEW m \in Nat, NEW digits \in Seq(STRING), Len(digits) = m,
         \A n \in 1 .. m : IsDigit(digits[n])
  PROVE  Value(digits) \in Nat
<1> DEFINE D(n) == CHOOSE d \in 0 .. 9 : Digits[d + 1] = digits[n]
           V == CHOOSE v : v = [n \in 0 .. m |-> IF n = 0 THEN 0 ELSE 10 * v[n - 1] + D(n)]
           F == [x \in Nat \X (0 .. m - 1) |-> 10 * x[1] + D(x[2] + 1)]
<1>1. Value(digits) = V[m]
  BY DEF Value
<1>2. ASSUME NEW n \in 1 .. m PROVE D(n) \in Nat
  <2>1. D(n) \in 0 .. 9
    BY DigitType
  <2> HIDE DEF D
  <2>2. QED
    BY <2>1
<1> HIDE DEF D
<1>3. F \in Steps(Nat, m)
  <2>1. ASSUME NEW x \in Nat \X (0 .. m - 1) PROVE 10 * x[1] + D(x[2] + 1) \in Nat
    <3>1. x[1] \in Nat /\ x[2] + 1 \in 1 .. m
      OBVIOUS
    <3>2. D(x[2] + 1) \in Nat
      BY <3>1, <1>2
    <3>3. QED
      BY <3>1, <3>2
  <2>2. QED
    BY <2>1 DEF Steps
<1>4. \E v : v = [n \in 0 .. m |-> IF n = 0 THEN 0 ELSE 10 * v[n - 1] + D(n)]
  <2>1. PICK v : Values(Nat, F, 0, m, v)
    <3> HIDE DEF F
    <3>1. 0 \in Nat
      OBVIOUS
    <3>2. QED
      BY <1>3, <3>1, ValuesExist
  <2>2. v \in [0 .. m -> Nat] /\ v[0] = 0
    BY <2>1 DEF Values
  <2>3. ASSUME NEW n \in 0 .. m, n # 0 PROVE v[n] = 10 * v[n - 1] + D(n)
    <3>1. n - 1 \in 0 .. m - 1 /\ n - 1 \in 0 .. m /\ (n - 1) + 1 = n
      BY <2>3
    <3>2. v[n] = F[<<v[n - 1], n - 1>>] /\ v[n - 1] \in Nat
      <4> HIDE DEF F
      <4>1. \A i \in 0 .. m - 1 : v[i + 1] = F[<<v[i], i>>]
        BY <2>1 DEF Values
      <4>2. QED
        BY <4>1, <2>2, <3>1
    <3>3. QED
      BY <3>1, <3>2
  <2>4. QED
    BY <2>2, <2>3
<1>5. V = [n \in 0 .. m |-> IF n = 0 THEN 0 ELSE 10 * V[n - 1] + D(n)]
  BY <1>4
<1> HIDE DEF V, F
<1> DEFINE T == {x \in Nat \X Nat : TRUE}
<1>6. \A n \in 0 .. m : <<n, V[n]>> \in T
  <2>1. <<0, V[0]>> \in T
    BY <1>5
  <2>2. ASSUME NEW n \in 0 .. m - 1, <<n, V[n]>> \in T
        PROVE  <<n + 1, V[n + 1]>> \in T
    <3>1. V[n + 1] = 10 * V[n] + D(n + 1) /\ n + 1 \in 1 .. m
      BY <1>5
    <3>2. QED
      BY <2>2, <3>1, <1>2
  <2> HIDE DEF T
  <2>3. QED
    BY <2>1, <2>2, LoopInvariant
<1>7. V[m] \in Nat
  <2>1. <<m, V[m]>> \in T
    <3> HIDE DEF T
    <3>1. m \in 0 .. m
      OBVIOUS
    <3>2. QED
      BY <1>6, <3>1
  <2>2. QED
    BY <2>1
<1>8. QED
  BY <1>1, <1>7

-----------------------------------------------------------------------------
(* The text in the buffer: it ends with a NUL, and the only newline it can  *)
(* have is its last character.                                             *)

TextOK(t) ==
  /\ t \in [Positions -> STRING]
  /\ TextEnd(t) \in Positions
  /\ \A p \in 0 .. (TextEnd(t) - 1) : t[p] = Newline => p + 1 = TextEnd(t)

\* Where command_parser starts and stops.
Start(t) == First({p \in Positions : ~IsSpace(t[p])})
End(t) == First({p \in Start(t) .. (Size - 1) : t[p] \in {Newline, Nul}})

LEMMA Characters ==
  /\ ~IsSpace(Nul) /\ IsSpace(Newline) /\ Nul # Newline
  /\ \A c : IsSpace(c) => c # Nul /\ ~IsDigit(c)
  /\ ~IsDigit(Nul)
<1>1. ~IsSpace(Nul) /\ IsSpace(Newline) /\ Nul # Newline
  BY DEF IsSpace, Nul, Newline
<1>2. \A c : IsSpace(c) => c # Nul
  BY DEF IsSpace, Nul, Newline
<1>3. ASSUME NEW c, IsDigit(c)
      PROVE  c # " " /\ c # Newline /\ c # Nul
  <2>1. PICK i \in DOMAIN Digits : Digits[i] = c
    BY <1>3 DEF IsDigit, ToSet
  <2>2. i \in 1 .. 10
    BY <2>1 DEF Digits
  <2>3. i = 1 \/ i = 2 \/ i = 3 \/ i = 4 \/ i = 5 \/ i = 6 \/ i = 7 \/ i = 8 \/ i = 9 \/ i = 10
    BY <2>2
  <2>4. c \in {"0", "1", "2", "3", "4", "5", "6", "7", "8", "9"}
    <3>1. /\ Digits[1] = "0" /\ Digits[2] = "1" /\ Digits[3] = "2" /\ Digits[4] = "3"
          /\ Digits[5] = "4" /\ Digits[6] = "5" /\ Digits[7] = "6" /\ Digits[8] = "7"
          /\ Digits[9] = "8" /\ Digits[10] = "9"
      BY DEF Digits
    <3>2. QED
      BY <2>1, <2>3, <3>1
  <2>5. QED
    BY <2>4 DEF Newline, Nul
<1>4. QED
  BY <1>1, <1>2, <1>3 DEF IsSpace

LEMMA TextEndFacts ==
  ASSUME NEW t, TextOK(t)
  PROVE  /\ TextEnd(t) \in Positions /\ t[TextEnd(t)] = Nul
         /\ \A p \in 0 .. (TextEnd(t) - 1) : t[p] # Nul
<1> DEFINE P == {p \in Positions : t[p] = Nul}
<1>1. First(P) \in P \cup {Size} /\ \A r \in P : First(P) <= r
  BY FirstIsLeast
<1>2. TextEnd(t) = First(P) /\ First(P) \in Positions
  BY DEF TextEnd, TextOK
<1>3. First(P) \in P
  BY <1>1, <1>2, SizeAndPositions
<1>4. ASSUME NEW p \in 0 .. (First(P) - 1) PROVE t[p] # Nul
  <2>1. p \in Positions /\ ~(First(P) <= p)
    BY <1>2, SizeAndPositions
  <2>2. QED
    BY <1>1, <2>1
<1>5. QED
  BY <1>2, <1>3, <1>4

LEMMA StartFacts ==
  ASSUME NEW t, TextOK(t)
  PROVE  /\ Start(t) \in Positions /\ Start(t) <= TextEnd(t)
         /\ ~IsSpace(t[Start(t)])
         /\ \A p \in 0 .. (Start(t) - 1) : IsSpace(t[p])
<1> DEFINE P == {p \in Positions : ~IsSpace(t[p])}
<1>1. First(P) \in P \cup {Size} /\ \A r \in P : First(P) <= r
  BY FirstIsLeast
<1>2. TextEnd(t) \in P
  BY TextEndFacts, Characters
<1>3. First(P) <= TextEnd(t) /\ First(P) \in P
  BY <1>1, <1>2, SizeAndPositions
<1>4. ASSUME NEW p \in 0 .. (First(P) - 1) PROVE IsSpace(t[p])
  <2>1. p \in Positions /\ ~(First(P) <= p)
    BY <1>3, SizeAndPositions
  <2>2. QED
    BY <1>1, <2>1
<1>5. Start(t) = First(P)
  BY DEF Start
<1>6. QED
  BY <1>3, <1>4, <1>5

LEMMA EndFacts ==
  ASSUME NEW t, TextOK(t)
  PROVE  /\ End(t) \in Start(t) .. TextEnd(t)
         /\ t[End(t)] \in {Newline, Nul}
         /\ \A p \in Start(t) .. (End(t) - 1) : t[p] \notin {Newline, Nul}
         /\ End(t) = TextEnd(t) \/ (t[End(t)] = Newline /\ End(t) + 1 = TextEnd(t))
<1> DEFINE P == {p \in Start(t) .. (Size - 1) : t[p] \in {Newline, Nul}}
<1>1. P \in SUBSET Positions
  BY StartFacts, SizeAndPositions
<1>2. First(P) \in P \cup {Size} /\ \A r \in P : First(P) <= r
  BY <1>1, FirstIsLeast
<1>3. TextEnd(t) \in P
  BY TextEndFacts, StartFacts, SizeAndPositions
<1>4. First(P) \in P /\ First(P) <= TextEnd(t)
  BY <1>1, <1>2, <1>3, SizeAndPositions
<1>5. End(t) = First(P)
  BY DEF End
<1>6. End(t) \in Start(t) .. TextEnd(t) /\ t[End(t)] \in {Newline, Nul}
  BY <1>4, <1>5, StartFacts, TextEndFacts, SizeAndPositions
<1>7. ASSUME NEW p \in Start(t) .. (End(t) - 1) PROVE t[p] \notin {Newline, Nul}
  <2>1. p \in Start(t) .. (Size - 1) /\ ~(First(P) <= p)
    BY <1>6, <1>5, StartFacts, TextEndFacts, SizeAndPositions
  <2>2. QED
    BY <1>2, <2>1
<1>8. CASE End(t) = TextEnd(t)
  BY <1>6, <1>7, <1>8
<1>9. CASE End(t) # TextEnd(t)
  <2>1. End(t) \in 0 .. (TextEnd(t) - 1)
    BY <1>6, <1>9, StartFacts, TextEndFacts, SizeAndPositions
  <2>2. t[End(t)] = Newline /\ End(t) + 1 = TextEnd(t)
    BY <1>6, <2>1, TextEndFacts DEF TextOK
  <2>3. QED
    BY <1>6, <1>7, <2>2
<1>10. QED
  BY <1>8, <1>9

\* The words lie between where the parser starts and where it stops.
LEMMA InWordFacts ==
  ASSUME NEW t, TextOK(t), NEW p \in Int
  PROVE  InWord(t, p) <=> p \in Start(t) .. (End(t) - 1) /\ ~IsSpace(t[p])
<1>1. /\ Start(t) \in Nat /\ End(t) \in Nat /\ TextEnd(t) \in Nat
      /\ Start(t) <= End(t) /\ End(t) <= TextEnd(t)
  BY StartFacts, EndFacts, TextEndFacts, SizeAndPositions
<1>2. ASSUME InWord(t, p)
      PROVE  p \in Start(t) .. (End(t) - 1) /\ ~IsSpace(t[p])
  <2>1. p \in 0 .. (TextEnd(t) - 1) /\ ~IsSpace(t[p])
    BY <1>2 DEF InWord
  <2>2. p >= Start(t)
    BY <2>1, <1>1, StartFacts
  <2>3. p # End(t)
    <3>1. CASE End(t) = TextEnd(t)
      BY <3>1, <2>1, <1>1
    <3>2. CASE t[End(t)] = Newline
      BY <3>2, <2>1, Characters
    <3>3. QED
      BY <3>1, <3>2, EndFacts
  <2>4. TextEnd(t) <= End(t) + 1
    BY <1>1, EndFacts
  <2>5. QED
    BY <1>1, <2>1, <2>2, <2>3, <2>4
<1>3. ASSUME p \in Start(t) .. (End(t) - 1), ~IsSpace(t[p])
      PROVE  InWord(t, p)
  BY <1>1, <1>3 DEF InWord
<1>4. QED
  BY <1>2, <1>3

-----------------------------------------------------------------------------
(* The parser's loop.                                                      *)

Begin == [first |-> TRUE, count |-> 0, tokens |-> tokens, overflow |-> FALSE]

Scan(t) ==
  CHOOSE scan : scan = [n \in 0 .. (End(t) - Start(t)) |->
                          IF n = 0 THEN Begin
                                   ELSE Round(t, scan[n - 1], Start(t) + n - 1)]

TokenList == [0 .. (MaxTokens - 1) -> Tokens]

\* What the first m rounds leave: a token that is being cut reaches one
\* position beyond the round's; the first token is the first word once it is
\* complete, at the white space w, and the second then begins at w.
FirstToken(t, m, st) ==
  \E w \in (Start(t) + 1) .. (Start(t) + m) :
    /\ IsSpace(t[w]) /\ \A q \in Start(t) .. (w - 1) : ~IsSpace(t[q])
    /\ st.tokens[0].ptr = Start(t) /\ st.tokens[0].len = w - Start(t)
    /\ IF st.count = 1 /\ st.first THEN m = w - Start(t) ELSE st.tokens[1].ptr = w

ScanOK(t, m, st) ==
  /\ st \in [first : BOOLEAN, count : 0 .. MaxTokens, tokens : TokenList, overflow : BOOLEAN]
  /\ st.overflow => st.count = MaxTokens
  /\ ~st.first => /\ m > 0 /\ st.count < MaxTokens
                  /\ st.tokens[st.count].ptr \in Positions
                  /\ st.tokens[st.count].ptr + st.tokens[st.count].len = Start(t) + m + 1
  /\ st.count = 0 /\ m > 0 =>
       /\ ~st.first /\ st.tokens[0].ptr = Start(t)
       /\ \A q \in Start(t) .. (Start(t) + m) : ~IsSpace(t[q])
  /\ st.count > 0 => FirstToken(t, m, st)

LEMMA ParserIsScan ==
  ASSUME NEW t
  PROVE  command_parser(t) = Scan(t)[End(t) - Start(t)]
BY DEF command_parser, Scan, Start, End, Begin

LEMMA Constants ==
  /\ MaxTokens \in Nat /\ MaxTokens > 1 /\ Width \in Nat /\ Width > 0
  /\ Wild \notin Positions /\ Wild \in Int
BY CommandLineAssumption DEF Wild, Positions

LEMMA ScanBegins ==
  ASSUME NEW t, tokens \in TokenList
  PROVE  ScanOK(t, 0, Begin)
<1>1. Begin \in [first : BOOLEAN, count : 0 .. MaxTokens, tokens : TokenList, overflow : BOOLEAN]
  BY Constants DEF Begin
<1>2. Begin.first = TRUE /\ Begin.count = 0 /\ Begin.overflow = FALSE
  BY DEF Begin
<1>3. QED
  BY <1>1, <1>2 DEF ScanOK

\* The rounds a text goes through, each of which looks one position ahead.
LEMMA RoundPositions ==
  ASSUME NEW t, TextOK(t), NEW n \in 0 .. (End(t) - Start(t) - 1)
  PROVE  /\ n \in Nat /\ Start(t) \in Nat /\ End(t) \in Nat
         /\ Start(t) + n \in Positions /\ Start(t) + n + 1 \in Positions
         /\ Start(t) + n < End(t) /\ End(t) < Size
BY StartFacts, EndFacts, TextEndFacts, SizeAndPositions

\* A round without a free token is written beyond the list: nothing changes.
LEMMA RoundOverflows ==
  ASSUME NEW t, TextOK(t), NEW m \in Nat, NEW st, NEW p, ScanOK(t, m, st),
         st.count = MaxTokens
  PROVE  ScanOK(t, m + 1, Round(t, st, p))
<1> DEFINE new == Round(t, st, p)
<1>1. new = [st EXCEPT !.overflow = TRUE]
  <2>1. DOMAIN st.tokens = 0 .. (MaxTokens - 1) /\ st.count \notin DOMAIN st.tokens
    BY Constants DEF ScanOK, TokenList
  <2>2. QED
    BY <2>1 DEF Round
<1>2. /\ new.first = st.first /\ new.count = st.count /\ new.tokens = st.tokens
      /\ new.overflow = TRUE
      /\ new \in [first : BOOLEAN, count : 0 .. MaxTokens, tokens : TokenList, overflow : BOOLEAN]
  BY <1>1 DEF ScanOK
<1> HIDE DEF new
<1>3. st.first
  BY Constants DEF ScanOK
<1>4. FirstToken(t, m + 1, new)
  <2>1. FirstToken(t, m, st)
    BY Constants DEF ScanOK
  <2>2. PICK w \in (Start(t) + 1) .. (Start(t) + m) :
          /\ IsSpace(t[w]) /\ \A q \in Start(t) .. (w - 1) : ~IsSpace(t[q])
          /\ st.tokens[0].ptr = Start(t) /\ st.tokens[0].len = w - Start(t)
          /\ st.tokens[1].ptr = w
    BY <2>1, Constants DEF FirstToken
  <2>3. w \in (Start(t) + 1) .. (Start(t) + (m + 1))
    BY <2>2, StartFacts, SizeAndPositions
  <2>4. ~(new.count = 1 /\ new.first)
    BY <1>2, Constants
  <2>5. QED
    BY <2>2, <2>3, <2>4, <1>2 DEF FirstToken
<1>5. ScanOK(t, m + 1, new)
  BY <1>2, <1>3, <1>4, Constants DEF ScanOK
<1>6. QED
  BY <1>5 DEF new

\* Tokens without bounds: any round keeps a state to this type.
LooseTokens == [0 .. (MaxTokens - 1) -> [ptr : Int, len : Nat]]

LooseState == [first : BOOLEAN, count : Nat, tokens : LooseTokens, overflow : BOOLEAN]

LEMMA LongerToken ==
  ASSUME NEW list \in LooseTokens, NEW c \in 0 .. (MaxTokens - 1)
  PROVE  LET new == [list EXCEPT ![c].len = @ + 1]
         IN  /\ new \in LooseTokens
             /\ new[c].ptr = list[c].ptr /\ new[c].len = list[c].len + 1
             /\ \A i \in 0 .. (MaxTokens - 1) : i # c => new[i] = list[i]
<1>1. list[c] \in [ptr : Int, len : Nat]
  BY DEF LooseTokens
<1>2. [list[c] EXCEPT !.len = @ + 1] \in [ptr : Int, len : Nat]
  BY <1>1
<1>3. QED
  BY <1>1, <1>2 DEF LooseTokens

\* What a round does while there is a free token.
LEMMA RoundCuts ==
  ASSUME NEW t, NEW p \in Int, NEW st \in LooseState, st.count < MaxTokens
  PROVE  LET new == Round(t, st, p)
             c   == st.count
             len == IF st.first THEN 1 ELSE st.tokens[c].len
         IN  /\ new \in LooseState
             /\ new.overflow = st.overflow
             /\ new.first <=> IsSpace(t[p + 1])
             /\ new.count = IF IsSpace(t[p + 1]) THEN c + 1 ELSE c
             /\ new.tokens[c].ptr = IF st.first THEN p ELSE st.tokens[c].ptr
             /\ new.tokens[c].len = IF IsSpace(t[p + 1]) THEN len ELSE len + 1
             /\ \A i \in 0 .. (MaxTokens - 1) : i # c => new.tokens[i] = st.tokens[i]
<1> DEFINE c == st.count
           begun == IF st.first
                    THEN [st EXCEPT !.tokens[c] = [ptr |-> p, len |-> 1]] ELSE st
<1>1. c \in 0 .. (MaxTokens - 1) /\ DOMAIN st.tokens = 0 .. (MaxTokens - 1)
  BY Constants DEF LooseState, LooseTokens
<1>2. /\ begun \in LooseState
      /\ begun.overflow = st.overflow /\ begun.count = c /\ begun.first = st.first
      /\ begun.tokens[c].ptr = IF st.first THEN p ELSE st.tokens[c].ptr
      /\ begun.tokens[c].len = IF st.first THEN 1 ELSE st.tokens[c].len
      /\ \A i \in 0 .. (MaxTokens - 1) : i # c => begun.tokens[i] = st.tokens[i]
  BY <1>1 DEF LooseState, LooseTokens
<1>3. CASE IsSpace(t[p + 1])
  <2> DEFINE new == Round(t, st, p)
  <2>1. new = [begun EXCEPT !.first = TRUE, !.count = @ + 1]
    BY <1>1, <1>3 DEF Round
  <2> HIDE DEF begun, new, c
  <2>2. new \in LooseState
    <3>1. begun.count + 1 \in Nat
      BY <1>2 DEF LooseState
    <3>2. QED
      BY <2>1, <1>2, <3>1 DEF LooseState
  <2>3. new.overflow = st.overflow /\ new.first = TRUE /\ new.count = c + 1
    BY <2>1, <1>2 DEF LooseState
  <2>4. new.tokens = begun.tokens
    BY <2>1, <1>2 DEF LooseState
  <2>5. QED
    BY <2>2, <2>3, <2>4, <1>1, <1>2, <1>3 DEF new, c
<1>4. CASE ~IsSpace(t[p + 1])
  <2> DEFINE new == Round(t, st, p)
  <2>1. new = [begun EXCEPT !.first = FALSE, !.tokens[c].len = @ + 1]
    BY <1>1, <1>4 DEF Round
  <2> DEFINE longer == [begun.tokens EXCEPT ![c].len = @ + 1]
  <2> HIDE DEF begun, new, c
  <2>2. new \in LooseState
    <3>1. longer \in LooseTokens
      BY <1>1, <1>2, LongerToken DEF LooseState
    <3>2. new = [begun EXCEPT !.first = FALSE, !.tokens = longer]
      BY <2>1, <1>2 DEF LooseState
    <3> HIDE DEF longer
    <3>3. QED
      BY <3>1, <3>2, <1>2 DEF LooseState
  <2>3. new.overflow = st.overflow /\ new.first = FALSE /\ new.count = c
    BY <2>1, <1>2 DEF LooseState
  <2>4. new.tokens = longer
    BY <2>1, <1>2 DEF LooseState
  <2>5. /\ new.tokens[c].ptr = begun.tokens[c].ptr
        /\ new.tokens[c].len = begun.tokens[c].len + 1
        /\ \A i \in 0 .. (MaxTokens - 1) : i # c => new.tokens[i] = begun.tokens[i]
    BY <2>4, <1>1, <1>2, LongerToken DEF LooseState
  <2>6. QED
    BY <2>2, <2>3, <2>5, <1>1, <1>2, <1>4 DEF new, c
<1>5. QED
  BY <1>3, <1>4

LEMMA TokensAreLoose ==
  /\ Tokens \subseteq [ptr : Int, len : Nat]
  /\ TokenList \subseteq LooseTokens
<1>1. Tokens \subseteq [ptr : Int, len : Nat]
  BY SizeAndPositions, Constants DEF Tokens
<1>2. QED
  BY <1>1 DEF TokenList, LooseTokens

LEMMA RoundKeepsState ==
  ASSUME NEW t, NEW p \in Int, NEW st \in LooseState
  PROVE  Round(t, st, p) \in LooseState
<1>1. CASE st.count < MaxTokens
  BY <1>1, RoundCuts DEF LooseState
<1>2. CASE ~(st.count < MaxTokens)
  <2>1. st.count \notin DOMAIN st.tokens
    BY <1>2, Constants DEF LooseState, LooseTokens
  <2>2. Round(t, st, p) = [st EXCEPT !.overflow = TRUE]
    BY <2>1 DEF Round
  <2>3. QED
    BY <2>2 DEF LooseState
<1>3. QED
  BY <1>1, <1>2

LEMMA ScanEquation ==
  ASSUME NEW t, TextOK(t), tokens \in TokenList
  PROVE  /\ Scan(t)[0] = Begin
         /\ \A n \in 0 .. (End(t) - Start(t) - 1) :
              Scan(t)[n + 1] = Round(t, Scan(t)[n], Start(t) + n)
<1> DEFINE m == End(t) - Start(t)
           F == [x \in LooseState \X (0 .. m - 1) |-> Round(t, x[1], Start(t) + x[2])]
           Body(scan) == [n \in 0 .. m |-> IF n = 0 THEN Begin
                                           ELSE Round(t, scan[n - 1], Start(t) + n - 1)]
<1>1. m \in Nat /\ Start(t) \in Nat
  BY StartFacts, EndFacts, TextEndFacts, SizeAndPositions
<1>2. Begin \in LooseState
  BY TokensAreLoose DEF Begin, LooseState
<1> HIDE DEF m
<1>3. F \in Steps(LooseState, m)
  <2>1. ASSUME NEW x \in LooseState \X (0 .. m - 1)
        PROVE  Round(t, x[1], Start(t) + x[2]) \in LooseState
    BY <1>1, RoundKeepsState
  <2>2. QED
    BY <2>1 DEF Steps
<1>4. \E scan : scan = Body(scan)
  <2>1. PICK f : Values(LooseState, F, Begin, m, f)
    <3> HIDE DEF F
    <3>1. QED
      BY <1>1, <1>2, <1>3, ValuesExist
  <2>2. f \in [0 .. m -> LooseState] /\ f[0] = Begin
    BY <2>1 DEF Values
  <2>3. ASSUME NEW n \in 0 .. m, n # 0
        PROVE  f[n] = Round(t, f[n - 1], Start(t) + n - 1)
    <3>1. n - 1 \in 0 .. m - 1 /\ n - 1 \in 0 .. m /\ (n - 1) + 1 = n
      BY <1>1, <2>3
    <3>2. f[n] = F[<<f[n - 1], n - 1>>] /\ f[n - 1] \in LooseState
      <4> HIDE DEF F
      <4>1. \A i \in 0 .. m - 1 : f[i + 1] = F[<<f[i], i>>]
        BY <2>1 DEF Values
      <4>2. QED
        BY <4>1, <2>2, <3>1
    <3>3. Start(t) + (n - 1) = Start(t) + n - 1
      BY <1>1, <3>1
    <3>4. QED
      BY <3>1, <3>2, <3>3
  <2>4. QED
    BY <2>2, <2>3
<1>5. Scan(t) = CHOOSE scan : scan = Body(scan)
  BY DEF Scan, m
<1>6. Scan(t) = Body(Scan(t))
  BY <1>4, <1>5
<1>7. Scan(t)[0] = Begin
  BY <1>1, <1>6
<1>8. ASSUME NEW n \in 0 .. (m - 1)
      PROVE  Scan(t)[n + 1] = Round(t, Scan(t)[n], Start(t) + n)
  <2>1. n + 1 \in 0 .. m /\ n + 1 # 0 /\ (n + 1) - 1 = n /\ Start(t) + (n + 1) - 1 = Start(t) + n
    BY <1>1
  <2>2. QED
    BY <1>6, <2>1
<1>9. QED
  BY <1>7, <1>8 DEF m

LEMMA OneLonger ==
  ASSUME NEW from \in Nat, NEW len \in Nat, NEW p \in Nat, from + len = p + 1
  PROVE  len <= p + 1 /\ from + (len + 1) = p + 2
OBVIOUS

LEMMA ScanStep ==
  ASSUME NEW t, TextOK(t), NEW n \in 0 .. (End(t) - Start(t) - 1),
         NEW st, ScanOK(t, n, st)
  PROVE  ScanOK(t, n + 1, Round(t, st, Start(t) + n))
<1> DEFINE p == Start(t) + n
           new == Round(t, st, p)
           c == st.count
           len == IF st.first THEN 1 ELSE st.tokens[c].len
<1>1. /\ n \in Nat /\ Start(t) \in Nat /\ End(t) \in Nat
      /\ p \in Positions /\ p + 1 \in Positions /\ p < End(t) /\ End(t) < Size
      /\ p \in Nat
  BY RoundPositions, SizeAndPositions
<1>2. /\ st.first \in BOOLEAN /\ c \in 0 .. MaxTokens /\ st.overflow \in BOOLEAN
      /\ st.tokens \in TokenList
      /\ st \in LooseState
  BY TokensAreLoose, Constants DEF ScanOK, LooseState
<1>3. CASE c = MaxTokens
  BY <1>1, <1>3, RoundOverflows
<1>4. CASE c # MaxTokens
  <2>1. c < MaxTokens /\ c \in 0 .. (MaxTokens - 1)
    BY <1>2, <1>4, Constants
  <2>2. /\ new \in LooseState
        /\ new.overflow = st.overflow
        /\ new.first <=> IsSpace(t[p + 1])
        /\ new.count = IF IsSpace(t[p + 1]) THEN c + 1 ELSE c
        /\ new.tokens[c].ptr = IF st.first THEN p ELSE st.tokens[c].ptr
        /\ new.tokens[c].len = IF IsSpace(t[p + 1]) THEN len ELSE len + 1
        /\ \A i \in 0 .. (MaxTokens - 1) : i # c => new.tokens[i] = st.tokens[i]
    BY <1>1, <1>2, <2>1, RoundCuts DEF LooseState
  <2> HIDE DEF new
  <2>12. IsSpace(t[p + 1]) => new.first /\ new.count = c + 1 /\ new.tokens[c].len = len
    BY <2>2
  <2>13. ~IsSpace(t[p + 1]) => ~new.first /\ new.count = c /\ new.tokens[c].len = len + 1
    BY <2>2
  <2>3. st.overflow = FALSE
    BY <1>2, <1>4 DEF ScanOK
  \* The token that is cut ends at this round's position.
  <2>4. new.tokens[c].ptr \in Positions /\ new.tokens[c].ptr + len = p + 1
    <3>1. CASE st.first
      BY <3>1, <2>2, <1>1
    <3>2. CASE ~st.first
      <4>1. st.tokens[c].ptr \in Positions /\ st.tokens[c].ptr + st.tokens[c].len = Start(t) + n + 1
        BY <3>2 DEF ScanOK
      <4>2. QED
        BY <4>1, <3>2, <2>2, <1>1
    <3>3. QED
      BY <3>1, <3>2
  <2>5. len \in Nat
    <3>1. st.tokens[c] \in Tokens
      BY <1>2, <2>1 DEF TokenList
    <3>2. QED
      BY <3>1, SizeAndPositions DEF Tokens
  <2>6. new.tokens \in TokenList
    <3>1. new.tokens[c].len \in 0 .. Size
      <4>1. new.tokens[c].len = len \/ new.tokens[c].len = len + 1
        BY <2>12, <2>13
      <4>2. len <= p + 1
        BY <2>4, <2>5, <1>1, OneLonger, SizeAndPositions
      <4>3. p + 2 <= Size
        BY <1>1, SizeAndPositions
      <4> HIDE DEF len, p, c
      <4>4. QED
        BY <4>1, <4>2, <4>3, <2>5, <1>1, SizeAndPositions
    <3>2. new.tokens \in LooseTokens /\ new.tokens[c] \in [ptr : Int, len : Nat]
      BY <2>1, <2>2 DEF LooseState, LooseTokens
    <3>3. new.tokens[c] \in Tokens
      BY <3>1, <3>2, <2>4 DEF Tokens
    <3>4. ASSUME NEW i \in 0 .. (MaxTokens - 1) PROVE new.tokens[i] \in Tokens
      BY <3>3, <2>2, <1>2 DEF TokenList
    <3>5. QED
      BY <3>2, <3>4 DEF TokenList, LooseTokens
  <2>7. new \in [first : BOOLEAN, count : 0 .. MaxTokens, tokens : TokenList, overflow : BOOLEAN]
    <3>1. new.count \in 0 .. MaxTokens
      <4> HIDE DEF c
      <4>1. QED
        BY <2>1, <2>12, <2>13, Constants
    <3>2. QED
      BY <3>1, <2>2, <2>6 DEF LooseState
  <2>8. ~new.first => /\ n + 1 > 0 /\ new.count < MaxTokens
                      /\ new.tokens[new.count].ptr \in Positions
                      /\ new.tokens[new.count].ptr + new.tokens[new.count].len
                           = Start(t) + (n + 1) + 1
    <3> SUFFICES ASSUME ~new.first
                 PROVE  /\ n + 1 > 0 /\ new.count < MaxTokens
                        /\ new.tokens[new.count].ptr \in Positions
                        /\ new.tokens[new.count].ptr + new.tokens[new.count].len
                             = Start(t) + (n + 1) + 1
      OBVIOUS
    <3>1. new.count = c /\ new.tokens[c].len = len + 1
      BY <2>12, <2>13
    <3>2. new.tokens[c].ptr + (len + 1) = Start(t) + (n + 1) + 1
      <4> DEFINE from == new.tokens[c].ptr
      <4> HIDE DEF c, len, p
      <4>1. from + (len + 1) = p + 2
        <5>1. from \in Nat /\ len \in Nat /\ p \in Nat /\ from + len = p + 1
          BY <2>4, <2>5, <1>1, SizeAndPositions
        <5> HIDE DEF from
        <5>2. QED
          BY <5>1, OneLonger
      <4>2. p + 2 = Start(t) + (n + 1) + 1
        BY <1>1 DEF p
      <4>3. QED
        BY <4>1, <4>2
    <3> HIDE DEF c, len, p
    <3>3. QED
      BY <1>1, <2>1, <2>4, <3>1, <3>2
  <2>9. new.count = 0 =>
          /\ ~new.first /\ new.tokens[0].ptr = Start(t)
          /\ \A q \in Start(t) .. (Start(t) + (n + 1)) : ~IsSpace(t[q])
    <3> SUFFICES ASSUME new.count = 0
                 PROVE  /\ ~new.first /\ new.tokens[0].ptr = Start(t)
                        /\ \A q \in Start(t) .. (Start(t) + (n + 1)) : ~IsSpace(t[q])
      OBVIOUS
    <3>1. c = 0 /\ ~IsSpace(t[p + 1])
      BY <2>1, <2>2
    <3>2. CASE n = 0
      <4>1. st.first
        BY <1>2, <3>2 DEF ScanOK
      <4>2. ~IsSpace(t[Start(t)])
        BY StartFacts
      <4>3. QED
        BY <1>1, <2>2, <3>1, <3>2, <4>1, <4>2
    <3>3. CASE n > 0
      <4>1. /\ ~st.first /\ st.tokens[0].ptr = Start(t)
            /\ \A q \in Start(t) .. (Start(t) + n) : ~IsSpace(t[q])
        BY <3>1, <3>3 DEF ScanOK
      <4>2. QED
        BY <1>1, <2>2, <3>1, <4>1
    <3>4. QED
      BY <1>1, <3>2, <3>3
  <2>10. ASSUME new.count > 0 PROVE FirstToken(t, n + 1, new)
    <3>1. CASE c = 0
      <4>1. IsSpace(t[p + 1]) /\ new.first /\ new.count = 1 /\ new.tokens[0].len = len
        BY <2>10, <2>12, <2>13, <3>1
      <4>2. new.tokens[0].ptr = Start(t) /\ \A q \in Start(t) .. p : ~IsSpace(t[q])
        <5>1. CASE n = 0
          <6>1. st.first /\ ~IsSpace(t[Start(t)])
            BY <1>2, <5>1, StartFacts DEF ScanOK
          <6>2. QED
            BY <1>1, <2>2, <3>1, <5>1, <6>1
        <5>2. CASE n > 0
          BY <1>1, <2>2, <3>1, <5>2 DEF ScanOK
        <5>3. QED
          BY <1>1, <5>1, <5>2
      <4>3. len = n + 1
        <5>1. Start(t) + len = p + 1 /\ p = Start(t) + n
          BY <2>4, <3>1, <4>2
        <5> HIDE DEF len, p
        <5>2. QED
          BY <5>1, <1>1, <2>5
      <4>4. p + 1 \in (Start(t) + 1) .. (Start(t) + (n + 1))
        BY <1>1
      <4> DEFINE w == p + 1
      <4>5. /\ w \in (Start(t) + 1) .. (Start(t) + (n + 1)) /\ w - Start(t) = n + 1
            /\ IsSpace(t[w]) /\ \A q \in Start(t) .. (w - 1) : ~IsSpace(t[q])
            /\ new.tokens[0].len = n + 1
        <5>1. w - 1 = p /\ w - Start(t) = n + 1
          <6>1. p \in Nat /\ w = p + 1
            BY <1>1
          <6> HIDE DEF len, p, w
          <6>2. w - 1 = p
            BY <6>1
          <6>3. p = Start(t) + n
            BY DEF p
          <6>4. w - Start(t) = n + 1
            BY <1>1, <6>1, <6>3
          <6>5. QED
            BY <6>2, <6>4
        <5>2. w \in (Start(t) + 1) .. (Start(t) + (n + 1)) /\ IsSpace(t[w])
          BY <4>1, <4>4
        <5> HIDE DEF len, p, w
        <5>3. \A q \in Start(t) .. (w - 1) : ~IsSpace(t[q])
          BY <4>2, <5>1
        <5>4. new.tokens[0].len = n + 1
          BY <4>1, <4>3, <5>1
        <5>5. QED
          BY <5>1, <5>2, <5>3, <5>4
      <4> HIDE DEF len, p, w
      <4>6. QED
        BY <4>1, <4>2, <4>5 DEF FirstToken
    <3>2. CASE c > 0
      <4>1. PICK w \in (Start(t) + 1) .. (Start(t) + n) :
              /\ IsSpace(t[w]) /\ \A q \in Start(t) .. (w - 1) : ~IsSpace(t[q])
              /\ st.tokens[0].ptr = Start(t) /\ st.tokens[0].len = w - Start(t)
              /\ IF c = 1 /\ st.first THEN n = w - Start(t) ELSE st.tokens[1].ptr = w
        BY <3>2 DEF ScanOK, FirstToken
      <4>2. new.tokens[0] = st.tokens[0]
        BY <2>1, <2>2, <3>2, Constants
      <4>3. w \in (Start(t) + 1) .. (Start(t) + (n + 1))
        BY <1>1, <4>1
      <4>4. ~(new.count = 1 /\ new.first)
        <5> HIDE DEF c, p, len
        <5>1. QED
          BY <2>1, <2>12, <2>13, <3>2
      <4>5. new.tokens[1].ptr = w
        <5>1. CASE c = 1 /\ st.first
          BY <5>1, <1>1, <2>2, <4>1
        <5>2. CASE c = 1 /\ ~st.first
          BY <5>2, <2>2, <4>1
        <5>3. CASE c > 1
          <6>1. 1 \in 0 .. (MaxTokens - 1) /\ 1 # c /\ ~(c = 1)
            BY <5>3, Constants
          <6>2. QED
            BY <6>1, <2>2, <4>1
        <5>4. QED
          BY <2>1, <3>2, <5>1, <5>2, <5>3
      <4>6. QED
        BY <4>1, <4>2, <4>3, <4>4, <4>5 DEF FirstToken
    <3>3. QED
      BY <2>1, <3>1, <3>2
  <2>11. QED
    BY <2>2, <2>3, <2>7, <2>8, <2>9, <2>10 DEF ScanOK, new
<1>5. QED
  BY <1>3, <1>4

\* What command_parser leaves, for a text of any length.
LEMMA ParserLeaves ==
  ASSUME NEW t, TextOK(t), tokens \in TokenList
  PROVE  ScanOK(t, End(t) - Start(t), command_parser(t))
<1> DEFINE m == End(t) - Start(t)
           f == Scan(t)
           T == {x \in Nat \X LooseState : ScanOK(t, x[1], x[2])}
<1>1. m \in Nat
  BY StartFacts, EndFacts, TextEndFacts, SizeAndPositions
<1>2. ASSUME NEW n \in Nat, NEW st, ScanOK(t, n, st)
      PROVE  <<n, st>> \in T
  <2>1. st \in LooseState
    BY <1>2, TokensAreLoose, Constants DEF ScanOK, LooseState
  <2>2. QED
    BY <1>2, <2>1
<1>3. ASSUME NEW n, NEW st, <<n, st>> \in T
      PROVE  ScanOK(t, n, st)
  BY <1>3
<1>4. <<0, f[0]>> \in T
  <2>1. ScanOK(t, 0, f[0])
    BY ScanBegins, ScanEquation
  <2> HIDE DEF T, f
  <2>2. QED
    BY <1>2, <2>1
<1>5. ASSUME NEW n \in 0 .. m - 1, <<n, f[n]>> \in T
      PROVE  <<n + 1, f[n + 1]>> \in T
  <2>1. f[n + 1] = Round(t, f[n], Start(t) + n)
    BY ScanEquation
  <2> HIDE DEF T, f
  <2>2. ScanOK(t, n, f[n])
    BY <1>3, <1>5
  <2>3. ScanOK(t, n + 1, f[n + 1])
    BY <2>1, <2>2, ScanStep
  <2>4. QED
    BY <1>2, <2>3
<1> HIDE DEF T, f, m
<1>6. <<m, f[m]>> \in T
  <2>1. \A n \in 0 .. m : <<n, f[n]>> \in T
    BY <1>1, <1>4, <1>5, LoopInvariant
  <2>2. QED
    BY <1>1, <2>1
<1>7. ScanOK(t, m, f[m])
  BY <1>3, <1>6
<1>8. QED
  BY <1>7, ParserIsScan DEF m, f

-----------------------------------------------------------------------------
(* What the parser's tokens say of the words of the text.                  *)

\* The end of a word.
LEMMA WordEnds ==
  ASSUME NEW t, TextOK(t), NEW p \in Positions, NEW w \in Positions, p < w,
         w <= End(t), Start(t) <= p, \A q \in p .. (w - 1) : ~IsSpace(t[q]),
         w = End(t) \/ IsSpace(t[w])
  PROVE  /\ First({q \in p .. (Size - 1) : ~InWord(t, q)}) = w
         /\ WordAt(t, p) = [i \in 1 .. (w - p) |-> t[p + i - 1]]
<1> DEFINE Q == {q \in p .. (Size - 1) : ~InWord(t, q)}
<1>1. Q \in SUBSET Positions /\ p \in Nat /\ w \in Nat /\ End(t) \in Nat /\ Start(t) \in Nat
  BY SizeAndPositions, StartFacts, EndFacts, TextEndFacts
<1>2. ~InWord(t, w)
  BY <1>1, InWordFacts
<1>3. w \in Q
  BY <1>1, <1>2, SizeAndPositions
<1>4. ASSUME NEW q \in Q PROVE w <= q
  <2>1. SUFFICES ASSUME q < w PROVE FALSE
    BY <1>1
  <2>2. q \in p .. (w - 1) /\ q \in Int /\ q \in Start(t) .. (End(t) - 1)
    BY <1>1, <2>1
  <2>3. InWord(t, q)
    BY <2>2, InWordFacts
  <2>4. QED
    BY <2>3
<1>5. First(Q) = w
  <2> HIDE DEF Q
  <2>1. QED
    BY <1>1, <1>3, <1>4, FirstIs
<1>6. QED
  BY <1>5 DEF WordAt

\* Where the first word begins, if there is one.
LEMMA FirstWordIs ==
  ASSUME NEW t, TextOK(t)
  PROVE  /\ WordStarts(t) # {} <=> Start(t) < End(t)
         /\ Start(t) < End(t) => FirstWord(t) = Start(t)
<1>1. /\ Start(t) \in Nat /\ End(t) \in Nat /\ Start(t) \in Positions
      /\ WordStarts(t) \in SUBSET Positions
  BY StartFacts, EndFacts, TextEndFacts, SizeAndPositions DEF WordStarts
<1>2. ASSUME NEW p \in WordStarts(t) PROVE p \in Start(t) .. (End(t) - 1)
  <2>1. InWord(t, p) /\ p \in Int
    BY SizeAndPositions DEF WordStarts
  <2>2. QED
    BY <2>1, InWordFacts
<1>3. ASSUME Start(t) < End(t) PROVE Start(t) \in WordStarts(t)
  <2>1. InWord(t, Start(t))
    BY <1>1, <1>3, InWordFacts, StartFacts
  <2>2. ~InWord(t, Start(t) - 1)
    BY <1>1, InWordFacts
  <2>3. QED
    BY <1>1, <2>1, <2>2 DEF WordStarts
<1>4. ASSUME Start(t) < End(t) PROVE FirstWord(t) = Start(t)
  <2>1. \A p \in WordStarts(t) : Start(t) <= p
    BY <1>1, <1>2
  <2>2. QED
    BY <1>1, <1>3, <1>4, <2>1, FirstIs DEF FirstWord
<1>5. ASSUME WordStarts(t) # {} PROVE Start(t) < End(t)
  BY <1>1, <1>2, <1>5
<1>6. QED
  BY <1>3, <1>4, <1>5

\* The second word begins at the first character behind the first word that
\* is not white space.
LEMMA SecondWordIs ==
  ASSUME NEW t, TextOK(t), Start(t) < End(t), SecondWord(t) # Size,
         NEW w \in Positions, Start(t) < w, w <= End(t), IsSpace(t[w]),
         \A q \in Start(t) .. (w - 1) : ~IsSpace(t[q])
  PROVE  /\ SecondWord(t) \in (w + 1) .. (End(t) - 1)
         /\ First({q \in w .. (Size - 1) : ~IsSpace(t[q])}) = SecondWord(t)
         /\ ~IsSpace(t[SecondWord(t)])
<1> DEFINE S == SecondWord(t)
           Others == WordStarts(t) \ {FirstWord(t)}
           Q == {q \in w .. (Size - 1) : ~IsSpace(t[q])}
           from == First(Q)
<1>1. /\ Start(t) \in Nat /\ End(t) \in Nat /\ End(t) < Size /\ w \in Nat
      /\ Others \in SUBSET Positions /\ Q \in SUBSET Positions
      /\ FirstWord(t) = Start(t)
  BY StartFacts, EndFacts, TextEndFacts, SizeAndPositions, FirstWordIs DEF WordStarts
<1>2. S \in Others /\ \A p \in Others : S <= p
  <2> HIDE DEF Others
  <2>1. S = First(Others)
    BY DEF SecondWord, Others
  <2>2. QED
    BY <1>1, <2>1, FirstIsLeast
<1>3. S \in Positions /\ InWord(t, S) /\ ~InWord(t, S - 1) /\ S # Start(t)
  BY <1>1, <1>2 DEF WordStarts
<1> HIDE DEF S, Others
<1>4. S \in Start(t) .. (End(t) - 1) /\ ~IsSpace(t[S]) /\ S \in Nat
  BY <1>3, InWordFacts, SizeAndPositions
<1>5. S > w
  <2>1. SUFFICES ASSUME S <= w PROVE FALSE
    BY <1>1, <1>4
  <2>2. S # w
    BY <1>4
  <2>3. S \in (Start(t) + 1) .. (w - 1)
    BY <1>1, <1>3, <1>4, <2>1, <2>2
  <2>4. S - 1 \in Start(t) .. (w - 1) /\ S - 1 \in Start(t) .. (End(t) - 1) /\ S - 1 \in Int
    BY <1>1, <1>4, <2>3
  <2>5. InWord(t, S - 1)
    BY <2>4, InWordFacts
  <2>6. QED
    BY <1>3, <2>5
<1>6. S \in Q
  BY <1>1, <1>4, <1>5, SizeAndPositions
<1>7. from \in Q /\ from <= S /\ \A q \in Q : from <= q
  <2> HIDE DEF Q
  <2>1. from \in Q \cup {Size} /\ \A q \in Q : from <= q
    BY <1>1, FirstIsLeast
  <2>2. from # Size
    <3>1. from <= S
      BY <1>6, <2>1
    <3> HIDE DEF from
    <3>2. QED
      BY <1>1, <1>4, <3>1, SizeAndPositions
  <2>3. QED
    BY <1>6, <2>1, <2>2
<1> HIDE DEF from
<1>8. from \in w .. (Size - 1) /\ ~IsSpace(t[from]) /\ from \in Nat /\ from > w
  <2>1. from \in w .. (Size - 1) /\ ~IsSpace(t[from])
    BY <1>7
  <2>2. from # w
    BY <2>1
  <2>3. QED
    BY <1>1, <2>1, <2>2, SizeAndPositions
<1>9. from \in Others
  <2>1. InWord(t, from)
    BY <1>1, <1>4, <1>7, <1>8, InWordFacts
  <2>2. ~InWord(t, from - 1)
    <3>1. from - 1 \in w .. (Size - 1) /\ from - 1 \in Int /\ ~(from <= from - 1)
      <4>1. w \in Nat /\ from \in w .. (Size - 1) /\ from \in Nat /\ from > w
        BY <1>1, <1>8
      <4>2. QED
        BY <4>1, SizeAndPositions
    <3>2. from - 1 \notin Q
      <4> HIDE DEF Q
      <4>1. QED
        BY <1>7, <3>1
    <3>3. IsSpace(t[from - 1])
      BY <3>1, <3>2
    <3>4. QED
      BY <3>1, <3>3, InWordFacts
  <2>3. from # Start(t) /\ from \in Positions
    BY <1>1, <1>8, SizeAndPositions
  <2>4. QED
    BY <1>1, <2>1, <2>2, <2>3 DEF Others, WordStarts
<1>10. from = S
  BY <1>2, <1>4, <1>7, <1>8, <1>9
<1>11. QED
  BY <1>1, <1>4, <1>5, <1>10 DEF S, from

\* The digits at a position of the text.
DigitsAt(t, from) == First({q \in from .. (Size - 1) : ~IsDigit(t[q])})

LEMMA DigitsFacts ==
  ASSUME NEW t \in [Positions -> STRING], NEW from \in 0 .. Size
  PROVE  LET to == DigitsAt(t, from)
             digits == [i \in 1 .. (to - from) |-> t[from + i - 1]]
         IN  /\ to \in from .. Size
             /\ to = Size \/ ~IsDigit(t[to])
             /\ \A q \in from .. (to - 1) : q \in Positions /\ IsDigit(t[q])
             /\ Value(digits) \in Nat
<1> DEFINE to == DigitsAt(t, from)
           Q == {q \in from .. (Size - 1) : ~IsDigit(t[q])}
           digits == [i \in 1 .. (to - from) |-> t[from + i - 1]]
<1>1. Q \in SUBSET Positions /\ from \in Nat /\ Size \in Nat
  BY SizeAndPositions
<1>2. to \in Q \cup {Size} /\ to \in 0 .. Size /\ \A q \in Q : to <= q
  <2> HIDE DEF Q
  <2>1. to = First(Q)
    BY DEF DigitsAt, Q
  <2>2. QED
    BY <1>1, <2>1, FirstIsLeast
<1> HIDE DEF to
<1>3. to \in from .. Size /\ (to = Size \/ ~IsDigit(t[to])) /\ to \in Nat
  BY <1>1, <1>2
<1>4. ASSUME NEW q \in from .. (to - 1) PROVE q \in Positions /\ IsDigit(t[q])
  <2>1. q \in from .. (Size - 1) /\ q \in Nat /\ ~(to <= q)
    BY <1>1, <1>3
  <2>2. q \notin Q
    <3> HIDE DEF Q
    <3>1. QED
      BY <1>2, <2>1
  <2>3. QED
    BY <2>1, <2>2, SizeAndPositions
<1>5. ASSUME NEW i \in 1 .. (to - from)
      PROVE  from + i - 1 \in Positions /\ IsDigit(t[from + i - 1])
  <2>1. from + i - 1 \in from .. (to - 1)
    BY <1>1, <1>3
  <2>2. QED
    BY <1>4, <2>1
<1>6. to - from \in Nat
  BY <1>1, <1>3
<1>7. digits \in Seq(STRING) /\ Len(digits) = to - from
  BY <1>5, <1>6
<1>8. Value(digits) \in Nat
  <2>1. \A i \in 1 .. (to - from) : IsDigit(digits[i])
    BY <1>5
  <2> HIDE DEF digits
  <2>2. QED
    BY <1>6, <1>7, <2>1, ValueType
<1>9. QED
  BY <1>3, <1>4, <1>8 DEF to

LEMMA ModuloWidth ==
  ASSUME NEW n \in Nat
  PROVE  n % Width \in 0 .. (Width - 1)
BY Constants

LEMMA AtoiType ==
  ASSUME NEW t \in [Positions -> STRING], NEW p \in Positions
  PROVE  atoi(t, p) \in 0 .. (Width - 1)
<1> DEFINE Q == {q \in p .. (Size - 1) : ~IsSpace(t[q])}
           from == First(Q)
           to == DigitsAt(t, from)
           digits == [i \in 1 .. (to - from) |-> t[from + i - 1]]
<1>1. from \in 0 .. Size
  <2>1. Q \in SUBSET Positions
    BY SizeAndPositions
  <2> HIDE DEF Q
  <2>2. QED
    BY <2>1, FirstIsLeast
<1>2. atoi(t, p) = Value(digits) % Width
  BY DEF atoi, DigitsAt
<1>3. Value(digits) \in Nat
  <2> HIDE DEF from
  <2>1. QED
    BY <1>1, DigitsFacts
<1> HIDE DEF digits
<1>4. QED
  BY <1>2, <1>3, ModuloWidth

\* atoi at the white space before a word is the number that word begins with.
LEMMA AtoiIsNumber ==
  ASSUME NEW t, TextOK(t), NEW w \in Positions, NEW s \in Start(t) .. (End(t) - 1),
         ~IsSpace(t[s]), First({q \in w .. (Size - 1) : ~IsSpace(t[q])}) = s
  PROVE  atoi(t, w) = NumberOf(WordAt(t, s))
<1> DEFINE to == DigitsAt(t, s)
           Q == {q \in s .. (Size - 1) : ~InWord(t, q)}
           e == First(Q)
           word == [i \in 1 .. (e - s) |-> t[s + i - 1]]
           B == {k \in DOMAIN word : ~IsDigit(word[k])} \cup {Len(word) + 1}
           digits == [i \in 1 .. (to - s) |-> t[s + i - 1]]
<1>1. /\ Start(t) \in Nat /\ End(t) \in Nat /\ End(t) < Size /\ s \in Nat /\ Size \in Nat
      /\ s \in Positions /\ s \in 0 .. Size /\ t \in [Positions -> STRING]
      /\ Q \in SUBSET Positions /\ s < End(t) /\ End(t) \in Positions
  BY StartFacts, EndFacts, TextEndFacts, SizeAndPositions DEF TextOK
<1>2. atoi(t, w) = Value(digits) % Width
  BY DEF atoi, DigitsAt
<1>3. e \in (s + 1) .. End(t) /\ ~InWord(t, e)
  <2>1. End(t) \in Q
    BY <1>1, InWordFacts
  <2>2. e \in Q \cup {Size} /\ \A q \in Q : e <= q
    <3> HIDE DEF Q
    <3>1. QED
      BY <1>1, FirstIsLeast
  <2>3. e <= End(t)
    <3> HIDE DEF Q, e
    <3>1. QED
      BY <2>1, <2>2
  <2>4. e \in Q
    <3> HIDE DEF Q, e
    <3>1. QED
      BY <1>1, <2>2, <2>3
  <2>5. InWord(t, s)
    BY <1>1, InWordFacts
  <2> HIDE DEF e
  <2>6. e \in s .. (Size - 1) /\ ~InWord(t, e) /\ e # s
    BY <2>4, <2>5
  <2>7. QED
    BY <1>1, <2>3, <2>6
<1> HIDE DEF Q, e
<1>4. ~IsDigit(t[e]) /\ e \in Positions /\ e \in Nat
  <2>1. e \in Positions /\ e \in Nat
    BY <1>1, <1>3, SizeAndPositions
  <2>2. CASE e = End(t)
    BY <2>1, <2>2, EndFacts, Characters
  <2>3. CASE e # End(t)
    <3>1. e \in Start(t) .. (End(t) - 1)
      BY <1>1, <1>3, <2>3
    <3>2. IsSpace(t[e])
      BY <1>3, <2>1, <3>1, InWordFacts
    <3>3. QED
      BY <2>1, <3>2, Characters
  <2>4. QED
    BY <2>2, <2>3
<1>5. /\ to \in s .. Size /\ (to = Size \/ ~IsDigit(t[to]))
      /\ \A q \in s .. (to - 1) : IsDigit(t[q])
  BY <1>1, DigitsFacts
<1> HIDE DEF to
<1>6. to \in s .. e /\ ~IsDigit(t[to]) /\ to \in Nat
  <2>1. to <= e
    <3>1. SUFFICES ASSUME e < to PROVE FALSE
      BY <1>1, <1>4, <1>5
    <3>2. e \in s .. (to - 1)
      BY <1>1, <1>3, <1>5, <3>1
    <3>3. QED
      BY <1>4, <1>5, <3>2
  <2>2. QED
    BY <1>1, <1>3, <1>4, <1>5, <2>1
<1>7. word \in Seq(STRING) /\ Len(word) = e - s /\ e - s \in Nat
  <2>1. e - s \in Nat
    BY <1>1, <1>3
  <2>2. \A i \in 1 .. (e - s) : s + i - 1 \in Positions
    BY <1>1, <1>3, SizeAndPositions
  <2>3. QED
    BY <1>1, <2>1, <2>2
<1>8. B \in SUBSET Nat
  <2>1. DOMAIN word = 1 .. (e - s)
    BY <1>7
  <2>2. QED
    BY <1>7, <2>1
<1>9. to - s + 1 \in B
  <2>1. CASE to = e
    BY <2>1, <1>7
  <2>2. CASE to # e
    <3>1. to - s + 1 \in 1 .. (e - s) /\ s + (to - s + 1) - 1 = to
      BY <1>1, <1>3, <1>6, <2>2
    <3>2. word[to - s + 1] = t[to]
      BY <3>1
    <3>3. QED
      BY <1>6, <3>1, <3>2
  <2>3. QED
    BY <2>1, <2>2
<1>10. ASSUME NEW k \in B PROVE to - s + 1 <= k
  <2>1. CASE k = Len(word) + 1
    BY <1>1, <1>3, <1>6, <1>7, <2>1
  <2>2. CASE k # Len(word) + 1
    <3>1. k \in 1 .. (e - s) /\ ~IsDigit(word[k])
      BY <1>7, <2>2
    <3>2. ~IsDigit(t[s + k - 1])
      BY <3>1
    <3>3. SUFFICES ASSUME k < to - s + 1 PROVE FALSE
      BY <1>1, <1>6, <3>1
    <3>4. s + k - 1 \in s .. (to - 1)
      BY <1>1, <1>6, <3>1, <3>3
    <3>5. QED
      BY <1>5, <3>2, <3>4
  <2>3. QED
    BY <2>1, <2>2
<1>11. Min(B) = to - s + 1
  <2> HIDE DEF B
  <2>1. QED
    BY <1>8, <1>9, <1>10, MinIs
<1>12. SubSeq(word, 1, to - s) = digits
  <2>1. to - s \in 0 .. (e - s)
    BY <1>1, <1>3, <1>6
  <2>2. QED
    BY <1>7, <2>1
<1>13. NumberOf(word) = Value(digits) % Width
  <2>1. Min(B) - 1 = to - s
    <3>1. (to - s + 1) - 1 = to - s
      BY <1>1, <1>6
    <3> HIDE DEF B
    <3>2. QED
      BY <1>11, <3>1
  <2>2. NumberOf(word) = Value(SubSeq(word, 1, Min(B) - 1)) % Width
    BY DEF NumberOf
  <2> HIDE DEF B, word, digits
  <2>3. QED
    BY <1>12, <2>1, <2>2
<1>14. WordAt(t, s) = word
  BY DEF WordAt, e, Q
<1>15. QED
  BY <1>2, <1>13, <1>14

-----------------------------------------------------------------------------
(* cli_interpreter.                                                        *)

\* RunsWhatWasTyped of a text, a command and whether the process is alive.
RunsRight(t, command, running) ==
  /\ command # Nothing =>
       /\ WordStarts(t) # {} /\ command.name = WordAt(t, FirstWord(t))
       /\ command.name \in Deletes /\ SecondWord(t) # Size =>
            command.argument = NumberOf(WordAt(t, SecondWord(t)))
  /\ running /\ WordStarts(t) # {} /\ t[TextEnd(t) - 1] = Newline
       /\ WordAt(t, FirstWord(t)) \in Names => command # Nothing

LEMMA RunsRightIs == RunsWhatWasTyped <=> RunsRight(text, ran, alive)
BY DEF RunsWhatWasTyped, RunsRight

Commands(t) == {name \in Names : is_str_eql(t, command_parser(t).tokens[0], name)}

LEMMA InterpretTypes ==
  ASSUME NEW t, TextOK(t), tokens \in TokenList, Interpret(t)
  PROVE  /\ text' = t /\ tokens' \in TokenList /\ alive' \in BOOLEAN
         /\ ran'.name \in {<< >>} \cup Names
         /\ ran'.argument \in {NoArgument} \cup 0 .. (Width - 1)
<1> DEFINE parsed == command_parser(t)
<1>1. parsed.tokens \in TokenList /\ parsed.tokens[1] \in Tokens
  <2>1. parsed.tokens \in TokenList
    BY ParserLeaves DEF ScanOK
  <2> HIDE DEF parsed
  <2>2. QED
    BY <2>1, Constants DEF TokenList
<1>2. text' = t /\ tokens' = parsed.tokens /\ alive' \in BOOLEAN
  BY DEF Interpret
<1>3. Arguments(t, parsed.tokens[1]) \subseteq {NoArgument} \cup 0 .. (Width - 1)
  <2>1. CASE parsed.tokens[1].ptr = Wild
    BY <2>1 DEF Arguments
  <2>2. CASE parsed.tokens[1].ptr # Wild
    <3>1. parsed.tokens[1].ptr \in Positions
      BY <1>1, <2>2 DEF Tokens
    <3>2. atoi(t, parsed.tokens[1].ptr) \in 0 .. (Width - 1)
      BY <3>1, AtoiType DEF TextOK
    <3>3. QED
      BY <2>2, <3>2 DEF Arguments
  <2>3. QED
    BY <2>1, <2>2
<1>4. \/ ran' = Nothing
      \/ \E name \in Commands(t) :
           \E id \in (IF name \in Deletes THEN Arguments(t, parsed.tokens[1]) ELSE {NoArgument}) :
             ran' = [name |-> name, argument |-> id]
  BY DEF Interpret, Commands
<1>5. CASE ran' = Nothing
  BY <1>1, <1>2, <1>5 DEF Nothing
<1>6. CASE ran' # Nothing
  <2>1. PICK name \in Commands(t), id \in {NoArgument} \cup 0 .. (Width - 1) :
          ran' = [name |-> name, argument |-> id]
    BY <1>3, <1>4, <1>6
  <2>2. name \in Names
    BY <2>1 DEF Commands
  <2>3. QED
    BY <1>1, <1>2, <2>1, <2>2
<1>7. QED
  BY <1>5, <1>6

\* Once a token is complete it is the first word, up to the white space w.
LEMMA FirstTokenIs ==
  ASSUME NEW t, TextOK(t), tokens \in TokenList, command_parser(t).count > 0
  PROVE  \E w \in Positions :
           /\ Start(t) < w /\ w <= End(t) /\ IsSpace(t[w])
           /\ \A q \in Start(t) .. (w - 1) : ~IsSpace(t[q])
           /\ WordStarts(t) # {} /\ FirstWord(t) = Start(t)
           /\ WordAt(t, Start(t)) = [i \in 1 .. (w - Start(t)) |-> t[Start(t) + i - 1]]
           /\ command_parser(t).tokens[0].ptr = Start(t)
           /\ command_parser(t).tokens[0].len = w - Start(t)
           /\ w < End(t) => command_parser(t).tokens[1].ptr = w
<1> DEFINE m == End(t) - Start(t)
           parsed == command_parser(t)
<1>1. Start(t) \in Nat /\ End(t) \in Nat /\ Start(t) <= End(t) /\ End(t) < Size
      /\ Start(t) \in Positions
  BY StartFacts, EndFacts, TextEndFacts, SizeAndPositions
<1>2. FirstToken(t, m, parsed)
  BY ParserLeaves DEF ScanOK
<1>3. PICK w \in (Start(t) + 1) .. (Start(t) + m) :
        /\ IsSpace(t[w]) /\ \A q \in Start(t) .. (w - 1) : ~IsSpace(t[q])
        /\ parsed.tokens[0].ptr = Start(t) /\ parsed.tokens[0].len = w - Start(t)
        /\ IF parsed.count = 1 /\ parsed.first THEN m = w - Start(t) ELSE parsed.tokens[1].ptr = w
  <2> HIDE DEF m, parsed
  <2>1. QED
    BY <1>2 DEF FirstToken
<1>4. w \in Positions /\ Start(t) < w /\ w <= End(t) /\ w \in Nat
  BY <1>1, <1>3, SizeAndPositions
<1>5. WordStarts(t) # {} /\ FirstWord(t) = Start(t)
  BY <1>1, <1>4, FirstWordIs
<1>6. WordAt(t, Start(t)) = [i \in 1 .. (w - Start(t)) |-> t[Start(t) + i - 1]]
  <2>1. IsSpace(t[w]) /\ \A q \in Start(t) .. (w - 1) : ~IsSpace(t[q])
    BY <1>3
  <2>2. Start(t) <= Start(t)
    BY <1>1
  <2>3. QED
    BY <1>1, <1>4, <2>1, <2>2, WordEnds
<1>7. ASSUME w < End(t) PROVE parsed.tokens[1].ptr = w
  <2>1. m # w - Start(t)
    BY <1>1, <1>4, <1>7
  <2> HIDE DEF m, parsed
  <2>2. QED
    BY <1>3, <2>1
<1> HIDE DEF parsed
<1>8. QED
  BY <1>3, <1>4, <1>5, <1>6, <1>7 DEF parsed

LEMMA InterpretRuns ==
  ASSUME NEW t, TextOK(t), tokens \in TokenList, Interpret(t)
  PROVE  RunsRight(t, ran', alive')
<1> DEFINE parsed == command_parser(t)
           Ids(name) == IF name \in Deletes THEN Arguments(t, parsed.tokens[1])
                                            ELSE {NoArgument}
<1>1. /\ parsed.overflow => alive' = FALSE
      /\ ran' # Nothing =>
           /\ parsed.count # 0
           /\ \E name \in Commands(t) : \E id \in Ids(name) :
                ran' = [name |-> name, argument |-> id]
      /\ ~parsed.overflow /\ parsed.count # 0 /\ Commands(t) # {} =>
           \E name \in Commands(t) : \E id \in Ids(name) :
             ran' = [name |-> name, argument |-> id]
  BY DEF Interpret, Commands
<1>2. parsed.count \in Nat
  BY ParserLeaves, Constants DEF ScanOK
<1>3. Start(t) \in Nat /\ End(t) \in Nat /\ TextEnd(t) \in Nat /\ Start(t) <= End(t)
      /\ Start(t) \in Positions
  BY StartFacts, EndFacts, TextEndFacts, SizeAndPositions
<1> HIDE DEF Ids
\* A name that is found is the first word.
<1>4. ASSUME NEW name \in Commands(t), parsed.count > 0
      PROVE  name = WordAt(t, FirstWord(t)) /\ Len(name) > 0
  <2>1. PICK w \in Positions :
          /\ Start(t) < w /\ FirstWord(t) = Start(t)
          /\ WordAt(t, Start(t)) = [i \in 1 .. (w - Start(t)) |-> t[Start(t) + i - 1]]
          /\ parsed.tokens[0].ptr = Start(t) /\ parsed.tokens[0].len = w - Start(t)
    BY <1>4, FirstTokenIs
  <2>2. /\ name \in Seq(STRING) /\ Len(name) = w - Start(t)
        /\ \A i \in 1 .. Len(name) : t[Start(t) + i - 1] = name[i]
    BY <2>1, CommandLineAssumption DEF Commands, is_str_eql
  <2>3. w - Start(t) \in Nat /\ w - Start(t) > 0
    BY <1>3, <2>1, SizeAndPositions
  <2> HIDE DEF parsed
  <2>4. name = [i \in 1 .. (w - Start(t)) |-> t[Start(t) + i - 1]]
    <3>1. name = [i \in 1 .. Len(name) |-> name[i]]
      BY <2>2
    <3>2. QED
      BY <2>2, <3>1
  <2>5. QED
    BY <2>1, <2>2, <2>3, <2>4
\* The first word, when it is a name, is found.
<1>5. ASSUME WordAt(t, FirstWord(t)) \in Names, parsed.count > 0
      PROVE  WordAt(t, FirstWord(t)) \in Commands(t)
  <2> DEFINE word == WordAt(t, FirstWord(t))
  <2>1. PICK w \in Positions :
          /\ Start(t) < w /\ FirstWord(t) = Start(t)
          /\ WordAt(t, Start(t)) = [i \in 1 .. (w - Start(t)) |-> t[Start(t) + i - 1]]
          /\ parsed.tokens[0].ptr = Start(t) /\ parsed.tokens[0].len = w - Start(t)
    BY <1>5, FirstTokenIs
  <2>2. w - Start(t) \in Nat
    BY <1>3, <2>1, SizeAndPositions
  <2>3. /\ word = [i \in 1 .. (w - Start(t)) |-> t[Start(t) + i - 1]]
        /\ Len(word) = w - Start(t)
    BY <2>1, <2>2
  <2> HIDE DEF word
  <2>4. is_str_eql(t, parsed.tokens[0], word)
    <3> HIDE DEF parsed
    <3>1. QED
      BY <2>1, <2>3 DEF is_str_eql
  <2>5. QED
    BY <1>5, <2>4 DEF Commands, word
\* A delete gets the number at the second word.
<1>6. ASSUME parsed.count > 0, SecondWord(t) # Size, NEW name \in Deletes,
             NEW id \in Ids(name)
      PROVE  id = NumberOf(WordAt(t, SecondWord(t)))
  <2>1. PICK w \in Positions :
          /\ Start(t) < w /\ w <= End(t) /\ IsSpace(t[w])
          /\ \A q \in Start(t) .. (w - 1) : ~IsSpace(t[q])
          /\ w < End(t) => parsed.tokens[1].ptr = w
    BY <1>6, FirstTokenIs
  <2>2. w \in Nat /\ Start(t) < End(t)
    BY <1>3, <2>1, SizeAndPositions
  <2>3. /\ SecondWord(t) \in (w + 1) .. (End(t) - 1)
        /\ First({q \in w .. (Size - 1) : ~IsSpace(t[q])}) = SecondWord(t)
        /\ ~IsSpace(t[SecondWord(t)])
    BY <1>6, <2>1, <2>2, SecondWordIs
  <2>4. w < End(t) /\ SecondWord(t) \in Start(t) .. (End(t) - 1)
    BY <1>3, <2>1, <2>2, <2>3
  <2>5. atoi(t, w) = NumberOf(WordAt(t, SecondWord(t)))
    BY <2>3, <2>4, AtoiIsNumber
  <2>6. Ids(name) = {atoi(t, w)}
    <3>1. parsed.tokens[1].ptr = w /\ w # Wild
      BY <2>1, <2>4, Constants
    <3> HIDE DEF parsed
    <3>2. QED
      BY <1>6, <3>1 DEF Ids, Arguments
  <2>7. QED
    BY <1>6, <2>5, <2>6
\* A text with a newline behind a word completes a token.
<1>7. ASSUME WordStarts(t) # {}, t[TextEnd(t) - 1] = Newline
      PROVE  parsed.count > 0
  <2>1. Start(t) < End(t)
    BY <1>7, FirstWordIs
  <2>2. t[End(t)] = Newline
    <3>1. End(t) # TextEnd(t)
      <4>1. SUFFICES ASSUME End(t) = TextEnd(t) PROVE FALSE
        OBVIOUS
      <4>2. TextEnd(t) - 1 \in Start(t) .. (End(t) - 1)
        BY <1>3, <2>1, <4>1
      <4>3. QED
        BY <1>7, <4>2, EndFacts
    <3>2. QED
      BY <3>1, EndFacts
  <2>3. SUFFICES ASSUME parsed.count = 0 PROVE FALSE
    BY <1>2
  <2>4. \A q \in Start(t) .. (Start(t) + (End(t) - Start(t))) : ~IsSpace(t[q])
    <3>1. End(t) - Start(t) > 0
      BY <1>3, <2>1
    <3>2. ScanOK(t, End(t) - Start(t), parsed)
      BY ParserLeaves
    <3> HIDE DEF parsed
    <3>3. QED
      BY <2>3, <3>1, <3>2 DEF ScanOK
  <2>5. End(t) \in Start(t) .. (Start(t) + (End(t) - Start(t)))
    BY <1>3
  <2>6. QED
    BY <2>2, <2>4, <2>5, Characters
<1> HIDE DEF parsed
<1>8. ASSUME ran' # Nothing
      PROVE  /\ WordStarts(t) # {} /\ ran'.name = WordAt(t, FirstWord(t))
             /\ ran'.name \in Deletes /\ SecondWord(t) # Size =>
                  ran'.argument = NumberOf(WordAt(t, SecondWord(t)))
  <2>0. PICK name \in Commands(t) : \E id \in Ids(name) : ran' = [name |-> name, argument |-> id]
    BY <1>1, <1>8
  <2>1. PICK id \in Ids(name) : ran' = [name |-> name, argument |-> id]
    BY <2>0
  <2>2. parsed.count > 0
    BY <1>1, <1>2, <1>8
  <2>3. ran'.name = name /\ ran'.argument = id
    BY <2>1
  <2>4. WordStarts(t) # {}
    BY <2>2, FirstTokenIs DEF parsed
  <2>5. QED
    BY <1>4, <1>6, <2>1, <2>2, <2>3, <2>4
<1>9. ASSUME alive', WordStarts(t) # {}, t[TextEnd(t) - 1] = Newline,
             WordAt(t, FirstWord(t)) \in Names
      PROVE  ran' # Nothing
  <2>1. parsed.count > 0 /\ ~parsed.overflow
    BY <1>1, <1>7, <1>9
  <2>2. Commands(t) # {}
    BY <1>5, <1>9, <2>1
  <2>3. PICK name \in Commands(t) : \E id \in Ids(name) : ran' = [name |-> name, argument |-> id]
    BY <1>1, <1>2, <2>1, <2>2
  <2>4. Len(name) > 0 /\ Len(<< >>) = 0
    BY <1>4, <2>1
  <2>5. ran'.name # << >>
    BY <2>3, <2>4
  <2>6. QED
    BY <2>5 DEF Nothing
<1>10. QED
  BY <1>8, <1>9 DEF RunsRight

-----------------------------------------------------------------------------
(* fgets.                                                                  *)

\* The TextEnd of a text whose first NUL is known to lie at or before p.
LEMMA TextEndAt ==
  ASSUME NEW t, NEW p \in Positions, t[p] = Nul
  PROVE  TextEnd(t) \in Positions /\ TextEnd(t) <= p
<1> DEFINE P == {q \in Positions : t[q] = Nul}
<1>1. First(P) \in P \cup {Size} /\ \A q \in P : First(P) <= q
  BY FirstIsLeast
<1>2. First(P) <= p /\ p \in Nat /\ p < Size
  BY <1>1, SizeAndPositions
<1>3. First(P) \in P
  BY <1>1, <1>2, SizeAndPositions
<1>4. QED
  BY <1>2, <1>3 DEF TextEnd

\* What fgets leaves in the buffer: as much of a line as there is room for,
\* its newline, if there is one, last, and a NUL.
LEMMA FilledText ==
  ASSUME text \in [Positions -> STRING], typed \in Seq(STRING), typed # << >>
  PROVE  TextOK(Filled) /\ Taken \in 1 .. Len(typed)
<1> DEFINE N == {n \in DOMAIN typed : n = Room \/ n = Len(typed) \/ typed[n] = Newline}
<1>1. /\ Len(typed) \in Nat /\ Len(typed) > 0 /\ DOMAIN typed = 1 .. Len(typed)
      /\ Room = Size - 1 /\ Room \in Nat /\ Room > 0 /\ Size \in Nat
  BY SizeAndPositions DEF Room
<1>2. N \in SUBSET Nat /\ Len(typed) \in N
  BY <1>1
<1>3. Taken \in N /\ \A n \in N : Taken <= n
  <2>1. Taken = Min(N)
    BY DEF Taken
  <2> HIDE DEF N
  <2>2. QED
    BY <1>2, <2>1, MinIsLeast
<1>4. Taken \in 1 .. Len(typed)
  BY <1>1, <1>3
<1>5. Taken <= Room
  <2>1. CASE Len(typed) <= Room
    BY <1>1, <1>4, <2>1
  <2>2. CASE Room < Len(typed)
    BY <1>1, <1>3, <2>2
  <2>3. QED
    BY <1>1, <2>1, <2>2
<1>6. ASSUME NEW p \in 0 .. (Taken - 1), typed[p + 1] = Newline
      PROVE  p + 1 = Taken
  <2>1. p + 1 \in N
    <3>1. p + 1 \in 1 .. Len(typed)
      BY <1>4
    <3>2. QED
      BY <1>1, <1>6, <3>1
  <2>2. Taken <= p + 1
    <3> HIDE DEF N
    <3>1. QED
      BY <1>3, <2>1
  <2>3. QED
    BY <1>4, <2>2
<1> HIDE DEF N
<1>7. Positions \cup 0 .. Taken = Positions /\ Taken \in Positions /\ Taken \in Nat
  BY <1>1, <1>4, <1>5, SizeAndPositions
<1>8. /\ Filled \in [Positions -> STRING] /\ Filled[Taken] = Nul
      /\ \A p \in 0 .. (Taken - 1) : Filled[p] = typed[p + 1]
  <2>1. \A p \in Positions : p < Taken => p + 1 \in 1 .. Len(typed)
    BY <1>4, SizeAndPositions
  <2>2. Filled = [p \in Positions |->
                    IF p < Taken THEN typed[p + 1] ELSE IF p = Taken THEN Nul ELSE text[p]]
    BY <1>7 DEF Filled
  <2>3. Filled \in [Positions -> STRING]
    <3>1. Nul \in STRING
      BY CommandLineAssumption
    <3>2. \A p \in Positions : p < Taken => typed[p + 1] \in STRING
      BY <1>1, <2>1
    <3>3. QED
      BY <2>2, <3>1, <3>2
  <2>4. Filled[Taken] = Nul
    BY <1>7, <2>2
  <2>5. ASSUME NEW p \in 0 .. (Taken - 1) PROVE Filled[p] = typed[p + 1]
    <3>1. p \in Positions /\ p < Taken
      BY <1>7, SizeAndPositions
    <3>2. QED
      BY <2>2, <3>1
  <2>6. QED
    BY <2>3, <2>4, <2>5
<1>9. TextEnd(Filled) \in Positions /\ TextEnd(Filled) <= Taken
  BY <1>7, <1>8, TextEndAt
<1>10. ASSUME NEW p \in 0 .. (TextEnd(Filled) - 1), Filled[p] = Newline
       PROVE  p + 1 = TextEnd(Filled)
  <2>1. p \in 0 .. (Taken - 1) /\ TextEnd(Filled) \in Nat
    BY <1>7, <1>9, SizeAndPositions
  <2>2. p + 1 = Taken
    BY <1>6, <1>8, <1>10, <2>1
  <2>3. QED
    BY <1>7, <1>9, <2>1, <2>2
<1>11. QED
  BY <1>4, <1>8, <1>9, <1>10 DEF TextOK

-----------------------------------------------------------------------------
(* The inductive invariant.                                                *)

IInv ==
  /\ TypeOK
  /\ TextOK(text)
  /\ RunsWhatWasTyped

LEMMA InitHolds == Init => IInv
<1> SUFFICES ASSUME Init PROVE IInv
  OBVIOUS
<1>1. TypeOK
  <2>1. text \in [Positions -> STRING] /\ typed \in Seq(STRING)
    <3>1. Nul \in STRING /\ << >> \in Seq(STRING)
      BY CommandLineAssumption
    <3>2. QED
      BY <3>1 DEF Init
  <2>2. lines \in 0 .. MaxLines /\ closed \in BOOLEAN /\ alive \in BOOLEAN
    <3>1. lines \in 0 .. MaxLines
      BY CommandLineAssumption, SMT DEF Init
    <3>2. closed \in BOOLEAN /\ alive \in BOOLEAN
      BY Zenon DEF Init
    <3>3. QED
      BY <3>1, <3>2
  <2>3. tokens \in [0 .. (MaxTokens - 1) -> Tokens]
    BY SizeAndPositions DEF Init, Tokens
  <2>4. ran.name \in {<< >>} \cup Names /\ ran.argument \in {NoArgument} \cup 0 .. (Width - 1)
    BY DEF Init, Nothing
  <2>5. QED
    BY <2>1, <2>2, <2>3, <2>4 DEF TypeOK
<1>2. TextEnd(text) = 0 /\ 0 \in Positions
  <2>1. 0 \in Positions /\ text[0] = Nul
    BY SizeAndPositions DEF Init
  <2>2. QED
    BY <2>1, TextEndAt, SizeAndPositions
<1>3. TextOK(text)
  BY <1>1, <1>2 DEF TextOK, TypeOK
<1>4. WordStarts(text) = {}
  BY <1>2, SizeAndPositions DEF WordStarts, InWord
<1>5. QED
  BY <1>1, <1>3, <1>4 DEF IInv, RunsWhatWasTyped, Init

LEMMA InterpretKeeps ==
  ASSUME NEW t, TextOK(t), IInv, Interpret(t)
  PROVE  /\ text' \in [Positions -> STRING] /\ tokens' \in [0 .. (MaxTokens - 1) -> Tokens]
         /\ ran'.name \in {<< >>} \cup Names
         /\ ran'.argument \in {NoArgument} \cup 0 .. (Width - 1)
         /\ alive' \in BOOLEAN
         /\ TextOK(text)' /\ RunsWhatWasTyped'
<1>1. tokens \in TokenList
  BY DEF IInv, TypeOK, TokenList
<1>2. /\ text' = t /\ tokens' \in TokenList /\ alive' \in BOOLEAN
      /\ ran'.name \in {<< >>} \cup Names
      /\ ran'.argument \in {NoArgument} \cup 0 .. (Width - 1)
  BY <1>1, InterpretTypes
<1>3. RunsRight(t, ran', alive')
  BY <1>1, InterpretRuns
<1>4. RunsWhatWasTyped'
  BY <1>2, <1>3 DEF RunsRight, RunsWhatWasTyped
<1>5. TextOK(text)' /\ t \in [Positions -> STRING]
  BY <1>2 DEF TextOK
<1>6. QED
  BY <1>2, <1>4, <1>5 DEF TokenList

LEMMA StepHolds == IInv /\ [Next]_vars => IInv'
<1> SUFFICES ASSUME IInv, [Next]_vars PROVE IInv'
  OBVIOUS
<1>1. ASSUME NEW line \in Lines, Type(line) PROVE IInv'
  <2>1. line \in Seq(STRING) /\ lines + 1 \in 0 .. MaxLines
    BY <1>1, CommandLineAssumption DEF IInv, TypeOK, Type
  <2>2. TypeOK'
    BY <1>1, <2>1 DEF IInv, TypeOK, Type
  <2>3. TextOK(text)' /\ RunsWhatWasTyped'
    BY <1>1 DEF IInv, Type, TextOK, TextEnd, RunsWhatWasTyped
  <2>4. QED
    BY <2>2, <2>3 DEF IInv
<1>2. ASSUME Close PROVE IInv'
  <2>1. TypeOK'
    BY <1>2 DEF IInv, TypeOK, Close
  <2>2. TextOK(text)' /\ RunsWhatWasTyped'
    BY <1>2 DEF IInv, Close, RunsWhatWasTyped
  <2>3. QED
    BY <2>1, <2>2 DEF IInv
<1>3. ASSUME ReadLine PROVE IInv'
  <2>1. TextOK(Filled) /\ Taken \in 1 .. Len(typed)
    BY <1>3, FilledText DEF IInv, TypeOK, ReadLine
  <2>2. SubSeq(typed, Taken + 1, Len(typed)) \in Seq(STRING)
    BY <2>1 DEF IInv, TypeOK
  <2>3. QED
    BY <1>3, <2>1, <2>2, InterpretKeeps DEF IInv, TypeOK, ReadLine
<1>4. ASSUME ReadEnd PROVE IInv'
  BY <1>4, InterpretKeeps DEF IInv, TypeOK, ReadEnd
<1>5. ASSUME UNCHANGED vars PROVE IInv'
  <2>1. TypeOK'
    BY <1>5 DEF IInv, TypeOK, vars
  <2>2. TextOK(text)' /\ RunsWhatWasTyped'
    BY <1>5 DEF IInv, vars, RunsWhatWasTyped
  <2>3. QED
    BY <2>1, <2>2 DEF IInv
<1>6. QED
  BY <1>1, <1>2, <1>3, <1>4, <1>5 DEF Next

LEMMA AlwaysIInv == Spec => []IInv
BY InitHolds, StepHolds, PTL DEF Spec

\* Whatever is typed, and however much of it, the text in the buffer is never
\* longer than the buffer, every token that has been cut begins in it, and the
\* number a delete acts upon is one an endpoint id can have.
THEOREM CommandLineTypeCorrect == Spec => []TypeOK
<1>1. IInv => TypeOK
  BY DEF IInv
<1>2. QED
  BY <1>1, AlwaysIInv, PTL

\* cli_interpreter runs a command only when the text's first word is its name,
\* whole; it acts upon the number that the second word begins with, wherever
\* that word stands; and a line with a name for its first word runs something:
\* for a buffer of any size, any list of tokens, any names and any lines.
THEOREM AlwaysRunsWhatWasTyped == Spec => []RunsWhatWasTyped
<1>1. IInv => RunsWhatWasTyped
  BY DEF IInv
<1>2. QED
  BY <1>1, AlwaysIInv, PTL

=============================================================================
