----------------------------- MODULE CommandLine ----------------------------
(***************************************************************************)
(* The bridge's command line: bridge_cli_thread reads stdin with fgets into *)
(* one buffer, cli_interpreter cuts the text into the tokens of one         *)
(* CLI_Token_t and runs the command the first one names.                    *)
(*                                                                         *)
(* Buffer and tokens live as long as the thread.  command_parser resets the *)
(* count of tokens but not the tokens, and no command looks at the count: a *)
(* token is a pointer into the buffer that outlives the line it was cut     *)
(* from.  What the commands do to the endpoints is in DeviceManager.        *)
(***************************************************************************)
EXTENDS Integers, Sequences, SequencesExt

CONSTANTS
  Names,      \* names in cli_func: sequences of characters
  Deletes,    \* those of the cliDel* functions
  Lines,      \* what the operator may type, each line with its newline
  MaxLines,   \* bound on the lines of a behaviour
  Size,       \* CLI_MAX_BUFFER_SIZE
  MaxTokens,  \* CLI_MAX_TOKEN_COUNT
  Width       \* how many values uint16_t has

Digits == <<"0", "1", "2", "3", "4", "5", "6", "7", "8", "9">>
Nul == "\\0"
Newline == "\n"

ASSUME CommandLineAssumption ==
  /\ Names \subseteq Seq(STRING) /\ Deletes \subseteq Names
  /\ \A line \in Lines : /\ line \in Seq(STRING) /\ Last(line) = Newline
                          /\ ToSet(line) \cap {"-", "+"} = {}
  /\ MaxLines \in Nat
  /\ Size \in Nat /\ Size > 1 /\ MaxTokens \in Nat /\ MaxTokens > 1
  /\ Width \in Nat \ {0}
  /\ Nul \in STRING    \* true of a literal, but no prover knows it

VARIABLES
  text,    \* the buffer: position -> character
  typed,   \* what is typed and not yet read
  lines,   \* how many lines were typed
  closed,  \* stdin has ended
  tokens,  \* token_list
  ran,     \* what the text in the buffer made cli_interpreter run
  alive    \* the process has not crashed

vars == <<text, typed, lines, closed, tokens, ran, alive>>

Wild == -1                \* an uninitialised pointer
NoArgument == -1
Nothing == [name |-> << >>, argument |-> NoArgument]
Positions == 0 .. (Size - 1)

Init ==
  /\ text = [p \in Positions |-> Nul]
  /\ typed = << >> /\ lines = 0 /\ closed = FALSE
  /\ tokens = [i \in 0 .. (MaxTokens - 1) |-> [ptr |-> Wild, len |-> 0]]
  /\ ran = Nothing
  /\ alive = TRUE

-----------------------------------------------------------------------------
(* fgets.                                                                  *)

\* Fault: fgets is given one character more than the buffer has.
Room_Whole == Size

Room == Size - 1

\* How many of the typed characters the next fgets takes.
Taken == Min({n \in DOMAIN typed : n = Room \/ n = Len(typed) \/ typed[n] = Newline})

\* The buffer after fgets: what lies behind the NUL stays.
Filled ==
  [p \in Positions \cup 0 .. Taken |->
     IF p < Taken THEN typed[p + 1] ELSE IF p = Taken THEN Nul ELSE text[p]]

-----------------------------------------------------------------------------
(* cli_interpreter.                                                        *)

IsSpace(c) == c \in {" ", Newline}

\* Where a scan of the buffer for the positions of P ends.
First(P) == Min(P \cup {Size})

\* One round of command_parser's loop, at position p: a token begins where
\* the last one ended, and ends before the next white space.
Round(t, st, p) ==
  LET begun == IF st.first
               THEN [st EXCEPT !.tokens[st.count] = [ptr |-> p, len |-> 1]]
               ELSE st
  IN  IF st.count \notin DOMAIN st.tokens THEN [st EXCEPT !.overflow = TRUE]
      ELSE IF IsSpace(t[p + 1])
      THEN [begun EXCEPT !.first = TRUE, !.count = @ + 1]
      ELSE [begun EXCEPT !.first = FALSE, !.tokens[st.count].len = @ + 1]

\* The tokens of a text, which begins behind its leading white space.
command_parser(t) ==
  LET start == First({p \in Positions : ~IsSpace(t[p])})
      end   == First({p \in start .. (Size - 1) : t[p] \in {Newline, Nul}})
      scan[n \in 0 .. (end - start)] ==
        IF n = 0 THEN [first |-> TRUE, count |-> 0, tokens |-> tokens, overflow |-> FALSE]
                 ELSE Round(t, scan[n - 1], start + n - 1)
  IN  scan[end - start]

\* Fault: the lengths are not compared.
is_str_eql_Prefix(t, token, name) ==
  \A i \in 1 .. Len(name) : t[token.ptr + i - 1] = name[i]

is_str_eql(t, token, name) ==
  /\ token.len = Len(name)
  /\ \A i \in 1 .. Len(name) : t[token.ptr + i - 1] = name[i]

IsDigit(c) == c \in ToSet(Digits)

\* The value of a sequence of digits.
Value(digits) ==
  LET v[n \in 0 .. Len(digits)] ==
        IF n = 0 THEN 0
                 ELSE 10 * v[n - 1] + (CHOOSE d \in 0 .. 9 : Digits[d + 1] = digits[n])
  IN  v[Len(digits)]

\* (uint16_t) atoi(p): white space, newlines included, then digits.  (Lines
\* have no signs.)
atoi(t, p) ==
  LET from == First({q \in p .. (Size - 1) : ~IsSpace(t[q])})
      to   == First({q \in from .. (Size - 1) : ~IsDigit(t[q])})
  IN  Value([i \in 1 .. (to - from) |-> t[from + i - 1]]) % Width

\* The endpoint id a cliDel* command acts upon: nothing when token_list[1] is
\* a null pointer, which only an uninitialised one can be.
Arguments(t, token) ==
  IF token.ptr = Wild THEN {NoArgument} \cup 0 .. (Width - 1) ELSE {atoi(t, token.ptr)}

\* The text is interpreted.  A token too many is written over the count and
\* beyond, and an uninitialised pointer may lead anywhere.
Interpret(t) ==
  LET parsed == command_parser(t)
      found  == {name \in Names : is_str_eql(t, parsed.tokens[0], name)}
      wild   == found \cap Deletes # {} /\ parsed.tokens[1].ptr = Wild
  IN  /\ text' = t
      /\ tokens' = parsed.tokens
      /\ IF parsed.overflow THEN alive' = FALSE /\ ran' = Nothing
         ELSE IF parsed.count = 0 \/ found = {} THEN alive' = TRUE /\ ran' = Nothing
         ELSE /\ alive' \in (IF wild THEN BOOLEAN ELSE {TRUE})
              /\ \E name \in found :
                   \E id \in (IF name \in Deletes THEN Arguments(t, parsed.tokens[1])
                                                  ELSE {NoArgument}) :
                     ran' = [name |-> name, argument |-> id]

-----------------------------------------------------------------------------

\* The operator types a line.
Type(line) ==
  /\ alive /\ ~closed /\ typed = << >> /\ lines < MaxLines
  /\ typed' = line
  /\ lines' = lines + 1
  /\ UNCHANGED <<text, closed, tokens, ran, alive>>

\* The operator's terminal, or whatever stdin is, goes away.
Close ==
  /\ alive /\ ~closed /\ typed = << >>
  /\ closed' = TRUE
  /\ UNCHANGED <<text, typed, lines, tokens, ran, alive>>

\* fgets returns a line, or as much of it as the buffer holds.
ReadLine ==
  /\ alive /\ typed # << >>
  /\ Interpret(Filled)
  /\ typed' = SubSeq(typed, Taken + 1, Len(typed))
  /\ UNCHANGED <<lines, closed>>

\* fgets returns NULL, which is not looked at: the text is interpreted again.
ReadEnd ==
  /\ alive /\ closed
  /\ Interpret(text)
  /\ UNCHANGED <<typed, lines, closed>>

Next ==
  \/ \E line \in Lines : Type(line)
  \/ Close
  \/ ReadLine
  \/ ReadEnd

Spec == Init /\ [][Next]_vars

-----------------------------------------------------------------------------
(* Properties.                                                             *)

Tokens == [ptr : {Wild} \cup Positions, len : 0 .. Size]

\* Every variable keeps to its type: the text is never longer than the buffer
\* and the tokens point into it.
TypeOK ==
  /\ text \in [Positions -> STRING]
  /\ typed \in Seq(STRING) /\ lines \in 0 .. MaxLines
  /\ tokens \in [0 .. (MaxTokens - 1) -> Tokens]
  /\ ran.name \in {<< >>} \cup Names
  /\ ran.argument \in {NoArgument} \cup 0 .. (Width - 1)
  /\ closed \in BOOLEAN /\ alive \in BOOLEAN

\* The words of the text t in the buffer: one begins where a character follows
\* white space or nothing, and ends before white space or the end of the text.
TextEnd(t) == First({p \in Positions : t[p] = Nul})
InWord(t, p) == p \in 0 .. (TextEnd(t) - 1) /\ ~IsSpace(t[p])
WordStarts(t) == {p \in Positions : InWord(t, p) /\ ~InWord(t, p - 1)}
FirstWord(t) == First(WordStarts(t))
SecondWord(t) == First(WordStarts(t) \ {FirstWord(t)})
WordAt(t, p) ==
  [i \in 1 .. (First({q \in p .. (Size - 1) : ~InWord(t, q)}) - p) |-> t[p + i - 1]]

\* The number a word begins with: 0 without digits.
NumberOf(word) ==
  LET n == Min({k \in DOMAIN word : ~IsDigit(word[k])} \cup {Len(word) + 1}) - 1
  IN  Value(SubSeq(word, 1, n)) % Width

\* cli_interpreter runs what the text says: the command that the first word
\* names, and a delete with the number that the second word begins with,
\* however many spaces lie between them.
RunsWhatWasTyped ==
  /\ ran # Nothing =>
       /\ WordStarts(text) # {} /\ ran.name = WordAt(text, FirstWord(text))
       /\ ran.name \in Deletes /\ SecondWord(text) # Size =>
            ran.argument = NumberOf(WordAt(text, SecondWord(text)))
  /\ alive /\ WordStarts(text) # {} /\ text[TextEnd(text) - 1] = Newline
       /\ WordAt(text, FirstWord(text)) \in Names => ran # Nothing

\* The guard of the cliDel* functions: a delete without an endpoint id deletes
\* no bridged device, whose ids are above 0.  (Until a line has had a second
\* token, the pointer they look at is uninitialised.)
DeletesOnlyNamed ==
  ran.argument > 0 /\ tokens[1].ptr # Wild => SecondWord(text) # Size
=============================================================================
