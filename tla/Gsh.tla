-------------------------------- MODULE Gsh ---------------------------------
(***************************************************************************)
(* The shell (user/apps/gsh): reading a line into a buffer that grows,     *)
(* trimming it, splitting it into tokens, and finding the command.         *)
(***************************************************************************)
EXTENDS Integers, FiniteSets, SequencesExt

CONSTANTS
  GSH_BUF_GROWTH, GSH_BUF_MAX,
  Keys,        \* characters that are typed
  MaxKeys,     \* bound: keys of a line
  Builtins,    \* set of words
  PathDirs     \* directories of PATH, in order

Blank == " "
DQuote == "dq"
SQuote == "sq"
Backslash == "bs"
NUL == "nul"
Junk == "junk"    \* what malloc() left in a block

VARIABLES
  typed,      \* number of keys of the line
  buf,        \* buffer of read_line(), of Len(buf) bytes
  pos,        \* characters in it
  line,       \* what the user sees in the line
  tokens,     \* [tokens, room]: the array, and for how many there is room
  has,        \* directories of PATH that have the command
  ran,        \* the command of the line: [dir, argv]
  pc

vars == <<typed, buf, pos, line, tokens, has, ran, pc>>

NoTokens == [tokens |-> <<>>, room |-> 0]
Malloc(n) == [i \in 1 .. n |-> Junk]

(* A C string *)
String(b) == SubSeq(b, 1, SelectInSeq(b, LAMBDA c: c = NUL) - 1)

----------------------------------------------------------------------------
(* read_line(), before it reads *)
Grow ==
  /\ pc = "read" /\ pos = Len(buf)
  /\ \/ /\ Len(buf) = GSH_BUF_MAX
        /\ pc' = "prompt" /\ UNCHANGED buf
     \/ /\ Len(buf) < GSH_BUF_MAX
        /\ buf' = buf \o Malloc(GSH_BUF_GROWTH)
        /\ UNCHANGED pc
     \/ /\ Len(buf) < GSH_BUF_MAX   \* realloc() fails
        /\ pc' = "prompt" /\ UNCHANGED buf
  /\ UNCHANGED <<typed, pos, line, tokens, has, ran>>

(* Mutant: there is room as long as the buffer is not at its limit. *)
RoomAtLimit == pos < GSH_BUF_MAX

Room == pos < Len(buf)

Reading == pc = "read" /\ Room

Type(c) ==
  /\ Reading /\ typed < MaxKeys
  /\ typed' = typed + 1
  /\ buf' = [i \in 1 .. Len(buf) |-> IF i = pos + 1 THEN c ELSE buf[i]]
  /\ pos' = pos + 1
  /\ line' = Append(line, c)
  /\ UNCHANGED <<tokens, has, ran, pc>>

Delete ==
  /\ Reading /\ typed < MaxKeys
  /\ typed' = typed + 1
  /\ pos' = IF pos = 0 THEN 0 ELSE pos - 1
  /\ line' = IF line = <<>> THEN <<>> ELSE Front(line)
  /\ UNCHANGED <<buf, tokens, has, ran, pc>>

Return ==
  /\ Reading
  /\ buf' = [i \in 1 .. Len(buf) |-> IF i = pos + 1 THEN NUL ELSE buf[i]]
  /\ pc' = "trim"
  /\ UNCHANGED <<typed, pos, line, tokens, has, ran>>

----------------------------------------------------------------------------
(* Mutant: of the blanks at the end, the first stays. *)
CutKeep(s) ==
  LET n == SelectLastInSeq(s, LAMBDA c: c # Blank) IN
  IF n \in 1 .. Len(s) - 1 THEN n + 1 ELSE n

(* The length without the blanks at the end: lastwhite *)
Cut(s) == SelectLastInSeq(s, LAMBDA c: c # Blank)

(* trim(), which writes a zero only where it found blanks at the end *)
Trim ==
  LET s == String(buf)
      first == IF Cut(s) = 0 THEN Len(s) ELSE SelectInSeq(s, LAMBDA c: c # Blank) - 1
      infix == SubSeq(s, first + 1, Len(s))
      moved == [i \in DOMAIN buf |-> IF i \in DOMAIN infix THEN infix[i] ELSE buf[i]]
  IN  /\ pc = "trim"
      /\ buf' = IF infix # <<>> /\ Cut(infix) < Len(infix)
                THEN [moved EXCEPT ![Cut(infix) + 1] = NUL] ELSE moved
      /\ pc' = "split"
      /\ UNCHANGED <<typed, pos, line, tokens, has, ran>>

(* The loop of tokens_from_string() after the first characters of s *)
Quotes(st, c, l) ==
  [st EXCEPT !.dquote = IF c = DQuote /\ l # Backslash /\ ~ st.squote THEN ~ @ ELSE @,
             !.squote = IF c = SQuote /\ l # Backslash /\ ~ st.dquote THEN ~ @ ELSE @]

(* Mutant: the last token is not one of those there is room for. *)
TokenRoomDelims(s, delim) == Cardinality({i \in DOMAIN s: s[i] = delim})

TokenRoom(s, delim) == Cardinality({i \in DOMAIN s: s[i] = delim}) + 1

(* Mutant: each delimiter ends a token. *)
SkipNone(s, delim, i) == FALSE

(* After a token, further delimiters are skipped. *)
Skip(s, delim, i) == i > 1 /\ s[i] = delim /\ s[i - 1] = delim

Scan(s, delim) ==
  LET loop[i \in 0 .. Len(s)] ==
        IF i = 0 THEN [token |-> <<>>, done |-> <<>>, dquote |-> FALSE, squote |-> FALSE]
        ELSE LET before == loop[i - 1]
                 st == Quotes(before, s[i], IF i = 1 THEN NUL ELSE s[i - 1])
                 outside == ~ st.dquote /\ ~ st.squote
             IN  IF outside /\ s[i] = delim
                 THEN IF Skip(s, delim, i) THEN st
                      ELSE [st EXCEPT !.done = Append(@, st.token), !.token = <<>>]
                 ELSE [st EXCEPT !.token = Append(@, s[i])]
  IN  loop[Len(s)]

(* tokens_from_string(), which looks at the double quotes in the end *)
Split ==
  LET s == String(buf)
      end == Scan(s, Blank)
  IN  /\ pc = "split"
      /\ IF end.dquote
         THEN pc' = "prompt" /\ UNCHANGED tokens
         ELSE /\ tokens' = [tokens |-> Append(end.done, end.token), room |-> TokenRoom(s, Blank)]
              /\ pc' = IF s = <<>> THEN "prompt" ELSE "command"
      /\ UNCHANGED <<typed, buf, pos, line, has, ran>>

(* parse_command() and executable_get_pathname(), up to the fork() *)
Command ==
  LET first == SelectInSeq(PathDirs, LAMBDA d: d \in has)
      cmd == tokens.tokens[1]
  IN  /\ pc = "command"
      /\ ran' = IF cmd \in Builtins THEN [dir |-> "builtin", argv |-> tokens.tokens]
                ELSE IF first = 0 THEN [dir |-> "none", argv |-> <<>>]
                ELSE [dir |-> PathDirs[first], argv |-> tokens.tokens]
      /\ pc' = "prompt"
      /\ UNCHANGED <<typed, buf, pos, line, tokens, has>>

(* The next round of gsh() *)
Prompt ==
  /\ pc = "prompt"
  /\ typed' = 0 /\ line' = <<>> /\ pos' = 0
  /\ buf' = Malloc(GSH_BUF_GROWTH)
  /\ tokens' = NoTokens
  /\ ran' = [dir |-> "none", argv |-> <<>>]
  /\ pc' = "read"
  /\ UNCHANGED has

Init ==
  /\ typed = 0 /\ line = <<>> /\ pos = 0
  /\ buf = Malloc(GSH_BUF_GROWTH)
  /\ tokens = NoTokens
  /\ has \in SUBSET ToSet(PathDirs)
  /\ ran = [dir |-> "none", argv |-> <<>>]
  /\ pc = "read"

Next ==
  \/ Grow \/ Delete \/ Return \/ Trim \/ Split \/ Command \/ Prompt
  \/ \E c \in Keys: Type(c)

Spec == Init /\ [][Next]_vars

----------------------------------------------------------------------------
(* Whatever is typed and deleted, the buffer has the line that is seen, and  *)
(* its end is within the block, also when it has just grown.                 *)
LineInBuffer ==
  /\ pos <= Len(buf)
  /\ pc = "read" => SubSeq(buf, 1, pos) = line
  /\ pc = "trim" => String(buf) = line

WithoutBlanks(s) == SelectSeq(s, LAMBDA c: c # Blank)

(* A line that begins with a word loses the blanks at its end, and no other  *)
(* character.                                                                *)
TrimmedRight ==
  pc = "split" /\ line # <<>> /\ Head(line) # Blank =>
    /\ IsPrefix(String(buf), line)
    /\ Last(String(buf)) # Blank
    /\ WithoutBlanks(String(buf)) = WithoutBlanks(line)

(* The array for the tokens is allocated before they are counted, and has    *)
(* room for all of them.                                                     *)
TokensFit == Len(tokens.tokens) <= tokens.room

WordStarts(s) ==
  SetToSortSeq({i \in DOMAIN s: s[i] # Blank /\ (i = 1 \/ s[i - 1] = Blank)}, <)
Word(s, i) ==
  LET end == CHOOSE j \in i .. Len(s):
               /\ Blank \notin ToSet(SubSeq(s, i, j))
               /\ j = Len(s) \/ s[j + 1] = Blank
  IN  SubSeq(s, i, end)

(* The command gets all of the line; without quotes, it gets the words.      *)
TokensExact ==
  pc = "command" =>
    LET s == String(buf)
        starts == WordStarts(s)
    IN  /\ WithoutBlanks(FlattenSeq(tokens.tokens)) = WithoutBlanks(s)
        /\ {DQuote, SQuote} \intersect ToSet(s) = {} /\ Head(s) # Blank =>
             tokens.tokens = [i \in DOMAIN starts |-> Word(s, starts[i])]
=============================================================================
