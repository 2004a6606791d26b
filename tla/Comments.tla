------------------------------- MODULE Comments -------------------------------
(***************************************************************************)
(* How circom takes the comments out of a source file before it parses it  *)
(* (preprocess): an automaton with three states replaces each character of *)
(* a comment by as many blanks as it has bytes, so that the places the     *)
(* parser reports are places of the file.                                  *)
(*                                                                         *)
(* A text is a sequence of characters: "slash", "star", "newline", "other",*)
(* "wide" (a character of two bytes) and "quote".                          *)
(***************************************************************************)
EXTENDS Naturals, Sequences, SequencesExt

CONSTANTS Texts      \* the files

VARIABLES text,         \* the file
          read,         \* the characters taken from the iterator
          state,        \* 0: code, 1: a line comment, 2: a block comment
          pp,           \* the output
          loc, block_start,
          result        \* "running", "ok" or "UnclosedComment"

vars == <<text, read, state, pp, loc, block_start, result>>

Characters == {"slash", "star", "newline", "other", "wide", "quote"}

LenUtf8(c) == IF c = "wide" THEN 2 ELSE 1

\* (a fault: one blank for a character)
OneBlank(c) == <<"blank">>

Blanks(c) == [i \in 1..LenUtf8(c) |-> "blank"]

AtEnd(i) == i > Len(text)

Init ==
    /\ text \in Texts
    /\ read = 0 /\ state = 0 /\ pp = <<>> /\ loc = 0 /\ block_start = 0
    /\ result = "running"

\* (a fault: a turn of the loop counts for one character)
OneATurn(i) == loc + 1

\* loc counts the characters taken
Advanced(i) == loc + (i - read)

\* a slash in code: the next character is taken too
Slash ==
    /\ LET i == read + 2
       IN  /\ read' = i
           /\ loc' = Advanced(i)
           /\ IF AtEnd(i)
              THEN pp' = Append(pp, "slash") /\ UNCHANGED <<state, block_start>>
              ELSE IF text[i] = "slash"
              THEN pp' = pp \o <<"blank", "blank">> /\ state' = 1 /\ UNCHANGED block_start
              ELSE IF text[i] = "star"
              THEN pp' = pp \o <<"blank", "blank">> /\ state' = 2 /\ block_start' = loc'
              ELSE pp' = pp \o <<"slash", text[i]>> /\ UNCHANGED <<state, block_start>>

\* (a fault: the star after a star is taken for a character of the comment)
OneStar(i) == i

\* the first place from i on that is not a star
AfterStars(i) ==
    CHOOSE j \in i..(Len(text) + 1) :
        /\ \A k \in i..(j - 1) : text[k] = "star"
        /\ ~AtEnd(j) => text[j] # "star"

\* a star in a block comment: the stars after it and one more are taken
Star ==
    /\ LET i == AfterStars(read + 2)
           between == Blanks("other") \o [k \in 1..(i - read - 2) |-> "blank"]
       IN  /\ read' = i
           /\ loc' = Advanced(i)
           /\ IF AtEnd(i)
              THEN pp' = pp \o Tail(between) /\ UNCHANGED state
              ELSE /\ pp' = pp \o between \o Blanks(text[i])
                   /\ state' = IF text[i] = "slash" THEN 0 ELSE 2
    /\ UNCHANGED block_start

\* (a fault: the end of the line goes with its comment)
CodeOnly(c) == state = 0

\* what is not blanked: code, and the end of a line comment
Kept(c) == state = 0 \/ (state = 1 /\ c = "newline")

\* any other character
Other ==
    /\ LET c == text[read + 1]
       IN  /\ read' = read + 1
           /\ loc' = Advanced(read + 1)
           /\ pp' = IF Kept(c) THEN Append(pp, c)
                    ELSE pp \o Blanks(c)
           /\ state' = IF state = 1 /\ c = "newline" THEN 0 ELSE state
    /\ UNCHANGED block_start

TakesSlash == state = 0 /\ text[read + 1] = "slash"
TakesStar == state = 2 /\ text[read + 1] = "star"

Step ==
    /\ result = "running" /\ ~AtEnd(read + 1)
    /\ \/ TakesSlash /\ Slash
       \/ TakesStar /\ Star
       \/ ~TakesSlash /\ ~TakesStar /\ Other
    /\ UNCHANGED <<text, result>>

Finish ==
    /\ result = "running" /\ AtEnd(read + 1)
    /\ result' = IF state = 2 THEN "UnclosedComment" ELSE "ok"
    /\ UNCHANGED <<text, read, state, pp, loc, block_start>>

Next == Step \/ Finish

Spec == Init /\ [][Next]_vars

-----------------------------------------------------------------------------
(* What is a comment, said of the text alone.  Mode[i] is what character i *)
(* belongs to: "code", "line", "block", "string", or the opening ("open")  *)
(* or closing ("close") of a comment; inString says whether strings count. *)
Mode(inString) ==
    LET two(i, c, d) == i > 0 /\ i < Len(text) /\ text[i] = c /\ text[i + 1] = d
        mode[i \in 0..Len(text)] ==
          IF i = 0 THEN <<"code", 0>>
          ELSE LET before == mode[i - 1]        \* where the character before is
                   where == before[1]           \* and where that part began
                   code == IF two(i, "slash", "slash") THEN <<"line", i>>
                           ELSE IF two(i, "slash", "star") THEN <<"block", i>>
                           ELSE IF inString /\ text[i] = "quote" THEN <<"string", i>>
                           ELSE <<"code", i>>
               IN  CASE where = "line" /\ text[i] # "newline" -> before
                     [] where = "string" /\ text[i] \notin {"quote", "newline"} -> before
                     [] where = "string" /\ text[i] = "quote" -> <<"code", i>>
                     [] where = "block" ->
                          IF before[2] < i - 2 /\ two(i - 1, "star", "slash")
                          THEN <<"close", i>> ELSE before
                     [] OTHER -> code
    IN  mode

InComment(where) == where \in {"line", "block", "close"}

Without(mode) ==
    FlattenSeq([i \in 1..Len(text) |->
        IF InComment(mode[i][1]) THEN [k \in 1..LenUtf8(text[i]) |-> "blank"] ELSE <<text[i]>>])

Bytes(s) == FoldLeft(LAMBDA n, c : n + LenUtf8(c), 0, s)

\* Every variable has its type.
TypeOK ==
    /\ state \in 0..2 /\ result \in {"running", "ok", "UnclosedComment"}
    /\ read \in 0..(Len(text) + 1) /\ loc = read /\ block_start \in 0..loc
    /\ ToSet(pp) \subseteq Characters \cup {"blank"}

\* What the parser gets is the file with its comments blanked, byte for byte:
\* nothing of the code is lost and every place is where it was.
CommentsBlanked ==
    result = "ok" => LET mode == Mode(FALSE) IN pp = Without(mode)

\* While the file is read, the output is as long in bytes as what was read:
\* a place in the output is a place in the file.
SamePlaces ==
    ~AtEnd(read) => Bytes(pp) = Bytes(SubSeq(text, 1, read))

\* A file is refused exactly when its last comment has no end.
RefusedRight ==
    result # "running" =>
        (result = "UnclosedComment" <=>
            text # <<>> /\ LET mode == Mode(FALSE) IN mode[Len(text)][1] = "block")

\* The message of an open comment is about the place, in bytes, where the
\* comment opens: "Comment starts here".
StartReported ==
    result = "UnclosedComment" =>
        LET opening == Mode(FALSE)[Len(text)][2]
        IN  block_start \in Bytes(SubSeq(text, 1, opening - 1))..Bytes(SubSeq(text, 1, opening + 1))

\* A string keeps its characters: a log or an include is written with
\* "strings written in the standard way".
StringsKept ==
    result # "running" =>
        /\ result = "UnclosedComment" => Mode(TRUE)[Len(text)][1] = "block"
        /\ result = "ok" => pp = Without(Mode(TRUE))
=============================================================================
