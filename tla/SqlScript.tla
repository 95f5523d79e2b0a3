----------------------------- MODULE SqlScript -----------------------------
(***************************************************************************)
(* How migrate.py cuts a migration file into statements (split_statements) *)
(* against what the file means.  A text is a sequence of classes of        *)
(* characters: "x" stands for a letter, "sp" for a blank, "nl" for the end *)
(* of a line; the others stand for themselves.                             *)
(***************************************************************************)
EXTENDS Integers, SequencesExt

CONSTANT MaxLexemes   \* bound: lexemes of a text

ASSUME SqlScriptAssumption == MaxLexemes \in Nat

----------------------------------------------------------------------------
(* The code: one pass with three flags, here one state of the reader.      *)

Blank == {"sp", "nl"}

\* str.strip()
Strip(text) ==
    LET solid == {i \in 1..Len(text) : text[i] \notin Blank}
    IN  IF solid = {} THEN <<>> ELSE SubSeq(text, Min(solid), Max(solid))

\* statements.append(stmt), unless it is empty; buf = []
Flush(r) ==
    [r EXCEPT !.done = IF Strip(r.buf) = <<>> THEN @ ELSE Append(@, Strip(r.buf)),
              !.buf = <<>>]

Keep(r, ch) == [r EXCEPT !.buf = Append(@, ch)]

\* Variant: a quote is not closed by its own kind only.
ReadCharQuotes(r, ch, nxt) ==
    CASE r.skip -> [r EXCEPT !.skip = FALSE]
      [] ~r.skip /\ r.in = "comment" ->
            IF ch = "nl" THEN Keep([r EXCEPT !.in = "code"], ch) ELSE r
      [] ~r.skip /\ r.in = "code" /\ (ch = "#" \/ (ch = "-" /\ nxt = "-")) ->
            [r EXCEPT !.in = "comment", !.skip = ch = "-"]
      [] ~r.skip /\ r.in = "code" /\ ch = ";" -> Flush(r)
      [] ~r.skip /\ ch \in {"'", "\""} /\ r.in # "comment" ->
            Keep([r EXCEPT !.in = IF @ = "code" THEN ch ELSE "code"], ch)
      [] OTHER -> Keep(r, ch)

\* One character, seen with the next one ("" at the end).
ReadChar(r, ch, nxt) ==
    CASE r.skip -> [r EXCEPT !.skip = FALSE]
      [] ~r.skip /\ r.in = "comment" ->
            IF ch = "nl" THEN Keep([r EXCEPT !.in = "code"], ch) ELSE r
      [] ~r.skip /\ r.in = "code" /\ (ch = "#" \/ (ch = "-" /\ nxt = "-")) ->
            [r EXCEPT !.in = "comment", !.skip = ch = "-"]
      [] ~r.skip /\ r.in = "code" /\ ch = ";" -> Flush(r)
      [] ~r.skip /\ r.in \in {"code", ch} /\ ch \in {"'", "\""} ->
            Keep([r EXCEPT !.in = IF @ = "code" THEN ch ELSE "code"], ch)
      [] ~r.skip /\ r.in \in {"'", "\""} /\ ch = "\\" ->
            [r EXCEPT !.buf = @ \o (IF nxt = "" THEN <<ch>> ELSE <<ch, nxt>>), !.skip = TRUE]
      [] OTHER -> Keep(r, ch)

Start == [in |-> "code", skip |-> FALSE, buf |-> <<>>, done |-> <<>>]

SplitStatements(text) ==
    LET reader[i \in 0..Len(text)] ==
            IF i = 0 THEN Start
            ELSE ReadChar(reader[i - 1], text[i], IF i = Len(text) THEN "" ELSE text[i + 1])
    IN  Flush(reader[Len(text)]).done

----------------------------------------------------------------------------
(* The meaning: a script is made of lexemes, and statements are what lies  *)
(* between semicolons that are lexemes of their own.                       *)

Char == {"x", "sp", "nl", "-", "#", ";", "'", "\"", "\\"}

Semicolon == <<";">>

\* One character of code.
IsCode(l) == Len(l) = 1 /\ l[1] \notin {"#", ";", "'", "\""}

\* From the sign of a comment to the end of its line.
IsComment(l) ==
    /\ Len(l) > 1
    /\ l[1] = "#" \/ (l[1] = "-" /\ l[2] = "-")
    /\ l[Len(l)] = "nl" /\ \A i \in 1..(Len(l) - 1) : l[i] # "nl"

\* From a quote to the next of its kind that no backslash escapes.
IsLiteral(l) ==
    /\ Len(l) > 1 /\ l[1] \in {"'", "\""} /\ l[Len(l)] = l[1]
    /\ \E escaped \in SUBSET (3..(Len(l) - 1)) :
         /\ \A i \in 3..Len(l) : i \in escaped <=> l[i - 1] = "\\" /\ i - 1 \notin escaped
         /\ \A i \in 2..(Len(l) - 1) : l[i] = l[1] => i \in escaped

IsLexeme(l) == l = Semicolon \/ IsCode(l) \/ IsComment(l) \/ IsLiteral(l)

\* Two signs of minus side by side would be those of a comment.
WellFormed(script) ==
    /\ \A k \in 1..Len(script) : IsLexeme(script[k])
    /\ \A k \in 1..(Len(script) - 1) : script[k] = <<"-">> => script[k + 1][1] # "-"

\* Only the end of a comment's line is part of the statement.
Text(lexemes) ==
    FlattenSeq([i \in 1..Len(lexemes) |->
                    IF IsComment(lexemes[i]) THEN <<"nl">> ELSE lexemes[i]])

\* The statements are what lies between two cuts, without what is blank, in
\* their order.
Means(script, statements) ==
    LET cuts == {0, Len(script) + 1} \union {i \in 1..Len(script) : script[i] = Semicolon}
        before(j) == Strip(Text(SubSeq(script, Max({i \in cuts : i < j}) + 1, j - 1)))
        ends == {j \in cuts \ {0} : before(j) # <<>>}
    IN  /\ Len(statements) = Cardinality(ends)
        /\ \A j \in ends : statements[Cardinality({i \in ends : i <= j})] = before(j)

----------------------------------------------------------------------------
(* Inputs: scripts of lexemes of each kind, with the signs of the others.  *)

Comments == {<<"-", "-", "sp", "'", ";", "nl">>, <<"#", "\"", "-", "nl">>}
Literals == {<<"'", ";", "\"", "'">>, <<"\"", "'", "-", "-", "\"">>,
             <<"'", "\\", "'", ";", "'">>, <<"'", "#", "'">>}
Lexemes == {Semicolon, <<"x">>, <<"sp">>, <<"-">>} \union Comments \union Literals

Scripts == {s \in UNION {[1..n -> Lexemes] : n \in 0..MaxLexemes} : WellFormed(s)}
=============================================================================
