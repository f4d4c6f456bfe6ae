------------------------------- MODULE Panels -------------------------------
(***************************************************************************)
(* The answers of a question on the badge's panel (badge-screen/src/lib.rs):*)
(* Canvas::question wraps the text of each one into a few short lines.      *)
(*                                                                         *)
(* A text is a sequence of words [name, size].  A piece is the part         *)
(* from..upto of a word; a line is [pieces, size], where size counts the    *)
(* spaces between the pieces too.                                          *)
(***************************************************************************)
EXTENDS Integers, Sequences, SequencesExt

CONSTANTS
    AnswerPanels,       \* the panels, numbered in the order they are drawn
    Texts,              \* the texts to try
    MAX_ANSWER_CHARS,   \* of questions.rs
    ANSWER_LABEL_CHARS, \* characters of a line
    ANSWER_LABEL_LINES  \* lines of a panel

ASSUME PanelsAssumption ==
    /\ AnswerPanels \in Nat \ {0} /\ MAX_ANSWER_CHARS \in Nat
    /\ ANSWER_LABEL_CHARS \in Nat \ {0} /\ ANSWER_LABEL_LINES \in Nat \ {0}
    /\ \A text \in Texts : /\ text \in Seq(ToSet(text))
                           /\ \A i \in DOMAIN text : text[i].size \in Nat \ {0}

VARIABLES
    answers,    \* the texts of the question
    panel,      \* the panel that is being drawn
    remaining,  \* pieces of its text that are still to be placed
    current,    \* the line that is being filled
    lines,      \* the lines of this panel
    shown       \* the lines of the panels before it

panelVars == <<answers, panel, remaining, current, lines, shown>>

EmptyLine == [pieces |-> <<>>, size |-> 0]

Whole(word) == [name |-> word.name, from |-> 1, upto |-> word.size]
Pieces(text) == [i \in DOMAIN text |-> Whole(text[i])]

\* chars().count() of a text with single spaces.
Chars(text) ==
    SumFunction([i \in DOMAIN text |-> text[i].size])
        + (IF text = <<>> THEN 0 ELSE Len(text) - 1)

\* fits, as far as the answers go.
Fit(question) ==
    /\ \A i \in DOMAIN question : Chars(question[i]) \in 1..MAX_ANSWER_CHARS
    /\ IsInjective(question)

PanelsFrom(questions) ==
    /\ answers \in questions
    /\ panel = 1
    /\ remaining = Pieces(answers[1]) /\ current = EmptyLine /\ lines = <<>>
    /\ shown = <<>>

PanelsInit == PanelsFrom({q \in [1..AnswerPanels -> Texts] : Fit(q)})
NoPanels   == PanelsFrom({[p \in 1..AnswerPanels |-> <<>>]})

-----------------------------------------------------------------------------
Size(piece) == piece.upto - piece.from + 1

Drawing == panel <= AnswerPanels

\* The text is placed, or the panel is full.
Wrapped ==
    \/ Len(lines) = ANSWER_LABEL_LINES
    \/ remaining = <<>> /\ current = EmptyLine

\* The characters of the line with the next piece on it.
Needed ==
    IF current = EmptyLine THEN Size(Head(remaining))
                           ELSE current.size + 1 + Size(Head(remaining))

EndLine ==
    /\ Drawing /\ ~Wrapped /\ remaining # <<>>
    /\ Needed > ANSWER_LABEL_CHARS /\ current # EmptyLine
    /\ lines' = Append(lines, current) /\ current' = EmptyLine
    /\ UNCHANGED <<answers, panel, remaining, shown>>

\* Faulty variant: the tail of a long word is dropped.
BreakWordDropsTail ==
    /\ Drawing /\ ~Wrapped /\ remaining # <<>>
    /\ current = EmptyLine /\ Size(Head(remaining)) > ANSWER_LABEL_CHARS
    /\ LET word == Head(remaining)
           head == [word EXCEPT !.upto = word.from + ANSWER_LABEL_CHARS - 1]
       IN  lines' = Append(lines, [pieces |-> <<head>>, size |-> ANSWER_LABEL_CHARS])
    /\ remaining' = Tail(remaining)
    /\ UNCHANGED <<answers, panel, current, shown>>

\* A word that no line can hold is broken.
BreakWord ==
    /\ Drawing /\ ~Wrapped /\ remaining # <<>>
    /\ current = EmptyLine /\ Size(Head(remaining)) > ANSWER_LABEL_CHARS
    /\ LET word == Head(remaining)
           head == [word EXCEPT !.upto = word.from + ANSWER_LABEL_CHARS - 1]
       IN  /\ lines' = Append(lines, [pieces |-> <<head>>, size |-> ANSWER_LABEL_CHARS])
           /\ remaining' = <<[word EXCEPT !.from = head.upto + 1]>> \o Tail(remaining)
    /\ UNCHANGED <<answers, panel, current, shown>>

PlaceWord ==
    /\ Drawing /\ ~Wrapped /\ remaining # <<>>
    /\ Needed <= ANSWER_LABEL_CHARS
    /\ current' = [pieces |-> Append(current.pieces, Head(remaining)), size |-> Needed]
    /\ remaining' = Tail(remaining)
    /\ UNCHANGED <<answers, panel, lines, shown>>

LastLine ==
    /\ Drawing /\ ~Wrapped /\ remaining = <<>>
    /\ lines' = Append(lines, current) /\ current' = EmptyLine
    /\ UNCHANGED <<answers, panel, remaining, shown>>

NextPanel ==
    /\ Drawing /\ Wrapped
    /\ shown' = Append(shown, lines)
    /\ panel' = panel + 1
    /\ remaining' = IF panel < AnswerPanels THEN Pieces(answers[panel + 1]) ELSE <<>>
    /\ current' = EmptyLine /\ lines' = <<>>
    /\ UNCHANGED answers

PanelsNext == EndLine \/ BreakWord \/ PlaceWord \/ LastLine \/ NextPanel

-----------------------------------------------------------------------------
\* A line has a space between any two pieces.
Width(line) ==
    SumFunction([i \in DOMAIN line.pieces |-> Size(line.pieces[i])])
        + (IF line.pieces = <<>> THEN 0 ELSE Len(line.pieces) - 1)

Drawn(rows) == FlattenSeq([n \in DOMAIN rows |-> rows[n].pieces])

AllPieces == Drawn(lines) \o current.pieces \o remaining

NoLineTooWide ==
    /\ \A n \in DOMAIN lines : Width(lines[n]) <= ANSWER_LABEL_CHARS
    /\ Width(current) <= ANSWER_LABEL_CHARS
    /\ \A p \in DOMAIN shown : Len(shown[p]) <= ANSWER_LABEL_LINES

\* Piece i of pieces belongs to word of[i] of the text: the pieces of a word are
\* its parts, one after the other, and only a word that no line can hold has more
\* than one.
Makes(pieces, of, text) ==
    /\ \A i \in DOMAIN pieces :
          /\ pieces[i].name = text[of[i]].name
          /\ IF pieces[i].from = 1
             THEN of[i] = IF i = 1 THEN 1 ELSE of[i - 1] + 1
             ELSE /\ i > 1 /\ of[i] = of[i - 1]
                  /\ pieces[i].from = pieces[i - 1].upto + 1
                  /\ text[of[i]].size > ANSWER_LABEL_CHARS
          /\ i = Len(pieces) \/ pieces[i + 1].from = 1 =>
                pieces[i].upto = text[of[i]].size
    /\ {of[i] : i \in DOMAIN pieces} = DOMAIN text

\* The pieces make the text, every part of it once and in its order.
Made(pieces, text) == \E of \in [DOMAIN pieces -> DOMAIN text] : Makes(pieces, of, text)

\* "Break it across lines instead of silently dropping the tail" (wrap): no line
\* is wider than its panel; what is placed and what remains make the text, and only
\* a word that no line can hold is broken; and a panel is left only when it has no
\* line to spare or shows all of its text.
NothingSkipped ==
    /\ NoLineTooWide
    /\ Drawing => Made(AllPieces, answers[panel])
    /\ \A p \in DOMAIN shown :
          Len(shown[p]) = ANSWER_LABEL_LINES \/ Made(Drawn(shown[p]), answers[p])
=============================================================================
