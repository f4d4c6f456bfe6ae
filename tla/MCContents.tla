----------------------------- MODULE MCContents -----------------------------
(***************************************************************************)
(* A small instance of Contents: the databases, authored buckets and texts   *)
(* to try.                                                                 *)
(***************************************************************************)
EXTENDS Contents

\* Entries that can be played, do not fit, or are of another kind.
Entry(usable, fits, prompt) == [usable |-> usable, fits |-> fits, prompt |-> prompt]

Entries ==
    UNION {{Entry(TRUE, TRUE, p), Entry(TRUE, FALSE, p), Entry(FALSE, TRUE, p)} :
              p \in {"p1", "p2", "p3"}}

ThreeEntries == UNION {[1..n -> Entries] : n \in 0..3}

\* Authored questions, valid ones but for those that are named.
Authored(prompts, invalid) ==
    [i \in DOMAIN prompts |-> [prompt |-> prompts[i], valid |-> prompts[i] \notin invalid]]

\* Nothing authored; all the categories; one whose prompt the database may repeat;
\* one that does not fit.
MCAuthored ==
    {<<<<>>, <<>>, <<>>>>,
     <<Authored(<<"r1", "r2", "r3">>, {}), Authored(<<"t1">>, {}), Authored(<<"m1", "m2">>, {})>>,
     <<Authored(<<"r1", "p1">>, {}), Authored(<<"t1">>, {}), <<>>>>,
     <<Authored(<<"r1", "r2">>, {"r2"}), <<>>, Authored(<<"m1">>, {})>>}

MCPattern == <<2, 1, 1, 1>>

\* Texts of up to three words, one of which fills a line and one no line can hold.
Words ==
    {[name |-> "five", size |-> 5], [name |-> "six", size |-> 6],
     [name |-> "full", size |-> 11], [name |-> "long", size |-> 16]}

MCTexts == UNION {[1..n -> Words] : n \in 1..3}
=============================================================================
