------------------------------ MODULE ScreenText ------------------------------
(* The text of a terminal as the providers read it: a sequence of lines, each the    *)
(* kind that the regular expressions tell apart and the turn it belongs to (0 for    *)
(* what the CLI draws around the turns). A regular expression is the set of the      *)
(* kinds it matches.                                                                 *)
EXTENDS Naturals, Sequences, FiniteSets, SequencesExt

At(o, K) == {i \in DOMAIN o : o[i].k \in K}
Has(o, K) == At(o, K) # {}
LastOf(o, K) == Max(At(o, K) \cup {0})
FirstOf(o, K) == Min(At(o, K) \cup {Len(o) + 1})

Bottom(o, n) == SubSeq(o, Max({1, Len(o) - n + 1}), Len(o))
Below(o, i) == SubSeq(o, i + 1, Len(o))
Above(o, i) == SubSeq(o, 1, i - 1)
Until(o, K) == Above(o, FirstOf(o, K))
Between(o, i, j) == SubSeq(o, i + 1, j - 1)
Without(o, K) == SelectSeq(o, LAMBDA l : l.k \notin K)
\* strip(): blank lines at either end go.
Strip(o) == LET S == {i \in DOMAIN o : o[i].k # "blank"}
            IN IF S = {} THEN <<>> ELSE SubSeq(o, Min(S), Max(S))

\* A spinner above the last rule, with no other rule below it.
SpinnerAboveRule(o, r) ==
    \E i \in 1..(r - 1) : o[i].k = "spin" /\ ~Has(Between(o, i, r), {"rule"})

Ready == {"idle", "completed"}
=============================================================================
