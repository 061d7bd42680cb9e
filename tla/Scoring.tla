------------------------------- MODULE Scoring -----------------------------
(* How findings become ranked causes: src/src/modules/core/scoring.rs,     *)
(* with ScanWindow::recency_weight, RootCause::key and                     *)
(* ConfidenceLevel::derive of models.rs.                                   *)
(*                                                                         *)
(* Probabilities are exact fractions.  A finding of weight w and recency r *)
(* tenths leaves the doubt (1000 - w * r) / 1000; the doubts of a group    *)
(* multiply, and the score is what is missing to 1.                        *)
EXTENDS DiagnosticRules, SequencesExt

(* Linear from 1 at the end of the window to 0.4 at its start, outside the *)
(* window as at its nearer end, in tenths cut off.  An undated finding is  *)
(* not aged.                                                               *)
Recency(seen, since, until) ==
  IF seen = None \/ until <= since THEN 10
  ELSE 4 + (6 * Most(0, Least(seen - since, until - since))) \div (until - since)

Doubt(f, since, until) == 1000 - Least(f.weight, 99) * Recency(f.seen, since, until)

(* The findings of one cause, by their places in the sequence.             *)
Group(fs, cause) == {i \in DOMAIN fs : fs[i].cause = cause}

Causes(fs) == {fs[i].cause : i \in DOMAIN fs}

Product(f) == FoldFunction(LAMBDA x, y : x * y, 1, f)

(* Mutant: the mean of the findings instead of noisy-OR.                   *)
Left_Mean(fs, group, since, until) ==
  (100 * MapThenSumSet(LAMBDA i : Doubt(fs[i], since, until), group)) \div Cardinality(group)

(* The doubt left by a group, in 100000ths.                                *)
Scale == 100000
Left(fs, group, since, until) ==
  LET doubts == Product([i \in group |-> Doubt(fs[i], since, until)])
      whole == Product([i \in group |-> 1000])
  IN IF Cardinality(group) = 1 THEN doubts * (Scale \div whole)
     ELSE doubts \div (whole \div Scale)

Score(fs, cause, since, until) ==
  Least(Scale - Left(fs, Group(fs, cause), since, until), 99500)

Contributing(fs, cause) == {fs[i].rule : i \in Group(fs, cause)}

Low == 0
Moderate == 1
High == 2
Certain == 3

Derive(score, rules) ==
  IF score >= 90000 /\ rules >= 2 THEN Certain
  ELSE IF score >= 75000 THEN High
  ELSE IF score >= 50000 THEN Moderate
  ELSE Low

(* The strongest finding leads, the first of them when several are.        *)
Lead(fs, cause) ==
  CHOOSE i \in Group(fs, cause) :
    \A j \in Group(fs, cause) :
      fs[j].weight < fs[i].weight \/ (fs[j].weight = fs[i].weight /\ i <= j)

MergeGroup(fs, cause, since, until) ==
  LET score == Score(fs, cause, since, until)
      rules == Contributing(fs, cause)
      lead == fs[Lead(fs, cause)]
  IN [id |-> cause, score |-> score, rules |-> rules,
      confidence |-> Derive(score, Cardinality(rules)),
      title |-> <<lead.rule, lead.about>>]

Combine(fs, since, until) == {MergeGroup(fs, cause, since, until) : cause \in Causes(fs)}

(* A set as a sequence sorted by Less; equals come in any one order.       *)
InOrder(set, Less(_, _)) ==
  LET insert(e, seq) ==
        LET smaller == {i \in DOMAIN seq : ~Less(e, seq[i])}
            n == Max(smaller \cup {0})
        IN SubSeq(seq, 1, n) \o <<e>> \o SubSeq(seq, n + 1, Len(seq))
  IN FoldSet(insert, <<>>, set)

(* By confidence, then by score, then by title (any order here).           *)
Before(c, d) == c.confidence > d.confidence \/ (c.confidence = d.confidence /\ c.score > d.score)

Ranked(set) == InOrder(set, Before)
=============================================================================
