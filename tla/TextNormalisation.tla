------------------------- MODULE TextNormalisation -------------------------
(***************************************************************************)
(* What the matchers of legal records share                                *)
(* (apps/legal_work/text_normalisation.py): a text is the set of its       *)
(* content words, Grams gives the character n-grams of a word, so that two *)
(* inflections of one noun share some, and a similarity is a number of     *)
(* ten-thousandths.                                                        *)
(***************************************************************************)
EXTENDS Integers, FiniteSets

CONSTANTS
    Grams,      \* the n-grams of each word
    Generic     \* the words of ordinary legal vocabulary

ASSUME TextAssumption == \A w \in DOMAIN Grams : IsFiniteSet(Grams[w])

FiniteWords(S) == S \subseteq DOMAIN Grams /\ IsFiniteSet(S)

Ngrams(words) == UNION {Grams[w] : w \in words}

Significant(words) == words \ Generic

Whole == 10000

Ratio(n, d) == IF d = 0 THEN 0 ELSE (Whole * n) \div d

HalfUp(n, d) == (2 * n + d) \div (2 * d)

Larger(a, b) == IF a >= b THEN a ELSE b

Dice(left, right) == Ratio(2 * Cardinality(left \cap right),
                           Cardinality(left) + Cardinality(right))

\* Days are numbers.
NoDate == 0

Distance(a, b) == IF a >= b THEN a - b ELSE b - a
=============================================================================
