-------------------------------- MODULE Infix --------------------------------
(***************************************************************************)
(* The expressions that struct_and_algo/reverse_polish_notation.cpp reads, *)
(* and what they are worth: numbers of one digit, four operators of two    *)
(* priorities, parentheses.                                                *)
(***************************************************************************)
EXTENDS Integers, Sequences, FiniteSets

CONSTANT DigitValue     \* c - '0' of every digit

Operators == {"+", "-", "*", "/"}

prior(c) == IF c \in {"*", "/"} THEN 2 ELSE 1

Characters == Operators \cup {"(", ")"} \cup DOMAIN DigitValue

Abs(n) == IF n < 0 THEN -n ELSE n

\* Division of int rounds towards zero.
Quotient(a, b) == (IF (a < 0) = (b < 0) THEN 1 ELSE -1) * (Abs(a) \div Abs(b))

Apply(c, a, b) == CASE c = "+" -> a + b [] c = "-" -> a - b [] c = "*" -> a * b
                    [] c = "/" -> Quotient(a, b)

-----------------------------------------------------------------------------
(* The grammar *)

\* The operators of e outside parentheses, and those of them that divide e: the
\* + and - if there are any.
Depth(e, k) == Cardinality({j \in 1..(k - 1) : e[j] = "("})
               - Cardinality({j \in 1..(k - 1) : e[j] = ")"})
Outside(e) == {k \in 1..Len(e) : e[k] \in Operators /\ Depth(e, k) = 0}
Divisions(e) ==
    LET sums == {k \in Outside(e) : prior(e[k]) = 1}
    IN  IF sums = {} THEN Outside(e) ELSE sums

Division(e) == CHOOSE k \in Divisions(e) : \A j \in Divisions(e) : j <= k

\* What c makes of two values: none if it divides by zero.
Combined(c, A, B) == UNION {{Apply(c, a, b) : a \in A} : b \in {b \in B : ~ (c = "/" /\ b = 0)}}

\* The value of e: none if e is no expression or a part of it divides by zero.
\* Operators of equal priority associate to the left, so e is divided at the last.
ValuesOf[e \in Seq(Characters)] ==
    IF Divisions(e) # {}
      THEN LET k == Division(e)
           IN  Combined(e[k], ValuesOf[SubSeq(e, 1, k - 1)], ValuesOf[SubSeq(e, k + 1, Len(e))])
    ELSE IF Len(e) = 1 THEN {DigitValue[c] : c \in DOMAIN DigitValue \cap {e[1]}}
    ELSE IF Len(e) > 1 /\ e[1] = "(" /\ e[Len(e)] = ")"
      THEN ValuesOf[SubSeq(e, 2, Len(e) - 1)]
    ELSE {}
=============================================================================
