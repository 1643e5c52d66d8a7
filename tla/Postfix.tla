------------------------------ MODULE Postfix ------------------------------
(***************************************************************************)
(* struct_and_algo/reverse_polish_notation.cpp: an expression in infix     *)
(* notation is turned into postfix notation with a stack of operators, and *)
(* that is calculated with a stack of numbers.  A step is the work for one *)
(* character.  Stacks have their top at the end.                           *)
(***************************************************************************)
EXTENDS Infix, SequencesExt

CONSTANT Exprs      \* the expressions: well formed, nothing divided by zero

VARIABLES pc,
          expr, i,      \* what is read, and how far
          output,       \* the postfix expression
          op_stack,     \* operators, and parentheses that are open
          s             \* numbers

vars == <<pc, expr, i, output, op_stack, s>>

Init ==
    /\ pc = "getPostfix"
    /\ expr \in Exprs
    /\ i = 1
    /\ output = << >> /\ op_stack = << >> /\ s = << >>

\* The loop of getPostfix or expCalculate comes to character c of text.
At(loop, text, c) == pc = loop /\ i <= Len(text) /\ c = text[i] /\ i' = i + 1

-----------------------------------------------------------------------------
(* getPostfix *)

\* All operators above the first n entries go to the output, the top first.
PopTo(n) == output' = output \o Reverse(SubSeq(op_stack, n + 1, Len(op_stack)))

\* Mutant: an operator of the same priority stays.
StaysIfEqual(c, d) == d \notin Operators \/ prior(d) <= prior(c)

\* c does not drive d from the top of the stack.
Stays(c, d) == d \notin Operators \/ prior(d) < prior(c)

\* What is left of the stack when it is popped until one of kept is on top.
Left(kept) ==
    CHOOSE n \in 0..Len(op_stack) :
        /\ \A k \in (n + 1)..Len(op_stack) : op_stack[k] \notin kept
        /\ n = 0 \/ op_stack[n] \in kept

Operator(c) ==
    LET n == Left({d \in Operators \cup {"("} : Stays(c, d)}) IN
    /\ At("getPostfix", expr, c) /\ c \in Operators
    /\ PopTo(n)
    /\ op_stack' = Append(SubSeq(op_stack, 1, n), c)
    /\ UNCHANGED <<pc, expr, s>>

OpenParenthesis(c) ==
    /\ At("getPostfix", expr, c) /\ c = "("
    /\ op_stack' = Append(op_stack, c)
    /\ UNCHANGED <<pc, expr, output, s>>

\* Without an open parenthesis the code would read below the stack.
CloseParenthesis(c) ==
    LET n == Left({"("}) IN
    /\ At("getPostfix", expr, c) /\ c = ")"
    /\ n > 0
    /\ PopTo(n)
    /\ op_stack' = SubSeq(op_stack, 1, n - 1)
    /\ UNCHANGED <<pc, expr, s>>

Operand(c) ==
    /\ At("getPostfix", expr, c) /\ c \in DOMAIN DigitValue
    /\ output' = Append(output, c)
    /\ UNCHANGED <<pc, expr, op_stack, s>>

\* The rest of the stack; main calls expCalculate with the result.
EndOfExpr ==
    /\ pc = "getPostfix" /\ i > Len(expr)
    /\ PopTo(0)
    /\ op_stack' = << >>
    /\ pc' = "expCalculate" /\ i' = 1
    /\ UNCHANGED <<expr, s>>

-----------------------------------------------------------------------------
(* expCalculate *)

\* Two numbers are popped; the one on top is the second operand.
Calculate(c) ==
    LET n == Len(s) IN
    /\ At("expCalculate", output, c) /\ c \in Operators
    /\ n >= 2 /\ ~ (c = "/" /\ s[n] = 0)
    /\ s' = Append(SubSeq(s, 1, n - 2), Apply(c, s[n - 1], s[n]))
    /\ UNCHANGED <<pc, expr, output, op_stack>>

PushNumber(c) ==
    /\ At("expCalculate", output, c) /\ c \in DOMAIN DigitValue
    /\ s' = Append(s, DigitValue[c])
    /\ UNCHANGED <<pc, expr, output, op_stack>>

\* The result is on the top.
Result ==
    /\ pc = "expCalculate" /\ i > Len(output)
    /\ pc' = "done"
    /\ UNCHANGED <<expr, i, output, op_stack, s>>

Convert == \E c \in Characters :
              Operator(c) \/ OpenParenthesis(c) \/ CloseParenthesis(c) \/ Operand(c)

Next == Convert \/ EndOfExpr \/ (\E c \in Characters : Calculate(c) \/ PushNumber(c)) \/ Result

Spec == Init /\ [][Next]_vars

-----------------------------------------------------------------------------
\* An expression is worth what the grammar says, whatever its priorities and
\* parentheses, neither loop takes from an empty stack, and nothing is divided
\* by zero (reverse_polish_notation.cpp:33-43).
ValueByGrammar ==
    /\ pc = "done" => \A v \in ValuesOf[expr] : s = <<v>>
    /\ pc = "getPostfix" /\ i <= Len(expr) /\ expr[i] = ")" =>
           \E j \in DOMAIN op_stack : op_stack[j] = "("
    /\ pc = "expCalculate" /\ i <= Len(output) /\ output[i] \in Operators =>
           Len(s) >= 2 /\ ~ (output[i] = "/" /\ s[Len(s)] = 0)
=============================================================================
