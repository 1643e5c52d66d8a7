----------------------------- MODULE MCPrograms -----------------------------
(***************************************************************************)
(* TLC instance of programs that nobody else meets, of which a behaviour   *)
(* runs one: the priority queue with values that tie and a heap of three   *)
(* levels; the orders of up to four numbers; the expressions of two        *)
(* operators with parentheses anywhere, more with none; the transcoder     *)
(* with five packets of the video, of no, one and two frames, and one of   *)
(* the sound between them, and codecs that may keep frames back; a process *)
(* and what it starts.                                                     *)
(***************************************************************************)
EXTENDS Programs

FourValues == 1..4
MCArrays == UNION {{a \in [1..n -> 1..4] : \A j, k \in 1..n : j # k => a[j] # a[k]} : n \in 1..4}

Video(n) == [stream |-> "video", holds |-> n]
Sound == [stream |-> "other", holds |-> 1]
MCInput == <<Video(1), Video(2), Sound, Video(0), Video(2), Video(1)>>

VARIABLE program

-----------------------------------------------------------------------------
MCDigits == [c \in {"2", "3"} |-> IF c = "2" THEN 2 ELSE 3]

Digits == {<<c>> : c \in DOMAIN MCDigits}

Joined(A, B) == {a \o <<c>> \o b : a \in A, b \in B, c \in {"+", "-", "*", "/"}}

InParentheses(A) == {<<"(">> \o a \o <<")">> : a \in A}

\* Two operators, with parentheses anywhere, and three in a row.
Terms == Digits \cup InParentheses(Digits) \cup InParentheses(Joined(Digits, Digits))
Sums == Joined(Terms, Terms) \cup Joined(Joined(Terms, Digits), Digits)
        \cup InParentheses(Joined(Terms, Digits))

Calculator == INSTANCE Infix WITH DigitValue <- MCDigits

\* Those in which nothing is divided by zero.
MCExprs == {e \in Digits \cup Sums : Calculator!ValuesOf[e] # {}}

-----------------------------------------------------------------------------
\* Main and all it has started come to an end, whoever is killed and whenever
\* the signal comes (pipeUN.c:25-37, thread_id/main.cpp:14-31).
AllEnd == (program = "processes" /\ Processes!ToEnd) ~> Processes!AllEnded

-----------------------------------------------------------------------------
\* The programs that do not run have the smallest input.
ProgramsInit ==
    /\ program \in {"priority_queue", "permutation", "reverse_polish_notation",
                    "transcoder", "processes"}
    /\ Init
    /\ Perm!Init /\ (program # "permutation" => given = <<1>>)
    /\ Post!Init /\ (program # "reverse_polish_notation" => expr = <<"2">>)
    /\ Trans!Init /\ (program # "transcoder" => trans_program = "ffmpeg_test")
    /\ Processes!Init /\ (program # "processes" => child_program = "shutdown")

ChildTurn(A) ==
    /\ program = "processes" /\ A
    /\ UNCHANGED <<program, vars, perm_vars, post_vars, trans_vars>>

ProgramsNext ==
    \/ /\ program = "priority_queue" /\ Next
       /\ UNCHANGED <<program, perm_vars, post_vars, trans_vars, child_vars>>
    \/ /\ program = "permutation" /\ Perm!Next
       /\ UNCHANGED <<program, vars, post_vars, trans_vars, child_vars>>
    \/ /\ program = "reverse_polish_notation" /\ Post!Next
       /\ UNCHANGED <<program, vars, perm_vars, trans_vars, child_vars>>
    \/ /\ program = "transcoder" /\ Trans!Next
       /\ UNCHANGED <<program, vars, perm_vars, post_vars, child_vars>>
    \/ ChildTurn(Processes!Next)

all_vars == <<program, vars, perm_vars, post_vars, trans_vars, child_vars>>

\* Every process and thread that can go on is scheduled.
ProgramsSpec ==
    /\ ProgramsInit /\ [][ProgramsNext]_all_vars
    /\ WF_all_vars(ChildTurn(Processes!Main)) /\ WF_all_vars(ChildTurn(Processes!Child))
    /\ \A t \in Processes!Threads : WF_all_vars(ChildTurn(Processes!LeaveLoop(t)))
=============================================================================
