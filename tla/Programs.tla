------------------------------ MODULE Programs ------------------------------
(***************************************************************************)
(* The programs that nobody else meets while they run: the priority queue  *)
(* (which this module extends), the permutations, the transcoder and the   *)
(* programs that wait for a child or for threads.  Each keeps its own      *)
(* variables; what they promise is stated here under its own name.         *)
(***************************************************************************)
EXTENDS PriorityQueue, Sequences

CONSTANTS Arrays,                                       \* of Permutation
          Exprs, DigitValue,                            \* of Postfix
          Input, DecoderDelay, EncoderDelay, MaxErrors, \* of Transcoder
          MsgLen, MaxKills                              \* of ChildProcess

ASSUME PermutationAssumption ==
    /\ Arrays \subseteq Seq(Int)
    /\ \A a \in Arrays : a # << >> /\ \A j, k \in DOMAIN a : j # k => a[j] # a[k]

ASSUME TranscoderAssumption ==
    /\ Input \in Seq([stream : {"video", "other"}, holds : Nat])
    /\ DecoderDelay \in Nat /\ EncoderDelay \in Nat /\ MaxErrors \in Nat

ASSUME ChildProcessAssumption == MsgLen \in Nat /\ MaxKills \in Nat

VARIABLES perm_pc, given, input, loops, perm_output,
          post_pc, expr, post_i, post_output, op_stack, post_s,
          trans_program, trans_pc, avPacket, packetNum, codecCtx, picture, pts,
          m_codecCtx, pkt, file, frames, lastRet, undecoded, lost, errors,
          child_program, child_pc, pending, handled, ends, content, echoed,
          g_is_running, kills

perm_vars == <<perm_pc, given, input, loops, perm_output>>
post_vars == <<post_pc, expr, post_i, post_output, op_stack, post_s>>
trans_vars == <<trans_program, trans_pc, avPacket, packetNum, codecCtx, picture, pts,
                m_codecCtx, pkt, file, frames, lastRet, undecoded, lost, errors>>
child_vars == <<child_program, child_pc, pending, handled, ends, content, echoed,
                g_is_running, kills>>

-----------------------------------------------------------------------------
Perm == INSTANCE Permutation WITH pc <- perm_pc, output <- perm_output

\* permutation returns every order of its array, each of them once, and leaves
\* the array as it was (permutation.cpp:1-2).
AllOrdersOnce == Perm!AllOrdersOnce

-----------------------------------------------------------------------------
Post == INSTANCE Postfix
          WITH pc <- post_pc, i <- post_i, output <- post_output, s <- post_s

\* An expression is worth what its grammar says, each digit is worth a number
\* and is none of the other characters.
ASSUME PostfixAssumption ==
    /\ Exprs \subseteq Seq(Post!Characters)
    /\ \A e \in Exprs : Post!ValuesOf[e] # {}
    /\ \A c \in DOMAIN DigitValue :
         DigitValue[c] \in Int /\ c \notin Post!Operators \cup {"(", ")"}

\* The result is the value by the grammar, and no stack is read below its end
\* (reverse_polish_notation.cpp:33-43).
ValueByGrammar == Post!ValueByGrammar

-----------------------------------------------------------------------------
Trans == INSTANCE Transcoder WITH program <- trans_program, pc <- trans_pc

\* The file is in step with the frames decoded, whatever fails
\* (ffmpeg_encoder.cpp:286-291).
InStep == Trans!InStep

\* What is missing at the end is the tail the codecs keep back
\* (ffmpeg_encoder.cpp:298).
OnlyTailMissing == Trans!OnlyTailMissing

-----------------------------------------------------------------------------
Processes == INSTANCE ChildProcess WITH program <- child_program, pc <- child_pc

\* A regular end of main means that all it has started is done
\* (shutdown.c:43-44, pipeUN.c:39-40, thread_id/main.cpp:41-44).
WorkDone == Processes!WorkDone
=============================================================================
