---------------------------- MODULE MCBoxServer ----------------------------
(* TLC instance of BoxServer.  Heartbeats: a time and another, with and      *)
(* without an unknown task before, between and behind, one task twice, and   *)
(* the time of a server just started.  Two alarms for one image, one of      *)
(* which fails late, a statistic, and a detection with two images whose      *)
(* second part fails.                                                        *)
EXTENDS BoxServer
CONSTANTS t1, t2, u

TwoTasks == {t1, t2}
NoTask == {u}
Entry(task, time) == [taskId |-> task, lastUpdateTime |-> time]
Lists == {<<Entry(t1, 1)>>, <<Entry(t1, 2), Entry(t2, 1)>>, <<Entry(u, 1), Entry(t1, 2)>>,
          <<Entry(t1, 2), Entry(u, 1), Entry(t2, 1)>>, <<Entry(t1, 2), Entry(t1, 1)>>,
          <<Entry(t2, 0), Entry(t1, 1)>>}
Alarm == [files |-> <<"jpg">>, line |-> {"jpg"}, fails_after |-> 2]
Asks == {Alarm, [Alarm EXCEPT !.fails_after = 1],
         [files |-> << >>, line |-> {"stat"}, fails_after |-> 1],
         [files |-> <<"small", "back">>, line |-> {}, fails_after |-> 3],
         [files |-> <<"small", "back">>, line |-> {}, fails_after |-> 1]}
=============================================================================
