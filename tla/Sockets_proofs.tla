---------------------------- MODULE Sockets_proofs ----------------------------
(***************************************************************************)
(* Proofs about the socket servers.  ChatServer, for any clients and any   *)
(* descriptor limit: the type invariant, that the master set and max_sd    *)
(* stay in step with the open descriptors, that the scan never acts on a   *)
(* stale readiness, and that a pass is complete.  SocketPairs, for any     *)
(* servers and clients: that texts and their answers stay in step.         *)
(***************************************************************************)
EXTENDS ChatServer, SocketServers, TLAPS, FiniteSetTheorems, WellFoundedInduction

\* A non-empty set of naturals has the least element that Least chooses.
LEMMA LeastOf ==
    ASSUME NEW S, S \subseteq Nat, S # {}
    PROVE  Least(S) \in S /\ \A x \in S : Least(S) <= x
<1>1. PICK m \in S : \A x \in S : ~ (<<x, m>> \in OpToRel(<, Nat))
  BY NatLessThanWellFounded, WFMin
<1>2. ASSUME NEW x \in S, x < m PROVE FALSE
  <2>. DEFINE p == <<x, m>>
  <2>1. p \in Nat \X Nat /\ p[1] < p[2]
    BY <1>2
  <2>2. p \in OpToRel(<, Nat)
    BY <2>1, Zenon DEF OpToRel
  <2>. QED BY <1>1, <2>2
<1>3. \A x \in S : m <= x
  BY <1>2
<1>. QED BY <1>3 DEF Least

\* A non-empty set of naturals up to b has the element that Greatest chooses.
LEMMA GreatestOf ==
    ASSUME NEW b \in Nat, NEW S, S \subseteq 0..b, S # {}
    PROVE  Greatest(S) \in S /\ \A x \in S : x <= Greatest(S)
<1>. DEFINE T == {b - x : x \in S}
<1>1. T \subseteq Nat /\ T # {}
  <2>1. \A x \in S : b - x \in Nat
    OBVIOUS
  <2>2. PICK x \in S : TRUE
    OBVIOUS
  <2>3. b - x \in T
    BY <2>2
  <2>. QED BY <2>1, <2>3
<1>2. Least(T) \in T /\ \A y \in T : Least(T) <= y
  <2>. HIDE DEF T
  <2>. QED BY <1>1, LeastOf
<1>3. PICK m \in S : Least(T) = b - m
  BY <1>2
<1>4. \A x \in S : x <= m
  BY <1>2, <1>3
<1>. QED BY <1>4 DEF Greatest

LEMMA FdsAreNaturals == Fds \subseteq Nat /\ ListenFd \in Fds /\ Fds \subseteq 0..FdLimit
  BY ChatServerAssumption DEF Fds

-----------------------------------------------------------------------------
\* Every step keeps the shape of the state, and what the descriptors under
\* the scan are open on; without the latter the former is not inductive.
ScanFile ==
    /\ pc \notin Down => files[ListenFd] = Listener
    /\ pc \notin Down => \A fd \in Fds \ {ListenFd} : files[fd] # Listener
    /\ pc = "accept" => i = ListenFd
    /\ pc \in {"recv", "send", "close"} => i \in Fds /\ files[i] \in Clients

ChatInv == TypeOK /\ ScanFile /\ Watching /\ NoStaleReady

LEMMA InitChat == Init => ChatInv
<1>. SUFFICES ASSUME Init PROVE ChatInv
  OBVIOUS
<1>. USE ChatServerAssumption DEF Init, Fds, Down, PeerStates
<1>1. TypeOK
  <2>1. ListenFd \in Fds /\ 0 \in 0..FdLimit
    OBVIOUS
  <2>2. files \in [Fds -> Clients \cup {Listener, Free}] /\ backlog \in Seq(Clients)
    OBVIOUS
  <2>3. /\ peer \in [Clients -> PeerStates]
        /\ inbox \in [Clients -> Nat] /\ sent \in [Clients -> Nat]
    OBVIOUS
  <2>4. pc = "select" /\ i \in 0..FdLimit /\ desc_ready \in Int
    OBVIOUS
  <2>6. end_server \in BOOLEAN
    OBVIOUS
  <2>5. /\ max_sd \in Fds /\ master_set \in SUBSET Fds
        /\ working_set \in SUBSET Fds /\ accepted \in SUBSET Fds
    BY <2>1
  <2>. HIDE DEF Fds, PeerStates, Init
  <2>. QED BY <2>2, <2>3, <2>4, <2>5, <2>6 DEF TypeOK
<1>2. OpenFds = {ListenFd}
  BY DEF OpenFds
<1>. QED BY <1>1, <1>2 DEF ChatInv, ScanFile, Watching, NoStaleReady

LEMMA StepSelect == ChatInv /\ Select => ChatInv'
<1>. SUFFICES ASSUME ChatInv, Select PROVE ChatInv'
  OBVIOUS
<1>. USE ChatServerAssumption DEF ChatInv, TypeOK, Fds, Down
<1>1. /\ pc = "select" /\ pc' = "scan" /\ i' = 0 /\ accepted' = {}
      /\ working_set' = ReadyFds /\ desc_ready' = Cardinality(ReadyFds)
      /\ UNCHANGED <<max_sd, master_set, end_server, files, backlog, peer, inbox, sent>>
  BY DEF Select, sets, net
<1>2. ReadyFds \subseteq master_set
  BY DEF ReadyFds
<1>3. Cardinality(ReadyFds) \in Int
  <2>1. IsFiniteSet(Fds)
    BY FS_Interval
  <2>2. ReadyFds \subseteq Fds
    BY <1>2
  <2>3. IsFiniteSet(ReadyFds)
    BY <2>1, <2>2, FS_Subset
  <2>4. Cardinality(ReadyFds) \in Nat
    BY <2>3, FS_CardinalityType
  <2>. QED BY <2>4
<1>4. TypeOK'
  BY <1>1, <1>2, <1>3
<1>5. OpenFds' = OpenFds
  BY <1>1 DEF OpenFds
<1>. QED BY <1>1, <1>2, <1>4, <1>5 DEF ScanFile, Watching, NoStaleReady, Unserved

\* The steps of the pass that leave every descriptor as it is.
LEMMA StepIdle ==
    ASSUME ChatInv,
           \/ SelectTimesOut \/ SelectFails \/ ScanEnd \/ AcceptFails
           \/ RecvData \/ RecvWouldBlock \/ RecvEnds
           \/ SendReply \/ SendFails \/ SendKills
    PROVE  ChatInv'
<1>. USE ChatServerAssumption
     DEF ChatInv, TypeOK, ScanFile, Watching, NoStaleReady, Unserved, Fds, OpenFds,
         Down, PeerStates, scan, sets, net
<1>1. CASE SelectTimesOut
  BY <1>1 DEF SelectTimesOut
<1>2. CASE SelectFails
  BY <1>2 DEF SelectFails
<1>3. CASE ScanEnd
  BY <1>3 DEF ScanEnd
<1>4. CASE AcceptFails
  BY <1>4 DEF AcceptFails
<1>5. CASE RecvData
  <2>1. inbox' \in [Clients -> Nat]
    <3>1. PICK n \in 1..inbox[files[i]] : inbox' = [inbox EXCEPT ![files[i]] = @ - n]
      BY <1>5 DEF RecvData
    <3>2. ASSUME NEW c \in Clients  PROVE  inbox'[c] \in Nat
      BY <3>1, <3>2
    <3>. QED BY <3>1, <3>2
  <2>2. /\ pc = "recv" /\ pc' = "send"
        /\ UNCHANGED <<scan, sets, end_server, files, backlog, peer, sent, accepted>>
    BY <1>5 DEF RecvData
  <2>. QED BY <2>1, <2>2
<1>6. CASE RecvWouldBlock
  BY <1>6 DEF RecvWouldBlock
<1>7. CASE RecvEnds
  BY <1>7 DEF RecvEnds
<1>8. CASE SendReply
  BY <1>8 DEF SendReply
<1>9. CASE SendFails
  BY <1>9 DEF SendFails
<1>10. CASE SendKills
  BY <1>10 DEF SendKills
<1>. QED BY <1>1, <1>2, <1>3, <1>4, <1>5, <1>6, <1>7, <1>8, <1>9, <1>10

LEMMA StepScanHit == ChatInv /\ ScanHit => ChatInv'
<1>. SUFFICES ASSUME ChatInv, ScanHit PROVE ChatInv'
  OBVIOUS
<1>. USE ChatServerAssumption DEF ChatInv
<1>1. i' \in Ahead
  <2>1. Ahead # {}
    BY DEF ScanHit
  <2>2. Ahead \subseteq Nat
    <3>1. Ahead \subseteq working_set
      BY DEF Ahead
    <3>2. working_set \subseteq Fds
      BY DEF TypeOK
    <3>. QED BY <3>1, <3>2, FdsAreNaturals
  <2>. QED BY <2>1, <2>2, LeastOf DEF ScanHit
<1>2. i' \in Unserved
  BY <1>1 DEF Ahead, Unserved, ScanHit, TypeOK, Fds
<1>3. i' \in OpenFds
  BY <1>2 DEF NoStaleReady, ScanHit
<1>4. i' # ListenFd => files[i'] \in Clients
  BY <1>3 DEF OpenFds, ScanFile, ScanHit, Down, TypeOK
<1>5. i <= i'
  BY <1>1 DEF Ahead
<1>6. TypeOK'
  BY <1>3 DEF TypeOK, ScanHit, sets, net, OpenFds, Fds
<1>7. ScanFile' /\ Watching'
  BY <1>3, <1>4 DEF ScanFile, Watching, ScanHit, sets, net, OpenFds, Fds, Down
<1>8. Unserved' \subseteq Unserved
  <2>1. working_set' = working_set /\ pc = "scan" /\ pc' # "scan"
    BY DEF ScanHit
  <2>2. i \in Nat /\ i' \in Nat /\ working_set \subseteq Nat
    BY <1>3, FdsAreNaturals DEF TypeOK, OpenFds
  <2>3. \A fd \in working_set : fd > i' => fd > i
    BY <1>5, <2>2
  <2>. QED BY <2>1, <2>3 DEF Unserved
<1>9. NoStaleReady'
  BY <1>8 DEF NoStaleReady, ScanHit, OpenFds
<1>. QED BY <1>6, <1>7, <1>9

LEMMA StepAccept == ChatInv /\ Accept => ChatInv'
<1>. SUFFICES ASSUME ChatInv, Accept PROVE ChatInv'
  OBVIOUS
<1>. USE ChatServerAssumption DEF ChatInv
<1>. DEFINE new_sd == Least(Fds \ OpenFds)
<1>1. new_sd \in Fds /\ files[new_sd] = Free
  <2>1. Fds \ OpenFds \subseteq Nat /\ Fds \ OpenFds # {}
    BY DEF Accept, Fds, OpenFds
  <2>2. new_sd \in Fds \ OpenFds
    BY <2>1, LeastOf
  <2>. QED BY <2>2 DEF OpenFds
<1>2. /\ pc = "accept" /\ UNCHANGED <<pc, i, desc_ready, working_set, end_server,
                                     peer, inbox, sent>>
      /\ files' = [files EXCEPT ![new_sd] = Head(backlog)]
      /\ master_set' = master_set \cup {new_sd}
      /\ max_sd' = IF new_sd > max_sd THEN new_sd ELSE max_sd
      /\ accepted' = accepted \cup {new_sd}
      /\ backlog' = Tail(backlog) /\ backlog # << >>
  BY DEF Accept, scan, net
<1>. HIDE DEF new_sd
<1>3. Head(backlog) \in Clients /\ Tail(backlog) \in Seq(Clients)
  BY <1>2 DEF TypeOK
<1>4. TypeOK'
  BY <1>1, <1>2, <1>3 DEF TypeOK
<1>5. OpenFds' = OpenFds \cup {new_sd}
  BY <1>1, <1>2, <1>3 DEF OpenFds, TypeOK
<1>6. Watching'
  BY <1>1, <1>2, <1>5 DEF Watching, TypeOK, Down, Fds
<1>7. new_sd # ListenFd
  BY <1>1, <1>2 DEF ScanFile, Down
<1>8. ScanFile'
  BY <1>1, <1>2, <1>3, <1>7 DEF ScanFile, Down, TypeOK, Fds
<1>9. NoStaleReady'
  BY <1>1, <1>2, <1>5 DEF NoStaleReady, Unserved, OpenFds
<1>. QED BY <1>4, <1>6, <1>8, <1>9

LEMMA StepClose == ChatInv /\ Close => ChatInv'
<1>. SUFFICES ASSUME ChatInv, Close PROVE ChatInv'
  OBVIOUS
<1>. USE ChatServerAssumption DEF ChatInv
<1>. DEFINE left == master_set \ {i}
            new_max == IF i = max_sd THEN Greatest(left) ELSE max_sd
<1>1. /\ pc = "close" /\ pc' = "scan" /\ i' = i + 1
      /\ peer' = [peer EXCEPT ![files[i]] = "closed"]
      /\ files' = [files EXCEPT ![i] = Free]
      /\ master_set' = left /\ max_sd' = new_max
      /\ UNCHANGED <<desc_ready, working_set, end_server, backlog, inbox, sent, accepted>>
  BY DEF Close, Closing
<1>2. i \in Fds /\ files[i] \in Clients /\ i # ListenFd
  BY <1>1 DEF ScanFile, Down
<1>3. ListenFd \in left /\ left \subseteq 0..FdLimit
  <2>1. ListenFd \in OpenFds /\ master_set = OpenFds
    BY <1>1, FdsAreNaturals DEF Watching, ScanFile, OpenFds, Down
  <2>2. master_set \subseteq 0..FdLimit
    BY FdsAreNaturals DEF TypeOK
  <2>. QED BY <1>2, <2>1, <2>2
<1>4. Greatest(left) \in left /\ \A fd \in left : fd <= Greatest(left)
  <2>. HIDE DEF left
  <2>. QED BY <1>3, GreatestOf
<1>5. new_max \in left /\ \A fd \in left : fd <= new_max
  BY <1>1, <1>4 DEF Watching, Down
<1>. HIDE DEF new_max
<1>6. TypeOK'
  BY <1>1, <1>2, <1>5 DEF TypeOK, PeerStates, Fds
<1>7. OpenFds' = OpenFds \ {i}
  BY <1>1, <1>2 DEF OpenFds, TypeOK
<1>8. Watching'
  BY <1>1, <1>5, <1>7 DEF Watching, Down
<1>9. ScanFile'
  BY <1>1, <1>2 DEF ScanFile, Down, TypeOK
<1>10. NoStaleReady'
  BY <1>1, <1>2, <1>7 DEF NoStaleReady, Unserved, TypeOK, Fds
<1>. QED BY <1>6, <1>8, <1>9, <1>10

LEMMA StepCleanup == ChatInv /\ Cleanup => ChatInv'
  BY ChatServerAssumption DEF ChatInv, Cleanup, TypeOK, ScanFile, Watching,
     NoStaleReady, Unserved, Down, scan, sets, net

LEMMA StepClient ==
    ASSUME ChatInv, NEW c \in Clients, Connect(c) \/ Send(c) \/ Leave(c)
    PROVE  ChatInv'
<1>. USE ChatServerAssumption
     DEF ChatInv, TypeOK, ScanFile, Watching, NoStaleReady, Unserved, Fds, OpenFds,
         Down, PeerStates, scan, sets, net
<1>1. CASE Connect(c)
  BY <1>1 DEF Connect
<1>2. CASE Send(c)
  BY <1>2 DEF Send
<1>3. CASE Leave(c)
  BY <1>3 DEF Leave
<1>. QED BY <1>1, <1>2, <1>3

LEMMA InvariantChat == Spec => []ChatInv
<1>1. ChatInv /\ UNCHANGED vars => ChatInv'
  BY DEF vars, scan, sets, net, ChatInv, TypeOK, ScanFile, Watching, NoStaleReady,
     Unserved, OpenFds
<1>2. ChatInv /\ [Next]_vars => ChatInv'
  BY <1>1, StepSelect, StepIdle, StepScanHit, StepAccept, StepClose, StepCleanup,
     StepClient DEF Next, Server
<1>. QED BY InitChat, <1>2, PTL DEF Spec

\* The shape of the state, for any clients and any limit.
THEOREM TypeCorrect == Spec => []TypeOK
  BY InvariantChat, PTL DEF ChatInv

\* The master set is the set of open descriptors and max_sd its greatest,
\* through every accept and every close (chat_server.cpp:165-167, 248-255).
THEOREM WatchingCorrect == Spec => []Watching
  BY InvariantChat, PTL DEF ChatInv

\* No descriptor the scan has still to serve was closed or reused since select
\* reported it (chat_server.cpp:116-258): accept runs before every close of a
\* pass, because the listening descriptor is the least of all.
THEOREM NoStaleReadyCorrect == Spec => []NoStaleReady
  BY InvariantChat, PTL DEF ChatInv

-----------------------------------------------------------------------------
\* During a pass desc_ready is the number of descriptors select reported and
\* the scan has not served: the counter that ends the loop early is exact.
Counted ==
    pc \in {"scan", "accept", "recv", "send", "close"} =>
        desc_ready = Cardinality(Unserved)

\* The descriptors of the working set are finitely many.
LEMMA UnservedFinite == TypeOK => IsFiniteSet(Unserved)
<1>1. IsFiniteSet(Fds)
  BY ChatServerAssumption, FS_Interval DEF Fds
<1>. QED BY <1>1, FS_Subset DEF TypeOK, Unserved

\* While the loop looks for the next descriptor, it finds below max_sd all
\* that is left of what select reported.
LEMMA AheadIsUnserved == ChatInv /\ pc = "scan" => Ahead = Unserved
<1>. SUFFICES ASSUME ChatInv, pc = "scan" PROVE Ahead = Unserved
  OBVIOUS
<1>1. \A fd \in Unserved : fd <= max_sd
  BY DEF ChatInv, NoStaleReady, Watching, Down
<1>2. \A fd \in working_set : i <= fd <=> (fd > i \/ fd = i)
  BY FdsAreNaturals DEF ChatInv, TypeOK
<1>. QED BY <1>1, <1>2 DEF Ahead, Unserved

\* The steps of the server that move the scan, or refill what it serves.
LEMMA CountScan ==
    ASSUME ChatInv, Counted, Select \/ ScanHit \/ AcceptFails \/ RecvWouldBlock \/ Close
    PROVE  Counted'
<1>. USE DEF ChatInv
<1>1. working_set \subseteq Nat /\ i \in Nat
  BY FdsAreNaturals, ChatServerAssumption DEF TypeOK
<1>2. CASE Select
  <2>1. pc' = "scan" /\ i' = 0 /\ working_set' = ReadyFds
    BY <1>2 DEF Select
  <2>2. ReadyFds \subseteq Nat
    BY FdsAreNaturals DEF ReadyFds, TypeOK
  <2>3. Unserved' = {fd \in ReadyFds : fd > 0 \/ fd = 0}
    BY <2>1 DEF Unserved
  <2>4. \A fd \in ReadyFds : fd > 0 \/ fd = 0
    BY <2>2
  <2>5. Unserved' = ReadyFds
    BY <2>3, <2>4, Zenon
  <2>. QED BY <1>2, <2>5 DEF Select, Counted
<1>3. CASE ScanHit
  <2>1. /\ pc = "scan" /\ pc' \in {"accept", "recv"} /\ i' = Least(Ahead)
        /\ desc_ready' = desc_ready - 1 /\ working_set' = working_set /\ Ahead # {}
    BY <1>3 DEF ScanHit
  <2>2. Ahead = Unserved
    BY <2>1, AheadIsUnserved
  <2>3. i' \in Unserved /\ \A fd \in Unserved : i' <= fd
    BY <1>1, <2>1, <2>2, LeastOf DEF Unserved
  <2>4. Unserved' = Unserved \ {i'}
    <3>1. i' \in Nat /\ i <= i'
      BY <1>1, <2>3 DEF Unserved
    <3>2. Unserved' = {fd \in working_set : fd > i'}
      BY <2>1 DEF Unserved
    <3>3. \A fd \in working_set : fd > i' => fd \in Unserved /\ fd # i'
      BY <1>1, <3>1 DEF Unserved
    <3>4. \A fd \in Unserved : fd # i' => fd \in working_set /\ fd > i'
      BY <1>1, <2>3, <3>1 DEF Unserved
    <3>. QED BY <3>2, <3>3, <3>4
  <2>5. Cardinality(Unserved \ {i'}) = Cardinality(Unserved) - 1
    BY <2>3, UnservedFinite, FS_RemoveElement
  <2>. QED BY <2>1, <2>4, <2>5 DEF Counted
<1>4. CASE AcceptFails \/ RecvWouldBlock \/ Close
  <2>1. /\ pc \in {"accept", "recv", "close"} /\ pc' = "scan" /\ i' = i + 1
        /\ UNCHANGED <<desc_ready, working_set>>
    BY <1>4 DEF AcceptFails, RecvWouldBlock, Close, Closing
  <2>2. \A fd \in working_set : fd > i <=> (fd > i + 1 \/ fd = i + 1)
    BY <1>1
  <2>3. Unserved = {fd \in working_set : fd > i}
    BY <2>1 DEF Unserved
  <2>4. Unserved' = {fd \in working_set : fd > i + 1 \/ fd = i + 1}
    BY <2>1 DEF Unserved
  <2>5. Unserved' = Unserved
    BY <2>2, <2>3, <2>4
  <2>. QED BY <2>1, <2>5 DEF Counted
<1>. QED BY <1>2, <1>3, <1>4

\* The steps that leave the scan where it is, or end the pass.
LEMMA CountStill ==
    ASSUME ChatInv, Counted, [Next]_vars,
           ~ (Select \/ ScanHit \/ AcceptFails \/ RecvWouldBlock \/ Close)
    PROVE  Counted'
<1>1. CASE SelectTimesOut \/ SelectFails \/ ScanEnd \/ SendKills \/ Cleanup
  BY <1>1 DEF SelectTimesOut, SelectFails, ScanEnd, SendKills, Cleanup, Counted
<1>2. CASE Accept \/ RecvData \/ RecvEnds \/ SendReply \/ SendFails
  BY <1>2 DEF Accept, RecvData, RecvEnds, SendReply, SendFails, Counted, Unserved, scan
<1>3. CASE \E c \in Clients : Connect(c) \/ Send(c) \/ Leave(c)
  BY <1>3 DEF Connect, Send, Leave, Counted, Unserved, scan
<1>4. CASE UNCHANGED vars
  BY <1>4 DEF vars, scan, Counted, Unserved
<1>. QED BY <1>1, <1>2, <1>3, <1>4 DEF Next, Server

\* The loop ends with nothing left of what select counted.
LEMMA EndOfPass ==
    ASSUME ChatInv, Counted, [Next]_vars, pc = "scan", pc' \in {"select", "cleanup"}
    PROVE  desc_ready = 0
<1>1. ScanEnd
  BY DEF Next, Server, vars, Select, SelectTimesOut, SelectFails, ScanHit, Accept, AcceptFails,
     RecvData, RecvWouldBlock, RecvEnds, SendReply, SendFails, SendKills, Close,
     Closing, Cleanup, Connect, Send, Leave
<1>2. desc_ready = Cardinality(Unserved) /\ Ahead = Unserved
  BY AheadIsUnserved DEF Counted
<1>3. Cardinality(Unserved) \in Nat
  BY UnservedFinite, FS_CardinalityType DEF ChatInv
<1>4. CASE desc_ready <= 0
  BY <1>2, <1>3, <1>4
<1>5. CASE Ahead = {}
  BY <1>2, <1>5, FS_EmptySet
<1>. QED BY <1>1, <1>4, <1>5 DEF ScanEnd

LEMMA InvariantCounted == Spec => []Counted
<1>1. Init => Counted
  BY DEF Init, Counted
<1>2. ChatInv /\ Counted /\ [Next]_vars => Counted'
  BY CountScan, CountStill
<1>. QED BY <1>1, <1>2, InvariantChat, PTL DEF Spec

\* A pass ends only when every descriptor select reported has been served,
\* although the loop stops at a max_sd that closes lower and accepts raise
\* (chat_server.cpp:108-116, 248-255).
THEOREM PassCompleteCorrect == Spec => PassComplete
<1>1. ChatInv /\ Counted /\ [Next]_vars
        => [pc = "scan" /\ pc' \in {"select", "cleanup"} => desc_ready = 0]_vars
  BY EndOfPass
<1>. QED BY <1>1, InvariantChat, InvariantCounted, PTL DEF Spec, PassComplete

-----------------------------------------------------------------------------
(* SocketPairs.  Its inductive invariant, PairsInv, says where the one text or *)
(* answer of each client is; kills and ends of connections take it out of turn *)
(* in no other way than by emptying both of its streams.                       *)

\* A stream of one text at most.
Single == {<< >>} \cup {<<t>> : t \in Pairs!Texts}

\* Server s has the connection of client c.
Has(s, c) == c = serving[s] \/ c \in Pairs!Range(waiting[s])

PairsShape ==
    /\ program \in {"server_unix", "unix_domain", "socket_server"}
    /\ state \in [Servers \cup Callers ->
                    {"unlink", "bind", "listen", "accept", "read", "write",
                     "connect", "send", "recv"} \cup Pairs!Ended]
    /\ \A s \in Servers : state[s] \notin {"connect", "send", "recv"}
    /\ \A c \in Callers : state[c] \notin {"listen", "accept", "read", "write"}
    /\ name \in Servers \cup {None} /\ clientName \in Callers \cup {None}
    /\ waiting \in [Servers -> Seq(Callers)]
    /\ serving \in [Servers -> Callers \cup {None}]
    /\ buf \in [Servers -> Pairs!Texts \cup {None}]
    /\ conn \in [Callers -> {"none", "open", "eof", "reset"}]
    /\ request \in [Callers -> Single] /\ answer \in [Callers -> Single]
    /\ asked \in [Callers -> 0..MaxRequests]
    /\ got \in [Callers -> Seq(Pairs!Texts \cup {None})]
    /\ kills \in 0..MaxKills

\* A connection is at one place, of one server that has not ended.
AtOnePlace ==
    /\ \A s \in Servers :
         /\ state[s] \notin Pairs!Listening => waiting[s] = << >>
         /\ serving[s] # None <=> state[s] \in {"read", "write"}
         /\ Pairs!IsInjective(waiting[s])
         /\ serving[s] \notin Pairs!Range(waiting[s])
    /\ \A s, t \in Servers : \A c \in Callers : Has(s, c) /\ Has(t, c) => s = t

\* A client that has not connected has nothing; one whose connection a server
\* has finds it open; and one that is closed carries no text to the server.
Connected(c) ==
    /\ state[c] \in {"unlink", "bind", "connect"} =>
         /\ conn[c] = "none" /\ answer[c] = << >>
         /\ asked[c] = 0 /\ got[c] = << >>
         /\ \A s \in Servers : ~ Has(s, c)
    /\ state[c] \in {"send", "recv"} => conn[c] # "none"
    /\ \A s \in Servers : Has(s, c) => conn[c] = "open"
    /\ conn[c] # "open" => request[c] = << >>

\* A client sends when all it has sent is answered, and receives when its last
\* text, or the answer to it, is under way or lost with the connection.
InTurn(c) ==
    /\ state[c] = "send" => Len(got[c]) = asked[c] /\ request[c] = << >> /\ answer[c] = << >>
    /\ state[c] = "recv" =>
         /\ asked[c] = Len(got[c]) + 1
         /\ request[c] \in {<< >>, <<<<c, asked[c]>>>>}
         /\ answer[c] \in {<< >>, <<<<c, asked[c]>>>>}
    /\ request[c] = << >> \/ answer[c] = << >>
    /\ Len(got[c]) <= asked[c]

\* What it got are the answers, one by one, and then ends only.
Got(c) ==
    \A k \in 1..Len(got[c]) :
      /\ got[c][k] \in {<<c, k>>, None}
      /\ got[c][k] = None => /\ conn[c] \in {"eof", "reset"} /\ answer[c] = << >>
                             /\ k < Len(got[c]) => got[c][k + 1] = None

\* A server that writes has the text its client waits for the answer to.
Answers(s) ==
    state[s] = "write" /\ state[serving[s]] \notin Pairs!Ended =>
      LET c == serving[s] IN
      /\ state[c] = "recv" /\ buf[s] = <<c, asked[c]>>
      /\ request[c] = << >> /\ answer[c] = << >>

\* The one text of unix_domain: its answer is written before the connection ends.
OneText(c) ==
    program = "unix_domain" =>
      /\ state[c] = "send" => asked[c] = 0 /\ (kills = 0 => conn[c] # "eof")
      /\ state[c] = "recv" => /\ asked[c] = 1
                              /\ kills = 0 /\ conn[c] = "eof" => answer[c] # << >>
      /\ state[c] = "done" /\ kills = 0 => got[c] = <<<<c, 1>>>>

\* In the other two nothing is broken off without a kill.
Unbroken ==
    program # "unix_domain" /\ kills = 0 =>
      /\ \A p \in Servers \cup Callers : state[p] # "sigpipe"
      /\ \A c \in Callers : conn[c] \in {"none", "open"}
      /\ \A s \in Servers : state[s] = "write" => state[serving[s]] = "recv"
      /\ \A s \in Servers, c \in Callers :
           Has(s, c) /\ state[c] \in Pairs!Ended =>
              program = "server_unix" /\ request[c] = << >>

PairsInv ==
    /\ PairsShape
    /\ AtOnePlace
    /\ \A c \in Callers : Connected(c) /\ InTurn(c) /\ Got(c) /\ OneText(c)
    /\ \A s \in Servers : Answers(s)
    /\ Unbroken

-----------------------------------------------------------------------------
\* The kinds of processes and the texts are apart.
LEMMA Apart ==
    /\ \A s \in Servers : s \notin Callers /\ s # None
    /\ \A c \in Callers : c \notin Servers /\ c # None
    /\ None \notin Pairs!Texts
  BY SocketServersAssumption DEF Pairs!Texts

\* What Append and Tail do to the members of a line without repetition.
LEMMA JoinLine ==
    ASSUME NEW S, NEW q \in Seq(S), NEW x \in S, x \notin Pairs!Range(q), Pairs!IsInjective(q)
    PROVE  /\ Append(q, x) \in Seq(S)
           /\ Pairs!IsInjective(Append(q, x))
           /\ \A y : y \in Pairs!Range(Append(q, x)) <=> y \in Pairs!Range(q) \/ y = x
<1>. DEFINE a == Append(q, x)
<1>1. /\ a \in Seq(S) /\ Len(a) = Len(q) + 1 /\ a[Len(q) + 1] = x
      /\ \A k \in 1..Len(q) : a[k] = q[k]
      /\ Len(q) \in Nat /\ DOMAIN q = 1..Len(q) /\ DOMAIN a = 1..(Len(q) + 1)
  OBVIOUS
<1>. HIDE DEF a
<1>2. \A k \in 1..Len(q) : q[k] # x
  BY <1>1 DEF Pairs!Range
<1>3. Pairs!IsInjective(a)
  <2>. SUFFICES ASSUME NEW j \in 1..(Len(q) + 1), NEW k \in 1..(Len(q) + 1), a[j] = a[k]
                PROVE  j = k
    BY <1>1 DEF Pairs!IsInjective
  <2>1. CASE j \in 1..Len(q) /\ k \in 1..Len(q)
    BY <1>1, <2>1 DEF Pairs!IsInjective
  <2>. QED BY <1>1, <1>2, <2>1
<1>4. ASSUME NEW y PROVE y \in Pairs!Range(a) <=> y \in Pairs!Range(q) \/ y = x
  <2>1. ASSUME y \in Pairs!Range(a) PROVE y \in Pairs!Range(q) \/ y = x
    <3>1. PICK k \in 1..(Len(q) + 1) : y = a[k]
      BY <1>1, <2>1 DEF Pairs!Range
    <3>. QED BY <1>1, <3>1 DEF Pairs!Range
  <2>2. ASSUME y \in Pairs!Range(q) PROVE y \in Pairs!Range(a)
    <3>1. PICK k \in 1..Len(q) : y = q[k]
      BY <1>1, <2>2 DEF Pairs!Range
    <3>2. k \in DOMAIN a /\ a[k] = y
      BY <1>1, <3>1
    <3>. QED BY <3>2 DEF Pairs!Range
  <2>3. x \in Pairs!Range(a)
    <3>1. Len(q) + 1 \in DOMAIN a
      BY <1>1
    <3>. QED BY <1>1, <3>1 DEF Pairs!Range
  <2>. QED BY <2>1, <2>2, <2>3
<1>. QED BY <1>1, <1>3, <1>4 DEF a

LEMMA LeaveLine ==
    ASSUME NEW S, NEW q \in Seq(S), q # << >>, Pairs!IsInjective(q)
    PROVE  /\ Head(q) \in S /\ Tail(q) \in Seq(S)
           /\ Pairs!IsInjective(Tail(q)) /\ Head(q) \notin Pairs!Range(Tail(q))
           /\ \A y : y \in Pairs!Range(q) <=> y \in Pairs!Range(Tail(q)) \/ y = Head(q)
<1>. DEFINE t == Tail(q)
<1>1. /\ t \in Seq(S) /\ Len(t) = Len(q) - 1 /\ Head(q) = q[1] /\ Head(q) \in S
      /\ \A k \in 1..(Len(q) - 1) : t[k] = q[k + 1]
      /\ Len(q) \in Nat \ {0} /\ DOMAIN q = 1..Len(q) /\ DOMAIN t = 1..(Len(q) - 1)
  OBVIOUS
<1>. HIDE DEF t
<1>2. \A j, k \in 1..Len(q) : q[j] = q[k] => j = k
  BY <1>1 DEF Pairs!IsInjective
<1>3. Pairs!IsInjective(t)
  <2>. SUFFICES ASSUME NEW j \in 1..(Len(q) - 1), NEW k \in 1..(Len(q) - 1), t[j] = t[k]
                PROVE  j = k
    BY <1>1 DEF Pairs!IsInjective
  <2>1. j + 1 \in 1..Len(q) /\ k + 1 \in 1..Len(q) /\ q[j + 1] = q[k + 1]
    BY <1>1
  <2>. QED BY <1>2, <2>1
<1>4. ASSUME NEW k \in 1..(Len(q) - 1) PROVE t[k] # Head(q)
  <2>1. k + 1 \in 1..Len(q) /\ 1 \in 1..Len(q) /\ k + 1 # 1 /\ t[k] = q[k + 1]
    BY <1>1
  <2>. QED BY <1>1, <1>2, <2>1
<1>5. Head(q) \notin Pairs!Range(t)
  BY <1>1, <1>4 DEF Pairs!Range
<1>6. ASSUME NEW y PROVE y \in Pairs!Range(q) <=> y \in Pairs!Range(t) \/ y = Head(q)
  <2>1. ASSUME y \in Pairs!Range(q) PROVE y \in Pairs!Range(t) \/ y = Head(q)
    <3>1. PICK k \in 1..Len(q) : y = q[k]
      BY <1>1, <2>1 DEF Pairs!Range
    <3>2. CASE k = 1
      BY <1>1, <3>1, <3>2
    <3>3. CASE k # 1
      <4>1. k - 1 \in 1..(Len(q) - 1) /\ (k - 1) + 1 = k
        BY <1>1, <3>3
      <4>2. t[k - 1] = y
        BY <1>1, <3>1, <4>1
      <4>. QED BY <1>1, <4>1, <4>2 DEF Pairs!Range
    <3>. QED BY <3>2, <3>3
  <2>2. ASSUME y \in Pairs!Range(t) PROVE y \in Pairs!Range(q)
    <3>1. PICK k \in 1..(Len(q) - 1) : y = t[k]
      BY <1>1, <2>2 DEF Pairs!Range
    <3>2. k + 1 \in DOMAIN q /\ q[k + 1] = y
      BY <1>1, <3>1
    <3>. QED BY <3>2 DEF Pairs!Range
  <2>3. Head(q) \in Pairs!Range(q)
    <3>1. 1 \in DOMAIN q
      BY <1>1
    <3>. QED BY <1>1, <3>1 DEF Pairs!Range
  <2>. QED BY <2>1, <2>2, <2>3
<1>. QED BY <1>1, <1>3, <1>5, <1>6 DEF t

\* An empty line has no member, nor one twice.
LEMMA EmptyLine == \A y : y \notin Pairs!Range(<< >>)
  BY DEF Pairs!Range

LEMMA EmptyInjective == Pairs!IsInjective(<< >>)
  BY DEF Pairs!IsInjective

\* A stream of one text at most: what reading it gives.
LEMMA SingleText ==
    ASSUME NEW q \in Single
    PROVE  /\ q \in Seq(Pairs!Texts) /\ Len(q) \in 0..1 /\ (q = << >> <=> Len(q) = 0)
           /\ q # << >> => q = <<Head(q)>> /\ Head(q) \in Pairs!Texts /\ Tail(q) = << >>
           /\ \A t : Append(<< >>, t) = <<t>>
<1>1. CASE q = << >>
  BY <1>1
<1>2. CASE q # << >>
  <2>1. PICK t \in Pairs!Texts : q = <<t>>
    BY <1>2 DEF Single
  <2>2. Len(q) = 1 /\ Head(q) = t /\ q \in Seq(Pairs!Texts) /\ Tail(q) = << >>
    BY <2>1
  <2>. QED BY <2>1, <2>2
<1>. QED BY <1>1, <1>2

\* Initially nobody has connected.
LEMMA InitPairs == Pairs!Init => PairsInv
<1>. SUFFICES ASSUME Pairs!Init PROVE PairsInv
  OBVIOUS
<1>. USE DEF Pairs!Init, Pairs!Start, Pairs!Procs, Pairs!Unix
<1>1. PairsShape
  BY Apart, SocketServersAssumption DEF PairsShape, Single
<1>2. \A s \in Servers, c \in Callers : ~ Has(s, c)
  BY Apart, EmptyLine DEF Has
<1>3. AtOnePlace
  BY Apart, <1>2, EmptyLine, EmptyInjective DEF AtOnePlace
<1>4. ASSUME NEW c \in Callers PROVE Connected(c) /\ InTurn(c) /\ Got(c) /\ OneText(c)
  BY <1>2, <1>4, Apart DEF Connected, InTurn, Got, OneText
<1>5. ASSUME NEW s \in Servers PROVE Answers(s)
  BY <1>5 DEF Answers
<1>6. Unbroken
  BY <1>2 DEF Unbroken
<1>. QED BY <1>1, <1>3, <1>4, <1>5, <1>6 DEF PairsInv

\* A server that is on its way to listening has no connection yet.
LEMMA StepNames ==
    ASSUME PairsInv, NEW s \in Servers,
           Pairs!Unlink(s) \/ Pairs!Bind(s) \/ Pairs!BindFails(s) \/ Pairs!Listen(s)
    PROVE  PairsInv'
<1>. USE DEF Pairs!Ended, Pairs!Listening
<1>1. /\ state[s] \in {"unlink", "bind", "listen"}
      /\ \E l \in {"bind", "listen", "accept", "exited"} : state' = [state EXCEPT ![s] = l]
      /\ name' \in {None, name, s}
      /\ UNCHANGED <<program, clientName, waiting, serving, buf, conn, request, answer, asked,
                     got, kills>>
  BY DEF Pairs!Unlink, Pairs!Bind, Pairs!BindFails, Pairs!Listen, Pairs!Goto, Pairs!server,
         Pairs!stream, Pairs!client
<1>2. PairsShape'
  BY <1>1, Apart DEF PairsInv, PairsShape
<1>3. \A t \in Servers, c \in Callers : Has(t, c)' <=> Has(t, c)
  BY <1>1 DEF Has
<1>4. state[s] \notin {"read", "write"} /\ state'[s] \notin {"read", "write", "sigpipe"}
  BY <1>1 DEF PairsInv, PairsShape
<1>5. AtOnePlace'
  BY <1>1, <1>3 DEF PairsInv, PairsShape, AtOnePlace
<1>6. ASSUME NEW c \in Callers PROVE Connected(c)' /\ InTurn(c)' /\ Got(c)' /\ OneText(c)'
  <2>1. state'[c] = state[c] /\ c # s
    BY <1>1, Apart DEF PairsInv, PairsShape
  <2>2. Connected(c) /\ InTurn(c) /\ Got(c) /\ OneText(c)
    BY DEF PairsInv
  <2>. QED BY <1>1, <1>3, <2>1, <2>2 DEF Connected, InTurn, Got, OneText
<1>7. ASSUME NEW t \in Servers PROVE Answers(t)'
  <2>1. state'[t] = "write" => t # s /\ state[t] = "write"
    BY <1>1, <1>4 DEF PairsInv, PairsShape
  <2>2. state[t] = "write" => serving[t] \in Callers
    BY DEF PairsInv, PairsShape, AtOnePlace
  <2>3. \A c \in Callers : state'[c] = state[c]
    BY <1>1, Apart DEF PairsInv, PairsShape
  <2>. QED BY <1>1, <2>1, <2>2, <2>3 DEF PairsInv, Answers
<1>8. Unbroken'
  <2>1. \A c \in Callers : state'[c] = state[c]
    BY <1>1, Apart DEF PairsInv, PairsShape
  <2>2. \A t \in Servers : state[t] = "write" => serving[t] \in Callers
    BY DEF PairsInv, PairsShape, AtOnePlace
  <2>3. \A p \in Servers \cup Callers : state'[p] = "sigpipe" => state[p] = "sigpipe"
    BY <1>1, <1>4 DEF PairsInv, PairsShape
  <2>4. \A t \in Servers : state'[t] = "write" => state[t] = "write"
    BY <1>1, <1>4 DEF PairsInv, PairsShape
  <2>. QED BY <1>1, <1>3, <2>1, <2>2, <2>3, <2>4 DEF PairsInv, Unbroken
<1>. QED BY <1>2, <1>5, <1>6, <1>7, <1>8 DEF PairsInv

\* A server that reads or writes has the open connection of a client, who has
\* come as far as to send.
LEMMA Serves ==
    ASSUME PairsInv, NEW s \in Servers, state[s] \in {"read", "write"}
    PROVE  /\ serving[s] \in Callers /\ Has(s, serving[s]) /\ conn[serving[s]] = "open"
           /\ state[serving[s]] \in {"send", "recv"} \cup Pairs!Ended
<1>1. serving[s] \in Callers
  BY DEF PairsInv, PairsShape, AtOnePlace
<1>2. Has(s, serving[s])
  BY DEF Has
<1>3. Connected(serving[s])
  BY <1>1 DEF PairsInv
<1>4. state[serving[s]] \in {"unlink", "bind", "connect", "send", "recv"} \cup Pairs!Ended
  BY <1>1 DEF PairsInv, PairsShape
<1>. QED BY <1>1, <1>2, <1>3, <1>4 DEF Connected

\* The steps of a client that touch its state only.
LEMMA StepCallers ==
    ASSUME PairsInv, NEW c \in Callers,
           \/ Pairs!ClientUnlink(c) \/ Pairs!ClientBind(c) \/ Pairs!ConnectFails(c)
           \/ Pairs!SendBroken(c) \/ Pairs!EndOfInput(c) \/ Pairs!Kill(c)
    PROVE  PairsInv'
<1>. USE DEF Pairs!Ended, Pairs!Listening
<1>1. /\ \/ state[c] = "unlink" /\ state' = [state EXCEPT ![c] = "bind"] /\ kills' = kills
         \/ state[c] = "bind" /\ state' = [state EXCEPT ![c] = "connect"] /\ kills' = kills
         \/ /\ state[c] \in {"bind", "connect"} /\ kills' = kills
            /\ state' = [state EXCEPT ![c] = "exited"]
         \/ /\ state[c] = "send" /\ state' = [state EXCEPT ![c] = "sigpipe"]
            /\ conn[c] # "open" /\ kills' = kills
         \/ /\ state[c] = "send" /\ state' = [state EXCEPT ![c] = "done"]
            /\ program = "server_unix" /\ kills' = kills
         \/ /\ state[c] \notin Pairs!Ended /\ state' = [state EXCEPT ![c] = "killed"]
            /\ kills < MaxKills /\ kills' = kills + 1
      /\ clientName' \in {None, clientName, c}
      /\ UNCHANGED <<program, name, waiting, serving, buf, conn, request, answer, asked, got>>
  BY Apart DEF Pairs!ClientUnlink, Pairs!ClientBind, Pairs!ConnectFails, Pairs!SendBroken,
       Pairs!EndOfInput, Pairs!Kill, Pairs!Goto, Pairs!server, Pairs!stream, Pairs!client
<1>2. /\ kills \in Nat /\ (kills' = 0 => kills = 0) /\ kills' \in 0..MaxKills
  BY <1>1, SocketServersAssumption DEF PairsInv, PairsShape
<1>3. \E l \in {"bind", "connect"} \cup Pairs!Ended : state' = [state EXCEPT ![c] = l]
  BY <1>1
<1>4. PairsShape'
  BY <1>1, <1>2, <1>3, Apart DEF PairsInv, PairsShape
<1>5. \A t \in Servers, d \in Callers : Has(t, d)' <=> Has(t, d)
  BY <1>1 DEF Has
<1>6. (\A s \in Servers : state'[s] = state[s]) /\ \A d \in Callers \ {c} : state'[d] = state[d]
  BY <1>3, Apart DEF PairsInv, PairsShape
<1>7. AtOnePlace'
  BY <1>1, <1>5, <1>6 DEF PairsInv, AtOnePlace
<1>8. /\ state'[c] \notin {"unlink", "send", "recv"}
      /\ state'[c] \in {"bind", "connect"} => state[c] \in {"unlink", "bind", "connect"}
      /\ state'[c] \in Pairs!Ended \/ state[c] \in {"unlink", "bind"}
      /\ state'[c] = "done" => program = "server_unix" /\ state[c] = "send"
  BY <1>1 DEF PairsInv, PairsShape
<1>9. ASSUME NEW d \in Callers PROVE Connected(d)' /\ InTurn(d)' /\ Got(d)' /\ OneText(d)'
  <2>2. Connected(d) /\ InTurn(d) /\ Got(d) /\ OneText(d)
    BY DEF PairsInv
  <2>3. CASE d # c
    BY <1>1, <1>2, <1>5, <1>6, <2>2, <2>3 DEF Connected, InTurn, Got, OneText
  <2>4. CASE d = c
    BY <1>1, <1>2, <1>5, <1>8, <2>2, <2>4 DEF Connected, InTurn, Got, OneText
  <2>. QED BY <2>3, <2>4
<1>10. ASSUME NEW t \in Servers PROVE Answers(t)'
  <2>1. state[t] = "write" => serving[t] \in Callers /\ state[serving[t]] \notin {"unlink", "bind"}
    BY Serves
  <2>. QED BY <1>1, <1>6, <1>8, <2>1 DEF PairsInv, Answers
<1>11. Unbroken'
  <2>. SUFFICES ASSUME program # "unix_domain", kills = 0, kills' = 0
                PROVE  Unbroken'
    BY <1>1, <1>2 DEF Unbroken
  <2>1. Unbroken
    BY DEF PairsInv
  <2>2. state[c] = "send" => conn[c] = "open"
    BY <2>1 DEF Unbroken, PairsInv, Connected
  <2>3. \A p \in Servers \cup Callers : state'[p] # "sigpipe"
    BY <1>1, <1>6, <2>1, <2>2 DEF PairsInv, PairsShape, Unbroken
  <2>4. \A t \in Servers : state'[t] = "write" => state'[serving[t]] = "recv"
    <3>1. \A t \in Servers : state[t] = "write" => serving[t] \in Callers
      BY Serves
    <3>2. state[c] # "recv"
      BY <1>1, <1>2 DEF PairsInv, PairsShape
    <3>. QED BY <1>6, <2>1, <3>1, <3>2 DEF Unbroken
  <2>5. ASSUME NEW t \in Servers, NEW d \in Callers, Has(t, d), state'[d] \in Pairs!Ended
        PROVE  program = "server_unix" /\ request[d] = << >>
    <3>1. CASE d # c
      BY <1>6, <2>1, <2>5, <3>1 DEF Unbroken
    <3>2. CASE d = c
      <4>1. Connected(c) /\ InTurn(c)
        BY DEF PairsInv
      <4>2. state[c] \notin {"unlink", "bind", "connect"}
        BY <2>5, <3>2, <4>1 DEF Connected
      <4>3. state[c] = "send" /\ conn[c] = "open"
        BY <1>1, <1>2, <2>2, <4>2 DEF PairsInv, PairsShape
      <4>4. program = "server_unix"
        BY <1>1, <1>2, <4>3 DEF PairsInv, PairsShape
      <4>. QED BY <3>2, <4>1, <4>3, <4>4 DEF InTurn
    <3>. QED BY <3>1, <3>2
  <2>. QED BY <1>1, <1>5, <2>1, <2>3, <2>4, <2>5 DEF Unbroken
<1>. QED BY <1>4, <1>7, <1>9, <1>10, <1>11 DEF PairsInv

\* Accept moves a connection inside the server that has it.
LEMMA StepTake ==
    ASSUME PairsInv, NEW s \in Servers, Pairs!Accept(s)
    PROVE  PairsInv'
<1>. USE DEF Pairs!Ended, Pairs!Listening
<1>1. /\ state[s] = "accept" /\ state' = [state EXCEPT ![s] = "read"]
      /\ waiting[s] # << >>
      /\ serving' = [serving EXCEPT ![s] = Head(waiting[s])]
      /\ waiting' = [waiting EXCEPT ![s] = Tail(waiting[s])]
      /\ UNCHANGED <<program, name, clientName, buf, conn, request, answer, asked, got, kills>>
  BY DEF Pairs!Accept, Pairs!Goto, Pairs!stream, Pairs!client
<1>2. waiting[s] \in Seq(Callers) /\ Pairs!IsInjective(waiting[s]) /\ serving[s] = None
  BY <1>1 DEF PairsInv, PairsShape, AtOnePlace
<1>3. /\ Head(waiting[s]) \in Callers /\ Tail(waiting[s]) \in Seq(Callers)
      /\ Pairs!IsInjective(Tail(waiting[s]))
      /\ Head(waiting[s]) \notin Pairs!Range(Tail(waiting[s]))
      /\ \A y : y \in Pairs!Range(waiting[s])
                  <=> y \in Pairs!Range(Tail(waiting[s])) \/ y = Head(waiting[s])
  BY <1>1, <1>2, LeaveLine
<1>4. PairsShape'
  BY <1>1, <1>3, Apart DEF PairsInv, PairsShape
<1>5. /\ \A t \in Servers \ {s} : /\ serving'[t] = serving[t] /\ waiting'[t] = waiting[t]
                                  /\ state'[t] = state[t]
      /\ serving'[s] = Head(waiting[s]) /\ waiting'[s] = Tail(waiting[s]) /\ state'[s] = "read"
      /\ \A c \in Callers : state'[c] = state[c]
  BY <1>1, Apart DEF PairsInv, PairsShape
<1>6. \A t \in Servers, c \in Callers : Has(t, c)' <=> Has(t, c)
  BY <1>2, <1>3, <1>5, Apart DEF Has
<1>7. AtOnePlace'
  <2>1. \A t \in Servers :
          /\ state'[t] \notin Pairs!Listening => waiting'[t] = << >>
          /\ serving'[t] # None <=> state'[t] \in {"read", "write"}
          /\ Pairs!IsInjective(waiting'[t])
          /\ serving'[t] \notin Pairs!Range(waiting'[t])
    BY <1>3, <1>5, Apart DEF PairsInv, AtOnePlace
  <2>. QED BY <1>6, <2>1 DEF PairsInv, AtOnePlace
<1>8. ASSUME NEW c \in Callers PROVE Connected(c)' /\ InTurn(c)' /\ Got(c)' /\ OneText(c)'
  <2>1. Connected(c) /\ InTurn(c) /\ Got(c) /\ OneText(c)
    BY DEF PairsInv
  <2>. QED BY <1>1, <1>5, <1>6, <2>1 DEF Connected, InTurn, Got, OneText
<1>9. ASSUME NEW t \in Servers PROVE Answers(t)'
  <2>1. state'[t] = "write" => t # s /\ state[t] = "write"
    BY <1>5
  <2>2. state[t] = "write" => serving[t] \in Callers
    BY Serves
  <2>. QED BY <1>1, <1>5, <2>1, <2>2 DEF PairsInv, Answers
<1>10. Unbroken'
  <2>1. \A t \in Servers : state'[t] = "write" => /\ t # s /\ state[t] = "write"
                                                  /\ serving[t] \in Callers
    BY <1>5, Serves
  <2>. QED BY <1>1, <1>5, <1>6, <2>1 DEF PairsInv, Unbroken
<1>. QED BY <1>4, <1>7, <1>8, <1>9, <1>10 DEF PairsInv

\* A text of a live client is the one it waits for the answer to.
LEMMA StepRead ==
    ASSUME PairsInv, NEW s \in Servers, Pairs!Read(s)
    PROVE  PairsInv'
<1>. USE DEF Pairs!Ended, Pairs!Listening
<1>. DEFINE c == serving[s]
<1>1. /\ state[s] = "read" /\ state' = [state EXCEPT ![s] = "write"]
      /\ request[c] # << >>
      /\ buf' = [buf EXCEPT ![s] = Head(request[c])]
      /\ request' = [request EXCEPT ![c] = Tail(request[c])]
      /\ UNCHANGED <<program, name, clientName, waiting, serving, conn, answer, asked, got, kills>>
  BY DEF Pairs!Read, Pairs!Goto, Pairs!client
<1>2. c \in Callers /\ Has(s, c) /\ conn[c] = "open"
  BY <1>1, Serves
<1>3. request[c] = <<Head(request[c])>> /\ Head(request[c]) \in Pairs!Texts
      /\ Tail(request[c]) = << >>
  <2>1. request[c] \in Single
    BY <1>2 DEF PairsInv, PairsShape
  <2>. QED BY <1>1, <2>1, SingleText
<1>4. /\ buf'[s] = Head(request[c]) /\ state'[s] = "write" /\ request'[c] = << >>
      /\ \A t \in Servers \ {s} : buf'[t] = buf[t] /\ state'[t] = state[t]
      /\ \A d \in Callers : state'[d] = state[d] /\ (d # c => request'[d] = request[d])
  BY <1>1, <1>2, <1>3, Apart DEF PairsInv, PairsShape
<1>5. PairsShape'
  <2>1. << >> \in Single
    BY DEF Single
  <2>. QED BY <1>1, <1>2, <1>3, <2>1, Apart DEF PairsInv, PairsShape
<1>6. \A t \in Servers, d \in Callers : Has(t, d)' <=> Has(t, d)
  BY <1>1 DEF Has
<1>7. AtOnePlace'
  BY <1>1, <1>4, <1>6 DEF PairsInv, AtOnePlace
<1>8. ASSUME NEW d \in Callers PROVE Connected(d)' /\ InTurn(d)' /\ Got(d)' /\ OneText(d)'
  <2>1. Connected(d) /\ InTurn(d) /\ Got(d) /\ OneText(d)
    BY DEF PairsInv
  <2>. QED BY <1>1, <1>4, <1>6, <2>1 DEF Connected, InTurn, Got, OneText
<1>9. ASSUME NEW t \in Servers PROVE Answers(t)'
  <2>1. CASE t # s
    <3>1. state[t] = "write" => serving[t] \in Callers /\ Has(t, serving[t])
      BY Serves
    <3>2. state[t] = "write" => serving[t] # c
      BY <1>2, <2>1, <3>1 DEF PairsInv, AtOnePlace
    <3>. QED BY <1>1, <1>4, <2>1, <3>1, <3>2 DEF PairsInv, Answers
  <2>2. CASE t = s
    <3>. SUFFICES ASSUME state[c] \notin Pairs!Ended
                  PROVE  /\ state[c] = "recv" /\ buf'[s] = <<c, asked[c]>>
                         /\ request'[c] = << >> /\ answer[c] = << >>
      BY <1>1, <1>2, <1>4, <2>2 DEF Answers
    <3>1. state[c] \in {"send", "recv"}
      BY <1>1, Serves
    <3>2. InTurn(c)
      BY <1>2 DEF PairsInv
    <3>3. state[c] = "recv" /\ request[c] = <<<<c, asked[c]>>>> /\ answer[c] = << >>
      BY <1>1, <3>1, <3>2 DEF InTurn
    <3>. QED BY <1>4, <3>3
  <2>. QED BY <2>1, <2>2
<1>10. Unbroken'
  <2>. SUFFICES ASSUME program # "unix_domain", kills = 0
                PROVE  Unbroken'
    BY <1>1 DEF Unbroken
  <2>1. Unbroken
    BY DEF PairsInv
  <2>2. state[c] = "recv"
    <3>1. state[c] \notin Pairs!Ended
      BY <1>1, <1>2, <2>1 DEF Unbroken
    <3>2. state[c] \in {"send", "recv"} /\ InTurn(c)
      BY <1>1, <1>2, <3>1, Serves DEF PairsInv
    <3>. QED BY <1>1, <3>2 DEF InTurn
  <2>3. \A t \in Servers : state'[t] = "write" => state'[serving[t]] = "recv"
    <3>1. \A t \in Servers : state[t] = "write" => serving[t] \in Callers
      BY Serves
    <3>. QED BY <1>2, <1>4, <2>1, <2>2, <3>1 DEF Unbroken
  <2>. QED BY <1>1, <1>4, <1>6, <2>1, <2>3 DEF Unbroken
<1>. QED BY <1>5, <1>7, <1>8, <1>9, <1>10 DEF PairsInv

\* A server that has taken an end for one, or for nothing, or lost its answer.
LEMMA StepReadEnds ==
    ASSUME PairsInv, NEW s \in Servers,
           Pairs!ReadEnd(s) \/ Pairs!ReadNothing(s) \/ Pairs!WriteLost(s)
    PROVE  PairsInv'
<1>. USE DEF Pairs!Ended, Pairs!Listening
<1>. DEFINE c == serving[s]
<1>1. /\ state[s] \in {"read", "write"} /\ state[c] \in Pairs!Ended
      /\ \/ /\ program = "server_unix" /\ state' = [state EXCEPT ![s] = "accept"]
            /\ serving' = [serving EXCEPT ![s] = None]
         \/ /\ program = "unix_domain" /\ state' = [state EXCEPT ![s] = "write"]
            /\ serving' = serving
         \/ /\ program = "socket_server" /\ state' = [state EXCEPT ![s] = "read"]
            /\ serving' = serving
      /\ UNCHANGED <<program, name, clientName, waiting, buf, conn, request, answer, asked,
                     got, kills>>
  <2>1. program \in {"server_unix", "unix_domain", "socket_server"}
    BY DEF PairsInv, PairsShape
  <2>. QED BY <2>1 DEF Pairs!ReadEnd, Pairs!ReadNothing, Pairs!WriteLost, Pairs!StreamEnds,
               Pairs!Goto, Pairs!Unix, Pairs!server, Pairs!stream, Pairs!client
<1>2. c \in Callers /\ Has(s, c) /\ c # None
  BY <1>1, Serves, Apart
<1>3. PairsShape'
  BY <1>1, Apart DEF PairsInv, PairsShape
<1>4. /\ \A t \in Servers \ {s} : state'[t] = state[t] /\ serving'[t] = serving[t]
      /\ \A d \in Callers : state'[d] = state[d]
      /\ \/ state'[s] = "accept" /\ serving'[s] = None
         \/ state'[s] \in {"read", "write"} /\ serving'[s] = c
  BY <1>1, Apart DEF PairsInv, PairsShape
<1>5. \A t \in Servers, d \in Callers : Has(t, d)' => Has(t, d)
  BY <1>1, <1>4, Apart DEF Has
<1>6. AtOnePlace'
  <2>1. \A t \in Servers : /\ state'[t] \notin Pairs!Listening => waiting'[t] = << >>
                           /\ serving'[t] # None <=> state'[t] \in {"read", "write"}
    BY <1>1, <1>2, <1>4 DEF PairsInv, AtOnePlace
  <2>2. None \notin Pairs!Range(waiting[s])
    <3>1. waiting[s] \in Seq(Callers)
      BY DEF PairsInv, PairsShape
    <3>2. \A k \in DOMAIN waiting[s] : waiting[s][k] \in Callers
      BY <3>1
    <3>. QED BY <3>2, Apart DEF Pairs!Range
  <2>3. \A t \in Servers : /\ Pairs!IsInjective(waiting'[t])
                           /\ serving'[t] \notin Pairs!Range(waiting'[t])
    BY <1>1, <1>4, <2>2 DEF PairsInv, AtOnePlace
  <2>. QED BY <1>5, <2>1, <2>3 DEF PairsInv, AtOnePlace
<1>7. ASSUME NEW d \in Callers PROVE Connected(d)' /\ InTurn(d)' /\ Got(d)' /\ OneText(d)'
  <2>1. Connected(d) /\ InTurn(d) /\ Got(d) /\ OneText(d)
    BY DEF PairsInv
  <2>. QED BY <1>1, <1>4, <1>5, <2>1 DEF Connected, InTurn, Got, OneText
<1>8. ASSUME NEW t \in Servers PROVE Answers(t)'
  <2>1. CASE t # s
    <3>1. state[t] = "write" => serving[t] \in Callers
      BY Serves
    <3>. QED BY <1>1, <1>4, <2>1, <3>1 DEF PairsInv, Answers
  <2>2. CASE t = s
    BY <1>1, <1>2, <1>4, <2>2 DEF Answers
  <2>. QED BY <2>1, <2>2
<1>9. Unbroken'
  <2>. SUFFICES ASSUME program # "unix_domain", kills = 0
                PROVE  Unbroken'
    BY <1>1 DEF Unbroken
  <2>1. Unbroken
    BY DEF PairsInv
  <2>2. state'[s] # "write" /\ state'[s] # "sigpipe"
    BY <1>1 DEF PairsInv, PairsShape
  <2>3. \A t \in Servers : state'[t] = "write" => state'[serving'[t]] = "recv"
    <3>1. \A t \in Servers : state[t] = "write" => serving[t] \in Callers
      BY Serves
    <3>. QED BY <1>4, <2>1, <2>2, <3>1 DEF Unbroken
  <2>. QED BY <1>1, <1>4, <1>5, <2>1, <2>2, <2>3 DEF Unbroken
<1>. QED BY <1>3, <1>6, <1>7, <1>8, <1>9 DEF PairsInv

\* The answer goes into an empty stream.
LEMMA StepWrite ==
    ASSUME PairsInv, NEW s \in Servers, Pairs!Write(s), program # "unix_domain"
    PROVE  PairsInv'
<1>. USE DEF Pairs!Ended, Pairs!Listening
<1>. DEFINE c == serving[s]
<1>1. /\ state[s] = "write" /\ state[c] \notin Pairs!Ended
      /\ state' = [state EXCEPT ![s] = "read"]
      /\ answer' = [answer EXCEPT ![c] = Append(answer[c], buf[s])]
      /\ UNCHANGED <<program, name, clientName, waiting, serving, buf, conn, request, asked, got,
                     kills>>
  BY DEF Pairs!Write, Pairs!Goto, Pairs!server, Pairs!client
<1>2. c \in Callers /\ Has(s, c) /\ conn[c] = "open"
  BY <1>1, Serves
<1>3. /\ state[c] = "recv" /\ buf[s] = <<c, asked[c]>>
      /\ request[c] = << >> /\ answer[c] = << >>
  BY <1>1 DEF PairsInv, Answers
<1>4. Append(answer[c], buf[s]) = <<<<c, asked[c]>>>>
  BY <1>3
<1>5. /\ answer'[c] = <<<<c, asked[c]>>>> /\ \A d \in Callers \ {c} : answer'[d] = answer[d]
      /\ state'[s] = "read"
      /\ \A t \in Servers \ {s} : state'[t] = state[t]
      /\ \A d \in Callers : state'[d] = state[d]
  BY <1>1, <1>2, <1>4, Apart DEF PairsInv, PairsShape
<1>6. PairsShape'
  <2>1. <<c, asked[c]>> \in Pairs!Texts
    BY <1>2, <1>3, Apart, SocketServersAssumption DEF PairsInv, PairsShape, InTurn, Pairs!Texts
  <2>2. <<<<c, asked[c]>>>> \in Single
    BY <2>1 DEF Single
  <2>. QED BY <1>1, <1>2, <1>4, <2>2, Apart DEF PairsInv, PairsShape
<1>7. \A t \in Servers, d \in Callers : Has(t, d)' <=> Has(t, d)
  BY <1>1 DEF Has
<1>8. AtOnePlace'
  BY <1>1, <1>5, <1>7 DEF PairsInv, AtOnePlace
<1>9. ASSUME NEW d \in Callers PROVE Connected(d)' /\ InTurn(d)' /\ Got(d)' /\ OneText(d)'
  <2>1. Connected(d) /\ InTurn(d) /\ Got(d) /\ OneText(d)
    BY DEF PairsInv
  <2>. QED BY <1>1, <1>2, <1>3, <1>5, <1>7, <2>1 DEF Connected, InTurn, Got, OneText
<1>10. ASSUME NEW t \in Servers PROVE Answers(t)'
  <2>1. state'[t] = "write" => t # s /\ state[t] = "write"
    BY <1>5
  <2>2. state[t] = "write" => serving[t] \in Callers /\ Has(t, serving[t])
    BY Serves
  <2>3. state'[t] = "write" => serving[t] # c
    BY <1>2, <2>1, <2>2 DEF PairsInv, AtOnePlace
  <2>. QED BY <1>1, <1>5, <2>1, <2>2, <2>3 DEF PairsInv, Answers
<1>11. Unbroken'
  <2>1. \A t \in Servers : state'[t] = "write" => state[t] = "write" /\ serving[t] \in Callers
    BY <1>5, Serves
  <2>. QED BY <1>1, <1>5, <1>7, <2>1 DEF PairsInv, Unbroken
<1>. QED BY <1>6, <1>8, <1>9, <1>10, <1>11 DEF PairsInv

\* A server ends: it closes what it has, after its last answer or without one.
LEMMA StepGone ==
    ASSUME PairsInv, NEW s \in Servers,
           \/ Pairs!ReadEndReturns(s) \/ Pairs!WriteBroken(s) \/ Pairs!Kill(s)
           \/ Pairs!Write(s) /\ program = "unix_domain"
    PROVE  PairsInv'
<1>. USE DEF Pairs!Ended, Pairs!Listening
<1>. DEFINE c == serving[s]
            Last == /\ program = "unix_domain" /\ state[s] = "write" /\ state[c] \notin Pairs!Ended
                    /\ answer' = [answer EXCEPT ![c] = Append(answer[c], buf[s])]
<1>1. /\ \E l \in {"done", "sigpipe", "killed"} : state' = [state EXCEPT ![s] = l]
      /\ Pairs!Gone(s)
      /\ UNCHANGED <<program, clientName, asked, got>>
      /\ \/ Last /\ kills' = kills
         \/ /\ state[s] = "write" /\ state[c] \in Pairs!Ended
            /\ answer' = answer /\ kills' = kills
         \/ /\ program = "socket_server" /\ state[s] = "read" /\ state[c] \in Pairs!Ended
            /\ answer' = answer /\ kills' = kills
         \/ answer' = answer /\ kills' = kills + 1 /\ kills < MaxKills
  BY DEF Pairs!ReadEndReturns, Pairs!WriteBroken, Pairs!Kill, Pairs!Write, Pairs!StreamEnds,
         Pairs!Goto, Pairs!client
<1>2. /\ kills \in Nat /\ kills' \in 0..MaxKills /\ (kills' = 0 => kills = 0)
      /\ kills' = 0 => \/ Last
                       \/ state[s] = "write" /\ state[c] \in Pairs!Ended
                       \/ /\ program = "socket_server" /\ state[s] = "read"
                          /\ state[c] \in Pairs!Ended
  <2>1. kills \in 0..MaxKills
    BY DEF PairsInv, PairsShape
  <2>. HIDE DEF Last, c
  <2>. QED BY <1>1, <2>1, SocketServersAssumption
<1>3. /\ waiting' = [waiting EXCEPT ![s] = << >>] /\ serving' = [serving EXCEPT ![s] = None]
      /\ buf' = [buf EXCEPT ![s] = None] /\ name' \in {None, name}
      /\ conn' = [d \in Callers |->
                    IF d \in Pairs!Range(waiting[s]) THEN "reset"
                    ELSE IF d # c THEN conn[d]
                    ELSE IF request[d] = << >> THEN "eof" ELSE "reset"]
      /\ request' = [d \in Callers |->
                       IF d \in Pairs!Range(waiting[s]) \cup {c} THEN << >> ELSE request[d]]
  BY <1>1 DEF Pairs!Gone
<1>4. ASSUME NEW d \in Callers
      PROVE  /\ ~ Has(s, d) => conn'[d] = conn[d] /\ request'[d] = request[d]
             /\ Has(s, d) => conn'[d] \in {"eof", "reset"} /\ request'[d] = << >>
             /\ Has(s, d) /\ conn'[d] = "eof" => d = c
  BY <1>3 DEF Has
<1>5. Last => /\ c \in Callers /\ Has(s, c) /\ conn[c] = "open" /\ state[c] = "recv"
              /\ answer'[c] = <<<<c, asked[c]>>>>
              /\ <<c, asked[c]>> \in Pairs!Texts
  <2>. SUFFICES ASSUME Last
                PROVE  /\ c \in Callers /\ Has(s, c) /\ conn[c] = "open" /\ state[c] = "recv"
                       /\ answer'[c] = <<<<c, asked[c]>>>>
                       /\ <<c, asked[c]>> \in Pairs!Texts
    OBVIOUS
  <2>1. c \in Callers /\ Has(s, c) /\ conn[c] = "open"
    BY Serves
  <2>2. state[c] = "recv" /\ buf[s] = <<c, asked[c]>> /\ answer[c] = << >>
    BY DEF PairsInv, Answers
  <2>3. Append(answer[c], buf[s]) = <<<<c, asked[c]>>>>
    BY <2>2
  <2>4. <<c, asked[c]>> \in Pairs!Texts
    BY <2>1, <2>2, Apart, SocketServersAssumption DEF PairsInv, PairsShape, InTurn, Pairs!Texts
  <2>. QED BY <2>1, <2>2, <2>3, <2>4 DEF PairsInv, PairsShape
<1>6. \A d \in Callers : answer'[d] = answer[d] \/ (Last /\ d = c)
  <2>1. CASE answer' = answer
    BY <2>1
  <2>2. CASE Last
    BY <1>5, <2>2 DEF PairsInv, PairsShape
  <2>. QED BY <1>1, <2>1, <2>2
<1>7. /\ state'[s] \in {"done", "sigpipe", "killed"}
      /\ \A t \in Servers \ {s} : /\ state'[t] = state[t] /\ waiting'[t] = waiting[t]
                                  /\ serving'[t] = serving[t] /\ buf'[t] = buf[t]
      /\ \A d \in Callers : state'[d] = state[d]
      /\ waiting'[s] = << >> /\ serving'[s] = None
  BY <1>1, <1>3, Apart DEF PairsInv, PairsShape
<1>8. \A t \in Servers, d \in Callers : Has(t, d)' <=> Has(t, d) /\ t # s
  BY <1>7, Apart, EmptyLine DEF Has
<1>9. PairsShape'
  <2>1. /\ conn' \in [Callers -> {"none", "open", "eof", "reset"}]
        /\ request' \in [Callers -> Single]
    <3>1. << >> \in Single
      BY DEF Single
    <3>. QED BY <1>3, <3>1 DEF PairsInv, PairsShape
  <2>2. answer' \in [Callers -> Single]
    <3>1. CASE Last
      <4>1. answer'[c] \in Single
        BY <1>5, <3>1 DEF Single
      <4>2. answer' = [answer EXCEPT ![c] = answer'[c]]
        BY <1>5, <3>1 DEF PairsInv, PairsShape
      <4>. QED BY <4>1, <4>2 DEF PairsInv, PairsShape
    <3>2. CASE answer' = answer
      BY <3>2 DEF PairsInv, PairsShape
    <3>. QED BY <1>1, <3>1, <3>2
  <2>3. << >> \in Seq(Callers)
    OBVIOUS
  <2>. HIDE DEF Last
  <2>. QED BY <1>1, <1>2, <1>3, <2>1, <2>2, <2>3, Apart DEF PairsInv, PairsShape
<1>10. AtOnePlace'
  <2>1. \A t \in Servers :
          /\ state'[t] \notin Pairs!Listening => waiting'[t] = << >>
          /\ serving'[t] # None <=> state'[t] \in {"read", "write"}
          /\ Pairs!IsInjective(waiting'[t])
          /\ serving'[t] \notin Pairs!Range(waiting'[t])
    BY <1>7, EmptyLine, EmptyInjective DEF PairsInv, AtOnePlace
  <2>. QED BY <1>8, <2>1 DEF PairsInv, AtOnePlace
<1>11. ASSUME NEW d \in Callers PROVE Connected(d)' /\ InTurn(d)' /\ Got(d)' /\ OneText(d)'
  <2>1. Connected(d) /\ InTurn(d) /\ Got(d) /\ OneText(d)
    BY DEF PairsInv
  <2>. HIDE DEF Last
  <2>2. Connected(d)'
    <3>1. Last /\ d = c => state[d] = "recv"
      BY <1>5
    <3>2. state'[d] = state[d] /\ asked'[d] = asked[d] /\ got'[d] = got[d]
      BY <1>1, <1>7
    <3>3. state[d] \in {"unlink", "bind", "connect"} => answer'[d] = answer[d] /\ ~ Has(s, d)
      BY <1>6, <2>1, <3>1 DEF Connected
    <3>4. \A t \in Servers : Has(t, d)' => conn'[d] = "open"
      BY <1>4, <1>8, <2>1 DEF AtOnePlace, PairsInv, Connected
    <3>5. conn'[d] # "open" => request'[d] = << >>
      BY <1>4, <2>1 DEF Connected
    <3>6. state[d] \in {"send", "recv"} => conn'[d] # "none"
      BY <1>4, <2>1 DEF Connected
    <3>7. state[d] \in {"unlink", "bind", "connect"} => \A t \in Servers : ~ Has(t, d)'
      BY <1>8, <2>1 DEF Connected
    <3>. QED BY <1>4, <2>1, <3>2, <3>3, <3>4, <3>5, <3>6, <3>7 DEF Connected
  <2>3. InTurn(d)'
    BY <1>1, <1>4, <1>5, <1>6, <1>7, <2>1 DEF InTurn, Connected
  <2>4. Got(d)'
    <3>1. Has(s, d) => conn[d] = "open"
      BY <2>1 DEF Connected
    <3>2. Last /\ d = c => conn[d] = "open"
      BY <1>5
    <3>. QED BY <1>1, <1>4, <1>6, <2>1, <3>1, <3>2 DEF Got
  <2>5. OneText(d)'
    <3>. SUFFICES ASSUME program = "unix_domain" PROVE OneText(d)'
      BY <1>1 DEF OneText
    <3>1. ASSUME kills' = 0, Has(s, d), conn'[d] = "eof"
          PROVE  state[d] \in Pairs!Ended \/ (Last /\ d = c)
      BY <1>2, <1>4, <3>1
    <3>2. Has(s, d) => conn[d] = "open"
      BY <2>1 DEF Connected
    <3>3. Last /\ d = c => state[d] = "recv" /\ answer'[d] # << >>
      BY <1>5
    <3>4. kills' = 0 /\ state'[d] = "send" => conn'[d] # "eof"
      BY <1>2, <1>4, <1>7, <2>1, <3>1, <3>3 DEF OneText
    <3>5. kills' = 0 /\ state'[d] = "recv" /\ conn'[d] = "eof" => answer'[d] # << >>
      BY <1>2, <1>4, <1>6, <1>7, <2>1, <3>1, <3>2, <3>3 DEF OneText
    <3>. QED BY <1>1, <1>2, <1>7, <2>1, <3>4, <3>5 DEF OneText
  <2>. QED BY <2>2, <2>3, <2>4, <2>5
<1>12. ASSUME NEW t \in Servers PROVE Answers(t)'
  <2>. SUFFICES ASSUME state'[t] = "write" PROVE Answers(t)'
    BY DEF Answers
  <2>1. t # s /\ state[t] = "write"
    BY <1>7
  <2>2. serving[t] \in Callers /\ Has(t, serving[t])
    BY <2>1, Serves
  <2>3. ~ Has(s, serving[t])
    BY <2>1, <2>2 DEF PairsInv, AtOnePlace
  <2>4. ~ (Last /\ serving[t] = c)
    BY <1>5, <2>3
  <2>. HIDE DEF Last
  <2>. QED BY <1>1, <1>4, <1>6, <1>7, <2>1, <2>2, <2>3, <2>4 DEF PairsInv, Answers
<1>13. Unbroken'
  <2>. SUFFICES ASSUME program # "unix_domain", kills' = 0
                PROVE  FALSE
    BY <1>1 DEF Unbroken
  <2>1. Unbroken /\ kills = 0
    BY <1>2 DEF PairsInv
  <2>2. state[s] \in {"read", "write"} /\ state[c] \in Pairs!Ended
        /\ (state[s] = "read" => program = "socket_server")
    BY <1>2
  <2>3. c \in Callers /\ Has(s, c)
    BY <2>2, Serves
  <2>. QED BY <2>1, <2>2, <2>3 DEF Unbroken
<1>. QED BY <1>9, <1>10, <1>11, <1>12, <1>13 DEF PairsInv

\* A client that connects was nowhere before.
LEMMA StepConnect ==
    ASSUME PairsInv, NEW c \in Callers, Pairs!Connect(c)
    PROVE  PairsInv'
<1>. USE DEF Pairs!Ended, Pairs!Listening
<1>1. /\ name \in Servers /\ state[name] \in Pairs!Listening
      /\ state[c] = "connect" /\ state' = [state EXCEPT ![c] = "send"]
      /\ waiting' = [waiting EXCEPT ![name] = Append(waiting[name], c)]
      /\ conn' = [conn EXCEPT ![c] = "open"]
      /\ UNCHANGED <<program, name, clientName, serving, buf, request, answer, asked, got, kills>>
  BY DEF Pairs!Connect, Pairs!Up, Pairs!Goto, Pairs!stream, Pairs!client
<1>2. PICK s \in Servers : name = s
  BY <1>1
<1>3. /\ conn[c] = "none" /\ answer[c] = << >> /\ request[c] = << >>
      /\ asked[c] = 0 /\ got[c] = << >>
      /\ \A t \in Servers : ~ Has(t, c)
  <2>1. Connected(c)
    BY DEF PairsInv
  <2>. QED BY <1>1, <2>1 DEF Connected
<1>4. /\ Append(waiting[s], c) \in Seq(Callers)
      /\ Pairs!IsInjective(Append(waiting[s], c))
      /\ \A y : y \in Pairs!Range(Append(waiting[s], c)) <=> y \in Pairs!Range(waiting[s]) \/ y = c
  <2>1. waiting[s] \in Seq(Callers) /\ Pairs!IsInjective(waiting[s]) /\ c \notin Pairs!Range(waiting[s])
    BY <1>3 DEF PairsInv, PairsShape, AtOnePlace, Has
  <2>. QED BY <2>1, JoinLine
<1>5. /\ state'[c] = "send" /\ \A d \in Callers \ {c} : state'[d] = state[d] /\ conn'[d] = conn[d]
      /\ conn'[c] = "open"
      /\ \A t \in Servers : state'[t] = state[t]
      /\ waiting'[s] = Append(waiting[s], c) /\ \A t \in Servers \ {s} : waiting'[t] = waiting[t]
  BY <1>1, <1>2, Apart DEF PairsInv, PairsShape
<1>6. \A t \in Servers, d \in Callers : Has(t, d)' <=> Has(t, d) \/ (t = s /\ d = c)
  BY <1>1, <1>4, <1>5 DEF Has
<1>7. PairsShape'
  BY <1>1, <1>2, <1>4, Apart DEF PairsInv, PairsShape
<1>8. AtOnePlace'
  <2>1. serving[s] # c
    BY <1>3 DEF Has
  <2>2. \A t \in Servers :
          /\ state'[t] \notin Pairs!Listening => waiting'[t] = << >>
          /\ serving'[t] # None <=> state'[t] \in {"read", "write"}
          /\ Pairs!IsInjective(waiting'[t])
          /\ serving'[t] \notin Pairs!Range(waiting'[t])
    <3>. TAKE t \in Servers
    <3>1. CASE t = s
      BY <1>1, <1>2, <1>4, <1>5, <2>1, <3>1 DEF PairsInv, AtOnePlace
    <3>2. CASE t # s
      BY <1>1, <1>5, <3>2 DEF PairsInv, AtOnePlace
    <3>. QED BY <3>1, <3>2
  <2>. QED BY <1>3, <1>6, <2>2 DEF PairsInv, AtOnePlace
<1>9. ASSUME NEW d \in Callers PROVE Connected(d)' /\ InTurn(d)' /\ Got(d)' /\ OneText(d)'
  <2>1. Connected(d) /\ InTurn(d) /\ Got(d) /\ OneText(d)
    BY DEF PairsInv
  <2>2. CASE d # c
    BY <1>1, <1>5, <1>6, <2>1, <2>2 DEF Connected, InTurn, Got, OneText
  <2>3. CASE d = c
    <3>1. Len(got[c]) = 0
      BY <1>3
    <3>. QED BY <1>1, <1>3, <1>5, <2>3, <3>1 DEF Connected, InTurn, Got, OneText
  <2>. QED BY <2>2, <2>3
<1>10. ASSUME NEW t \in Servers PROVE Answers(t)'
  <2>1. state[t] = "write" => serving[t] \in Callers /\ serving[t] # c
    BY <1>3, Serves
  <2>. QED BY <1>1, <1>5, <2>1 DEF PairsInv, Answers
<1>11. Unbroken'
  <2>1. \A t \in Servers : state[t] = "write" => serving[t] \in Callers /\ serving[t] # c
    BY <1>3, Serves
  <2>. QED BY <1>1, <1>5, <1>6, <2>1 DEF PairsInv, Unbroken
<1>. QED BY <1>7, <1>8, <1>9, <1>10, <1>11 DEF PairsInv

\* A client writes its next text, which arrives or is lost with the server.
LEMMA StepSend ==
    ASSUME PairsInv, NEW c \in Callers, Pairs!Send(c) \/ Pairs!SendLost(c)
    PROVE  PairsInv'
<1>. USE DEF Pairs!Ended, Pairs!Listening
<1>. DEFINE m == <<c, asked[c] + 1>>
<1>1. /\ state[c] = "send" /\ state' = [state EXCEPT ![c] = "recv"] /\ asked[c] < MaxRequests
      /\ asked' = [asked EXCEPT ![c] = asked[c] + 1]
      /\ UNCHANGED <<program, name, clientName, waiting, serving, buf, conn, answer, got, kills>>
      /\ \/ conn[c] = "open" /\ request' = [request EXCEPT ![c] = Append(request[c], <<c, asked'[c]>>)]
         \/ conn[c] # "open" /\ program = "socket_server" /\ request' = request
  <2>1. program \in {"server_unix", "unix_domain", "socket_server"}
    BY DEF PairsInv, PairsShape
  <2>. QED BY <2>1 DEF Pairs!Send, Pairs!SendLost, Pairs!Goto, Pairs!Unix, Pairs!server,
                       Pairs!stream, Pairs!client
<1>2. /\ Len(got[c]) = asked[c] /\ request[c] = << >> /\ answer[c] = << >> /\ asked[c] \in Nat
      /\ m \in Pairs!Texts
  BY <1>1, SocketServersAssumption DEF PairsInv, PairsShape, InTurn, Pairs!Texts
<1>3. /\ asked'[c] = asked[c] + 1 /\ state'[c] = "recv"
      /\ (request'[c] = <<m>> /\ conn[c] = "open") \/ (request'[c] = << >> /\ conn[c] # "open")
      /\ \A d \in Callers \ {c} : /\ state'[d] = state[d] /\ asked'[d] = asked[d]
                                  /\ request'[d] = request[d]
      /\ \A t \in Servers : state'[t] = state[t]
      /\ request' \in [Callers -> Single]
  <2>1. asked'[c] = asked[c] + 1
    BY <1>1 DEF PairsInv, PairsShape
  <2>2. Append(request[c], <<c, asked'[c]>>) = <<m>>
    BY <1>2, <2>1
  <2>3. <<m>> \in Single
    BY <1>2 DEF Single
  <2>4. request' = request \/ request' = [request EXCEPT ![c] = <<m>>]
    BY <1>1, <2>2
  <2>5. request' \in [Callers -> Single]
    BY <2>3, <2>4 DEF PairsInv, PairsShape
  <2>6. (request'[c] = <<m>> /\ conn[c] = "open") \/ (request'[c] = << >> /\ conn[c] # "open")
    <3>1. CASE conn[c] = "open"
      <4>1. request' = [request EXCEPT ![c] = <<m>>]
        BY <1>1, <2>2, <3>1
      <4>2. DOMAIN request = Callers
        BY DEF PairsInv, PairsShape
      <4>. HIDE DEF m
      <4>3. request'[c] = <<m>>
        BY <4>1, <4>2
      <4>. QED BY <3>1, <4>3
    <3>2. CASE conn[c] # "open"
      BY <1>1, <1>2, <3>2
    <3>. QED BY <3>1, <3>2
  <2>7. \A d \in Callers \ {c} : request'[d] = request[d]
    BY <2>4 DEF PairsInv, PairsShape
  <2>. QED BY <1>1, <2>1, <2>5, <2>6, <2>7, Apart DEF PairsInv, PairsShape
<1>4. PairsShape'
  <2>1. asked[c] + 1 \in 0..MaxRequests
    BY <1>1, <1>2, SocketServersAssumption
  <2>. QED BY <1>1, <1>3, <2>1, Apart DEF PairsInv, PairsShape
<1>5. \A t \in Servers, d \in Callers : Has(t, d)' <=> Has(t, d)
  BY <1>1 DEF Has
<1>6. AtOnePlace'
  BY <1>1, <1>3, <1>5 DEF PairsInv, AtOnePlace
<1>7. ASSUME NEW d \in Callers PROVE Connected(d)' /\ InTurn(d)' /\ Got(d)' /\ OneText(d)'
  <2>1. Connected(d) /\ InTurn(d) /\ Got(d) /\ OneText(d)
    BY DEF PairsInv
  <2>2. CASE d # c
    BY <1>1, <1>3, <1>5, <2>1, <2>2 DEF Connected, InTurn, Got, OneText
  <2>3. CASE d = c
    <3>1. Connected(c)'
      BY <1>1, <1>3, <1>5, <2>1, <2>3 DEF Connected
    <3>2. InTurn(c)'
      BY <1>1, <1>2, <1>3 DEF InTurn
    <3>3. Got(c)'
      BY <1>1, <2>1, <2>3 DEF Got
    <3>4. OneText(c)'
      <4>. SUFFICES ASSUME program = "unix_domain"
                    PROVE  asked'[c] = 1 /\ conn[c] # "eof"
        BY <1>1, <1>3 DEF OneText
      <4>. QED BY <1>1, <1>3, <2>1, <2>3 DEF OneText
    <3>. QED BY <2>3, <3>1, <3>2, <3>3, <3>4
  <2>. QED BY <2>2, <2>3
<1>8. ASSUME NEW t \in Servers PROVE Answers(t)'
  <2>1. state[t] = "write" => serving[t] \in Callers
    BY Serves
  <2>2. state[t] = "write" => serving[t] # c
    BY <1>1 DEF PairsInv, Answers
  <2>. QED BY <1>1, <1>3, <2>1, <2>2 DEF PairsInv, Answers
<1>9. Unbroken'
  <2>1. \A t \in Servers : state[t] = "write" => serving[t] \in Callers
    BY Serves
  <2>. QED BY <1>1, <1>3, <1>5, <2>1 DEF PairsInv, Unbroken
<1>. QED BY <1>4, <1>6, <1>7, <1>8, <1>9 DEF PairsInv

\* What a client got, and one entry more.
LEMMA OneMore ==
    ASSUME NEW S, NEW q \in Seq(S), NEW x \in S
    PROVE  /\ Append(q, x) \in Seq(S) /\ Len(Append(q, x)) = Len(q) + 1 /\ Len(q) \in Nat
           /\ Append(q, x)[Len(q) + 1] = x
           /\ \A k \in 1..Len(q) : Append(q, x)[k] = q[k]
  OBVIOUS

\* A client's receive: the answer, or the end of the connection.
LEMMA StepRecv ==
    ASSUME PairsInv, NEW c \in Callers, Pairs!Recv(c) \/ Pairs!RecvEnd(c) \/ Pairs!RecvError(c)
    PROVE  PairsInv'
<1>. USE DEF Pairs!Ended, Pairs!Listening
<1>. DEFINE n == Len(got[c])
            Brought == answer[c] # << >> /\ conn' = conn
            Closed == answer[c] = << >> /\ conn[c] \in {"eof", "reset"}
<1>1. \E x : /\ state[c] = "recv"
             /\ got' = [got EXCEPT ![c] = Append(got[c], x)]
             /\ UNCHANGED <<program, name, clientName, waiting, serving, buf, request, asked, kills>>
             /\ \/ /\ Brought /\ x = Head(answer[c])
                   /\ answer' = [answer EXCEPT ![c] = Tail(answer[c])]
                   /\ state' = [state EXCEPT ![c] = IF program = "unix_domain" THEN "done" ELSE "send"]
                \/ /\ Closed /\ x = None /\ answer' = answer
                   /\ conn' = [conn EXCEPT ![c] = "eof"]
                   /\ \/ program # "unix_domain" /\ state' = [state EXCEPT ![c] = "send"]
                      \/ /\ program = "unix_domain" /\ conn[c] = "eof"
                         /\ state' = [state EXCEPT ![c] = "done"]
                      \/ /\ program = "unix_domain"
                         /\ state' = [state EXCEPT ![c] = "exited"]
  <2>1. CASE Pairs!Recv(c)
    BY <2>1 DEF Pairs!Recv, Pairs!AfterRecv, Pairs!Goto, Pairs!server
  <2>2. CASE Pairs!RecvEnd(c)
    <3>1. conn' = [conn EXCEPT ![c] = "eof"]
      BY <2>2 DEF Pairs!RecvEnd, PairsInv, PairsShape
    <3>. QED BY <2>2, <3>1 DEF Pairs!RecvEnd, Pairs!AfterRecv, Pairs!Goto, Pairs!server, Pairs!stream
  <2>3. CASE Pairs!RecvError(c)
    BY <2>3 DEF Pairs!RecvError, Pairs!Goto, Pairs!server, Pairs!stream
  <2>. QED BY <2>1, <2>2, <2>3
<1>2. PICK x : /\ state[c] = "recv"
             /\ got' = [got EXCEPT ![c] = Append(got[c], x)]
             /\ UNCHANGED <<program, name, clientName, waiting, serving, buf, request, asked, kills>>
             /\ \/ /\ Brought /\ x = Head(answer[c])
                   /\ answer' = [answer EXCEPT ![c] = Tail(answer[c])]
                   /\ state' = [state EXCEPT ![c] = IF program = "unix_domain" THEN "done" ELSE "send"]
                \/ /\ Closed /\ x = None /\ answer' = answer
                   /\ conn' = [conn EXCEPT ![c] = "eof"]
                   /\ \/ program # "unix_domain" /\ state' = [state EXCEPT ![c] = "send"]
                      \/ /\ program = "unix_domain" /\ conn[c] = "eof"
                         /\ state' = [state EXCEPT ![c] = "done"]
                      \/ /\ program = "unix_domain"
                         /\ state' = [state EXCEPT ![c] = "exited"]
  BY <1>1
<1>3. Connected(c) /\ InTurn(c) /\ Got(c) /\ OneText(c)
  BY DEF PairsInv
<1>4. /\ asked[c] = n + 1 /\ n \in Nat /\ answer[c] \in Single
      /\ request[c] = << >> \/ request[c] = <<<<c, asked[c]>>>>
  BY <1>2, <1>3 DEF InTurn, PairsInv, PairsShape
<1>5. Brought => /\ request[c] = << >> /\ x = <<c, n + 1>> /\ Tail(answer[c]) = << >>
                 /\ x \in Pairs!Texts /\ x # None
  <2>. SUFFICES ASSUME Brought
                PROVE  /\ request[c] = << >> /\ x = <<c, n + 1>> /\ Tail(answer[c]) = << >>
                       /\ x \in Pairs!Texts /\ x # None
    OBVIOUS
  <2>1. request[c] = << >> /\ answer[c] = <<<<c, n + 1>>>>
    BY <1>2, <1>3, <1>4 DEF InTurn
  <2>2. x = Head(answer[c])
    BY <1>2
  <2>3. Head(answer[c]) \in Pairs!Texts /\ Tail(answer[c]) = << >>
    BY <1>4, SingleText
  <2>. QED BY <2>1, <2>2, <2>3, Apart
<1>6. Closed => x = None /\ request[c] = << >>
  BY <1>2, <1>3 DEF Connected
<1>7. /\ request[c] = << >> /\ answer'[c] = << >> /\ answer' \in [Callers -> Single]
      /\ \A d \in Callers \ {c} : answer'[d] = answer[d]
  <2>1. << >> \in Single
    BY DEF Single
  <2>2. CASE Brought
    <3>1. answer' = [answer EXCEPT ![c] = << >>]
      BY <1>2, <1>5, <2>2
    <3>. QED BY <1>5, <2>1, <2>2, <3>1 DEF PairsInv, PairsShape
  <2>3. CASE Closed
    <3>1. answer' = answer /\ answer[c] = << >>
      BY <1>2, <2>3
    <3>. QED BY <1>6, <2>3, <3>1 DEF PairsInv, PairsShape
  <2>. QED BY <1>2, <2>2, <2>3
<1>8. /\ got'[c] = Append(got[c], x) /\ \A d \in Callers \ {c} : got'[d] = got[d]
      /\ x \in Pairs!Texts \cup {None}
      /\ got' \in [Callers -> Seq(Pairs!Texts \cup {None})]
  <2>1. x \in Pairs!Texts \cup {None} /\ got[c] \in Seq(Pairs!Texts \cup {None})
    BY <1>2, <1>5 DEF PairsInv, PairsShape
  <2>2. Append(got[c], x) \in Seq(Pairs!Texts \cup {None})
    BY <2>1, OneMore
  <2>. QED BY <1>2, <2>1, <2>2 DEF PairsInv, PairsShape
<1>9. /\ Len(got'[c]) = n + 1 /\ got'[c][n + 1] = x
      /\ \A k \in 1..n : got'[c][k] = got[c][k]
  <2>1. got[c] \in Seq(Pairs!Texts \cup {None})
    BY DEF PairsInv, PairsShape
  <2>. QED BY <1>8, <2>1, OneMore
<1>10. /\ \E l \in {"send", "done", "exited"} : state' = [state EXCEPT ![c] = l]
       /\ conn' \in [Callers -> {"none", "open", "eof", "reset"}]
       /\ \A d \in Callers \ {c} : conn'[d] = conn[d]
       /\ conn'[c] = conn[c] \/ (Closed /\ conn'[c] = "eof")
  BY <1>2 DEF PairsInv, PairsShape
<1>11. /\ state'[c] \in {"send", "done", "exited"}
       /\ \A d \in Callers \ {c} : state'[d] = state[d]
       /\ \A t \in Servers : state'[t] = state[t]
       /\ program # "unix_domain" => state'[c] = "send"
       /\ program = "unix_domain" => state'[c] # "send"
       /\ state'[c] = "done" /\ Closed => conn[c] = "eof"
  BY <1>2, Apart DEF PairsInv, PairsShape
<1>12. Closed \/ Brought
  BY <1>2
<1>. HIDE DEF Closed, Brought
<1>13. PairsShape'
  BY <1>2, <1>7, <1>8, <1>10, Apart DEF PairsInv, PairsShape
<1>14. \A t \in Servers, d \in Callers : Has(t, d)' <=> Has(t, d)
  BY <1>2 DEF Has
<1>15. Closed => \A t \in Servers : ~ Has(t, c)
  BY <1>3 DEF Closed, Connected
<1>16. AtOnePlace'
  BY <1>2, <1>11, <1>14 DEF PairsInv, AtOnePlace
<1>17. ASSUME NEW d \in Callers \ {c}
       PROVE  Connected(d)' /\ InTurn(d)' /\ Got(d)' /\ OneText(d)'
  <2>1. Connected(d) /\ InTurn(d) /\ Got(d) /\ OneText(d)
    BY DEF PairsInv
  <2>. QED BY <1>2, <1>7, <1>8, <1>10, <1>11, <1>14, <2>1 DEF Connected, InTurn, Got, OneText
<1>18. Connected(c)'
  BY <1>2, <1>3, <1>7, <1>10, <1>11, <1>14, <1>15 DEF Connected
<1>19. InTurn(c)'
  BY <1>2, <1>4, <1>7, <1>9, <1>11 DEF InTurn
<1>20. Got(c)'
  <2>. SUFFICES ASSUME NEW k \in 1..(n + 1)
                PROVE  /\ got'[c][k] \in {<<c, k>>, None}
                       /\ got'[c][k] = None => /\ conn'[c] \in {"eof", "reset"}
                                               /\ k < n + 1 => got'[c][k + 1] = None
    BY <1>7, <1>9 DEF Got
  <2>1. CASE Brought
    <3>1. \A j \in 1..n : got[c][j] = <<c, j>> /\ got[c][j] # None
      BY <1>3, <2>1 DEF Got, Brought
    <3>2. CASE k = n + 1
      BY <1>4, <1>5, <1>9, <2>1, <3>2
    <3>3. CASE k \in 1..n
      BY <1>9, <3>1, <3>3
    <3>. QED BY <1>4, <3>2, <3>3
  <2>2. CASE Closed
    <3>1. conn'[c] \in {"eof", "reset"} /\ x = None
      BY <1>6, <1>10, <2>2 DEF Closed
    <3>2. CASE k = n + 1
      BY <1>4, <1>9, <3>1, <3>2
    <3>3. CASE k = n
      BY <1>3, <1>4, <1>9, <3>1, <3>3 DEF Got
    <3>4. CASE k < n
      <4>1. k \in 1..n /\ k + 1 \in 1..n
        BY <1>4, <3>4
      <4>. QED BY <1>3, <1>9, <3>1, <3>4, <4>1 DEF Got
    <3>. QED BY <1>4, <3>2, <3>3, <3>4
  <2>. QED BY <1>12, <2>1, <2>2
<1>21. OneText(c)'
  <2>. SUFFICES ASSUME program = "unix_domain", state'[c] = "done", kills = 0
                PROVE  got'[c] = <<<<c, 1>>>>
    BY <1>2, <1>11 DEF OneText
  <2>1. asked[c] = 1 /\ n = 0
    BY <1>2, <1>3, <1>4 DEF OneText
  <2>2. ~ Closed
    BY <1>2, <1>3, <1>11 DEF OneText, Closed
  <2>3. x = <<c, 1>>
    BY <1>5, <1>12, <2>1, <2>2
  <2>4. got[c] = << >>
    <3>1. got[c] \in Seq(Pairs!Texts \cup {None})
      BY DEF PairsInv, PairsShape
    <3>. QED BY <2>1, <3>1
  <2>5. got'[c] = Append(<< >>, <<c, 1>>)
    BY <1>8, <2>3, <2>4
  <2>. QED BY <2>5
<1>22. ASSUME NEW t \in Servers, state[t] = "write"
       PROVE  serving[t] \in Callers /\ serving[t] # c
  <2>1. serving[t] \in Callers /\ Has(t, serving[t])
    BY <1>22, Serves
  <2>2. CASE Closed
    BY <1>15, <2>1, <2>2
  <2>3. CASE Brought
    BY <1>2, <1>22, <2>1, <2>3 DEF PairsInv, Answers, Brought
  <2>. QED BY <1>12, <2>1, <2>2, <2>3
<1>23. ASSUME NEW t \in Servers PROVE Answers(t)'
  BY <1>2, <1>7, <1>11, <1>22 DEF PairsInv, Answers
<1>24. Unbroken'
  <2>. SUFFICES ASSUME program # "unix_domain", kills = 0
                PROVE  Unbroken'
    BY <1>2 DEF Unbroken
  <2>1. Unbroken /\ state'[c] = "send"
    BY <1>11 DEF PairsInv
  <2>2. conn'[c] = conn[c]
    BY <1>10, <2>1 DEF Unbroken, Closed
  <2>3. \A p \in Servers \cup Callers : state'[p] # "sigpipe"
    BY <1>11, <2>1 DEF Unbroken
  <2>. QED BY <1>2, <1>10, <1>11, <1>14, <1>22, <2>1, <2>2, <2>3 DEF Unbroken
<1>. QED BY <1>13, <1>16, <1>17, <1>18, <1>19, <1>20, <1>21, <1>23, <1>24 DEF PairsInv

\* Each step of a server, a client or a kill keeps the invariant.
LEMMA StepPairs == PairsInv /\ [Pairs!Next]_(Pairs!vars) => PairsInv'
<1>. SUFFICES ASSUME PairsInv, [Pairs!Next]_(Pairs!vars) PROVE PairsInv'
  OBVIOUS
<1>1. CASE UNCHANGED Pairs!vars
  BY <1>1 DEF Pairs!vars, Pairs!server, Pairs!stream, Pairs!client, PairsInv, PairsShape,
       AtOnePlace, Has, Connected, InTurn, Got, OneText, Answers, Unbroken
<1>2. ASSUME NEW s \in Servers, Pairs!Server(s) PROVE PairsInv'
  BY <1>2, StepNames, StepTake, StepRead, StepReadEnds, StepWrite, StepGone DEF Pairs!Server
<1>3. ASSUME NEW c \in Callers, Pairs!Client(c) PROVE PairsInv'
  BY <1>3, StepCallers, StepConnect, StepSend, StepRecv DEF Pairs!Client
<1>4. ASSUME NEW p \in Servers \cup Callers, Pairs!Kill(p) PROVE PairsInv'
  BY <1>4, StepCallers, StepGone
<1>. QED BY <1>1, <1>2, <1>3, <1>4 DEF Pairs!Next, Pairs!Procs

\* The shape of the state of the one-at-a-time servers and their clients, for
\* any of either: a client waits in one place (server_unix.c:39-50), and of its
\* texts and their answers one at most is under way.
THEOREM PairsTypeCorrect == Pairs!Spec => []PairsTypeOK
<1>1. PairsInv => PairsTypeOK
  <2>. SUFFICES ASSUME PairsInv PROVE Pairs!TypeOK
    BY DEF PairsTypeOK
  <2>1. \A c \in Callers : /\ request[c] \in Seq(Pairs!Texts) /\ answer[c] \in Seq(Pairs!Texts)
                           /\ Len(request[c]) \in 0..1 /\ (request[c] = << >> <=> Len(request[c]) = 0)
                           /\ Len(answer[c]) \in 0..1 /\ (answer[c] = << >> <=> Len(answer[c]) = 0)
    BY SingleText DEF PairsInv, PairsShape
  <2>2. /\ request \in [Callers -> Seq(Pairs!Texts)] /\ answer \in [Callers -> Seq(Pairs!Texts)]
    BY <2>1 DEF PairsInv, PairsShape
  <2>3. \A c \in Callers : Len(request[c]) + Len(answer[c]) <= 1 /\ Len(got[c]) <= asked[c]
    <3>. TAKE c \in Callers
    <3>1. InTurn(c)
      BY DEF PairsInv
    <3>2. request[c] = << >> \/ answer[c] = << >>
      BY <3>1 DEF InTurn
    <3>3. Len(got[c]) <= asked[c]
      BY <3>1 DEF InTurn
    <3>4. Len(request[c]) \in 0..1 /\ Len(answer[c]) \in 0..1
      BY <2>1
    <3>5. Len(request[c]) = 0 \/ Len(answer[c]) = 0
      BY <2>1, <3>2
    <3>6. \A j, k \in 0..1 : j = 0 \/ k = 0 => j + k <= 1
      OBVIOUS
    <3>7. Len(request[c]) + Len(answer[c]) <= 1
      BY <3>4, <3>5, <3>6
    <3>. QED BY <3>3, <3>7
  <2>4. \A s \in Servers : Pairs!IsInjective(waiting[s])
    BY DEF PairsInv, AtOnePlace
  <2>5. state \in [Pairs!Procs -> {"unlink", "bind", "listen", "connect", "send", "recv"}
                                     \cup Pairs!Listening \cup Pairs!Ended]
    BY DEF PairsInv, PairsShape, Pairs!Procs, Pairs!Listening
  <2>. QED BY <2>2, <2>3, <2>4, <2>5 DEF PairsInv, PairsShape, Pairs!TypeOK
<1>. QED BY <1>1, InitPairs, StepPairs, PTL DEF Pairs!Spec

\* A client reads the answer to the text it has just written, or nothing but the
\* end of its connection from some point on; and nobody is broken off, nor left
\* without the answer, where nobody is killed (server_unix.c:39-69,
\* unix_domain_socket_client.c:91-117, socket_client.cpp:62-75).
THEOREM AnsweredInStepCorrect == Pairs!Spec => []AnsweredInStep
<1>1. PairsInv => AnsweredInStep
  <2>. SUFFICES ASSUME PairsInv PROVE Pairs!AnsweredInStep
    BY DEF AnsweredInStep
  <2>1. ASSUME NEW c \in Callers PROVE DOMAIN got[c] = 1..Len(got[c]) /\ Len(got[c]) \in Nat
    <3>1. got[c] \in Seq(Pairs!Texts \cup {None})
      BY DEF PairsInv, PairsShape
    <3>. QED BY <3>1
  <2>2. ASSUME NEW c \in Callers, NEW k \in 1..Len(got[c])
        PROVE  /\ got[c][k] \in {<<c, k>>, None}
               /\ k > 1 /\ got[c][k] # None => got[c][k - 1] # None
    <3>1. Got(c)
      BY DEF PairsInv
    <3>2. got[c][k] \in {<<c, k>>, None}
      BY <3>1 DEF Got
    <3>3. ASSUME k > 1, got[c][k - 1] = None PROVE got[c][k] = None
      <4>1. k - 1 \in 1..Len(got[c]) /\ k - 1 < Len(got[c]) /\ (k - 1) + 1 = k
        BY <2>1, <3>3
      <4>. QED BY <3>1, <3>3, <4>1 DEF Got
    <3>. QED BY <3>2, <3>3
  <2>3. ASSUME kills = 0, program = "unix_domain", NEW c \in Callers, state[c] = "done"
        PROVE  got[c] = <<<<c, 1>>>>
    BY <2>3 DEF PairsInv, OneText
  <2>4. ASSUME kills = 0, program # "unix_domain"
        PROVE  /\ \A p \in Servers \cup Callers : state[p] # "sigpipe"
               /\ \A c \in Callers : \A k \in 1..Len(got[c]) : got[c][k] = <<c, k>>
    <3>1. Unbroken
      BY DEF PairsInv
    <3>2. \A p \in Servers \cup Callers : state[p] # "sigpipe"
      BY <2>4, <3>1 DEF Unbroken
    <3>3. ASSUME NEW c \in Callers, NEW k \in 1..Len(got[c]) PROVE got[c][k] = <<c, k>>
      <4>1. Got(c) /\ conn[c] \in {"none", "open"}
        BY <2>4, <3>1 DEF PairsInv, Unbroken
      <4>. QED BY <4>1 DEF Got
    <3>. QED BY <3>2, <3>3
  <2>. QED BY <2>1, <2>2, <2>3, <2>4 DEF Pairs!AnsweredInStep, Pairs!Procs
<1>. QED BY <1>1, InitPairs, StepPairs, PTL DEF Pairs!Spec
=============================================================================
