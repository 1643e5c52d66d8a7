-------------------------- MODULE EchoServer_proofs --------------------------
(***************************************************************************)
(* Proofs about EchoServer, for any clients, books, buffers, kills and     *)
(* cuts of the streams: its type invariant, that what a client prints are  *)
(* pieces of its own books in the order it wrote them, and that they are   *)
(* all its books, one by one, when no read is cut.                         *)
(*                                                                         *)
(* What a client has sent is in five places, one behind the other: the     *)
(* lines it has printed, its stream from the server, the server's buffer,  *)
(* its stream to the server, and the books it has still to send.           *)
(***************************************************************************)
EXTENDS EchoServer, WellFoundedInduction, TLAPS

Texts == Seq(Cells)
Zeroed == Seq(Cells \cup {Nul})

\* The cells of a stream, and that they are in order.
Elements(s) == {s[k] : k \in 1..Len(s)} \ {Nul}
Ahead(A, B) == \A x \in A, y \in B : Before(x, y)
Sorted(s) == \A k, l \in 1..Len(s) : k < l /\ s[k] # Nul /\ s[l] # Nul => Before(s[k], s[l])

\* The places of c's cells, from the last to the first, up to the book sent.
Chain(c, lines, back, held, out, sent) ==
    /\ Sorted(back) /\ Sorted(held) /\ Sorted(out)
    /\ Ahead(Elements(back), Elements(held) \cup Elements(out))
    /\ Ahead(Elements(held), Elements(out))
    /\ \A l \in 1..Len(lines) :
          /\ Sorted(lines[l])
          /\ Ahead(Elements(lines[l]), Elements(back) \cup Elements(held) \cup Elements(out))
          /\ \A m \in 1..(l - 1) : Ahead(Elements(lines[m]), Elements(lines[l]))
          /\ \A x \in Elements(lines[l]) : x[1] = c /\ x[2] <= sent
    /\ \A x \in Elements(back) \cup Elements(held) \cup Elements(out) : x[1] = c /\ x[2] <= sent

-----------------------------------------------------------------------------
\* The cells are triples of a client, a book and a place, none of them Nul.
LEMMA CellsAre ==
    /\ \A x \in Cells : x # Nul /\ x[1] \in Clients /\ x[2] \in Nat /\ x[3] \in Nat
    /\ \A c \in Clients, b \in 1..ConversationLen :
          /\ Book(c, b) \in Texts /\ Sorted(Book(c, b))
          /\ \A x \in Elements(Book(c, b)) : x[1] = c /\ x[2] = b
    /\ ConversationLen \in Nat /\ Nul \notin Cells
<1>1. ConversationLen \in Nat /\ \A b \in 1..ConversationLen : Pieces[b] \in Nat
  BY EchoServerAssumption DEF ConversationLen
<1>2. \A x \in Cells : x # Nul /\ x[1] \in Clients /\ x[2] \in Nat /\ x[3] \in Nat
  <2>1. ASSUME NEW c \in Clients, NEW b \in 1..ConversationLen, NEW k \in 1..Pieces[b]
        PROVE  <<c, b, k>> # << >> /\ b \in Nat /\ k \in Nat
    BY <1>1
  <2>. QED BY <2>1 DEF Cells, Nul
<1>3. ASSUME NEW c \in Clients, NEW b \in 1..ConversationLen
      PROVE  /\ Book(c, b) \in Texts /\ Sorted(Book(c, b))
             /\ \A x \in Elements(Book(c, b)) : x[1] = c /\ x[2] = b
  <2>1. ASSUME NEW k \in 1..Pieces[b] PROVE <<c, b, k>> \in Cells
    <3>. DEFINE Of(d, e) == {<<d, e, l>> : l \in 1..Pieces[e]}
                All == {Of(d, e) : d \in Clients, e \in 1..ConversationLen}
    <3>1. <<c, b, k>> \in Of(c, b) /\ Of(c, b) \in All
      OBVIOUS
    <3>2. Cells = UNION All
      BY DEF Cells
    <3>. HIDE DEF Of, All
    <3>. QED BY <3>1, <3>2
  <2>2. Book(c, b) \in Texts /\ Len(Book(c, b)) = Pieces[b]
    BY <1>1, <2>1 DEF Book, Texts
  <2>3. \A k \in 1..Len(Book(c, b)) : Book(c, b)[k] = <<c, b, k>>
    BY <2>2 DEF Book
  <2>4. Sorted(Book(c, b))
    BY <2>2, <2>3 DEF Sorted, Before
  <2>. QED BY <2>2, <2>3, <2>4 DEF Elements
<1>. QED BY <1>1, <1>2, <1>3

\* A stream with another behind it.
LEMMA Joined ==
    ASSUME NEW s \in Zeroed, NEW t \in Zeroed
    PROVE  /\ s \o t \in Zeroed
           /\ Elements(s \o t) = Elements(s) \cup Elements(t)
           /\ Sorted(s) /\ Sorted(t) /\ Ahead(Elements(s), Elements(t)) => Sorted(s \o t)
<1>. DEFINE m == Len(s)
            n == Len(t)
            u == s \o t
<1>1. m \in Nat /\ n \in Nat /\ u \in Zeroed /\ Len(u) = m + n
  BY DEF Zeroed
<1>2. \A k \in 1..m : u[k] = s[k]
  BY <1>1 DEF Zeroed
<1>3. \A k \in 1..n : u[m + k] = t[k]
  BY <1>1 DEF Zeroed
<1>. HIDE DEF m, n, u
<1>4. \A k \in 1..Len(u) : k \in 1..m \/ (k - m \in 1..n /\ u[k] = t[k - m] /\ k > m)
  <2>1. ASSUME NEW k \in 1..Len(u), k \notin 1..m PROVE k - m \in 1..n /\ u[k] = t[k - m] /\ k > m
    <3>1. k - m \in 1..n /\ m + (k - m) = k /\ k > m
      BY <1>1, <2>1
    <3>2. u[m + (k - m)] = t[k - m]
      BY <1>3, <3>1
    <3>. QED BY <3>1, <3>2
  <2>. QED BY <2>1
<1>5. \A k \in 1..m : k \in 1..Len(u)
  BY <1>1
<1>6. \A k \in 1..n : m + k \in 1..Len(u)
  BY <1>1
<1>7. Elements(u) = Elements(s) \cup Elements(t)
  <2>1. ASSUME NEW x \in Elements(u) PROVE x \in Elements(s) \cup Elements(t)
    <3>1. PICK k \in 1..Len(u) : x = u[k] /\ x # Nul
      BY DEF Elements
    <3>2. CASE k \in 1..m
      BY <1>2, <3>1, <3>2 DEF Elements, m
    <3>3. CASE k - m \in 1..n /\ u[k] = t[k - m]
      BY <3>1, <3>3 DEF Elements, n
    <3>. QED BY <1>4, <3>2, <3>3
  <2>2. ASSUME NEW x \in Elements(s) PROVE x \in Elements(u)
    BY <1>2, <1>5, <2>2 DEF Elements, m
  <2>3. ASSUME NEW x \in Elements(t) PROVE x \in Elements(u)
    <3>1. PICK k \in 1..n : x = t[k] /\ x # Nul
      BY DEF Elements, n
    <3>. QED BY <1>3, <1>6, <3>1 DEF Elements
  <2>. QED BY <2>1, <2>2, <2>3
<1>8. ASSUME Sorted(s), Sorted(t), Ahead(Elements(s), Elements(t)) PROVE Sorted(u)
  <2>. SUFFICES ASSUME NEW k \in 1..Len(u), NEW l \in 1..Len(u), k < l, u[k] # Nul, u[l] # Nul
                PROVE  Before(u[k], u[l])
    BY DEF Sorted
  <2>1. CASE l \in 1..m
    <3>1. k \in 1..m
      BY <1>1, <2>1
    <3>. QED BY <1>2, <1>8, <2>1, <3>1 DEF Sorted, m
  <2>2. CASE k \in 1..m /\ l \notin 1..m
    <3>1. u[k] \in Elements(s)
      BY <1>2, <2>2 DEF Elements, m
    <3>2. u[l] \in Elements(t)
      BY <1>4, <2>2 DEF Elements, n
    <3>. QED BY <1>8, <3>1, <3>2 DEF Ahead
  <2>3. CASE k \notin 1..m /\ l \notin 1..m
    <3>1. k - m \in 1..n /\ l - m \in 1..n /\ u[k] = t[k - m] /\ u[l] = t[l - m]
      BY <1>4, <2>3
    <3>2. k - m < l - m
      BY <1>1, <1>4, <2>3
    <3>. QED BY <1>8, <3>1, <3>2 DEF Sorted, n
  <2>. QED BY <2>1, <2>2, <2>3
<1>. QED BY <1>1, <1>7, <1>8 DEF u

\* A stretch of a stream.
LEMMA Stretch ==
    ASSUME NEW S, NEW s \in Seq(S), NEW j \in 1..(Len(s) + 1), NEW k \in 0..Len(s), j <= k + 1
    PROVE  /\ SubSeq(s, j, k) \in Seq(S) /\ Len(SubSeq(s, j, k)) = k + 1 - j
           /\ \A m \in 1..(k + 1 - j) : m + (j - 1) \in j..k /\ SubSeq(s, j, k)[m] = s[m + (j - 1)]
           /\ \A m \in 1..(k + 1 - j) : m + (j - 1) \in 1..Len(s)
<1>1. Len(s) \in Nat /\ j \in Nat /\ k \in Nat /\ k <= Len(s) /\ j >= 1
  OBVIOUS
<1>2. \A m \in j..k : m \in 1..Len(s) /\ s[m] \in S
  BY <1>1
<1>3. Len(SubSeq(s, j, k)) = k + 1 - j
  BY <1>1
<1>4. ASSUME NEW m \in 1..(k + 1 - j)
      PROVE  m + (j - 1) \in j..k /\ SubSeq(s, j, k)[m] = s[m + (j - 1)]
  BY <1>1, <1>3
<1>5. SubSeq(s, j, k) \in Seq(S)
  BY <1>1, <1>2
<1>. QED BY <1>2, <1>3, <1>4, <1>5

LEMMA Parts ==
    ASSUME NEW S, NEW s \in Seq(S), NEW j \in 1..(Len(s) + 1), NEW k \in 0..Len(s), j <= k + 1
    PROVE  /\ Elements(SubSeq(s, j, k)) \subseteq Elements(s)
           /\ Sorted(s) => Sorted(SubSeq(s, j, k))
<1>. DEFINE p == SubSeq(s, j, k)
            n == k + 1 - j
<1>1. /\ Len(p) = n /\ \A m \in 1..n : m + (j - 1) \in 1..Len(s) /\ p[m] = s[m + (j - 1)]
  BY Stretch
<1>2. n \in Nat /\ j \in Nat /\ Len(s) \in Nat
  OBVIOUS
<1>. HIDE DEF p, n
<1>3. Elements(p) \subseteq Elements(s)
  BY <1>1 DEF Elements
<1>4. ASSUME Sorted(s) PROVE Sorted(p)
  <2>. SUFFICES ASSUME NEW l \in 1..n, NEW m \in 1..n, l < m, p[l] # Nul, p[m] # Nul
                PROVE  Before(p[l], p[m])
    BY <1>1 DEF Sorted
  <2>1. l + (j - 1) < m + (j - 1)
    BY <1>2
  <2>. QED BY <1>1, <1>4, <2>1 DEF Sorted
<1>. QED BY <1>3, <1>4 DEF p

\* A stream that is cut in two.
LEMMA Cut ==
    ASSUME NEW S, NEW s \in Seq(S), NEW n \in 0..Len(s)
    PROVE  /\ SubSeq(s, 1, n) \in Seq(S) /\ Drop(s, n) \in Seq(S) /\ Len(SubSeq(s, 1, n)) = n
           /\ Elements(SubSeq(s, 1, n)) \subseteq Elements(s) /\ Elements(Drop(s, n)) \subseteq Elements(s)
           /\ Sorted(s) => /\ Sorted(SubSeq(s, 1, n)) /\ Sorted(Drop(s, n))
                           /\ Ahead(Elements(SubSeq(s, 1, n)), Elements(Drop(s, n)))
<1>. DEFINE p == SubSeq(s, 1, n)
            q == SubSeq(s, n + 1, Len(s))
<1>0. Len(s) \in Nat /\ n \in Nat /\ n <= Len(s) /\ 1 \in 1..(Len(s) + 1) /\ n + 1 \in 1..(Len(s) + 1)
      /\ Len(s) \in 0..Len(s)
  OBVIOUS
<1>1. /\ p \in Seq(S) /\ Len(p) = n
      /\ \A m \in 1..n : m \in 1..Len(s) /\ p[m] = s[m]
  <2>1. /\ p \in Seq(S) /\ Len(p) = n + 1 - 1
        /\ \A m \in 1..(n + 1 - 1) : m + (1 - 1) \in 1..Len(s) /\ p[m] = s[m + (1 - 1)]
    BY <1>0, Stretch
  <2>2. n + 1 - 1 = n /\ \A m \in Nat : m + (1 - 1) = m
    BY <1>0
  <2>. QED BY <1>0, <2>1, <2>2
<1>2. /\ q \in Seq(S) /\ Len(q) = Len(s) - n
      /\ \A m \in 1..(Len(s) - n) : m + n \in 1..Len(s) /\ q[m] = s[m + n]
  <2>1. /\ q \in Seq(S) /\ Len(q) = Len(s) + 1 - (n + 1)
        /\ \A m \in 1..(Len(s) + 1 - (n + 1)) :
              m + ((n + 1) - 1) \in 1..Len(s) /\ q[m] = s[m + ((n + 1) - 1)]
    BY <1>0, Stretch
  <2>2. Len(s) + 1 - (n + 1) = Len(s) - n /\ (n + 1) - 1 = n
    BY <1>0
  <2>. QED BY <2>1, <2>2
<1>3. /\ Elements(p) \subseteq Elements(s) /\ Elements(q) \subseteq Elements(s)
      /\ Sorted(s) => Sorted(p) /\ Sorted(q)
  BY <1>0, Parts
<1>. HIDE DEF p, q
<1>4. ASSUME Sorted(s) PROVE Ahead(Elements(p), Elements(q))
  <2>. SUFFICES ASSUME NEW x \in Elements(p), NEW y \in Elements(q) PROVE Before(x, y)
    BY DEF Ahead
  <2>1. PICK k \in 1..n : x = s[k] /\ k \in 1..Len(s) /\ x # Nul
    BY <1>1 DEF Elements
  <2>2. PICK l \in 1..(Len(s) - n) : y = s[l + n] /\ l + n \in 1..Len(s) /\ y # Nul
    BY <1>2 DEF Elements
  <2>3. k < l + n
    BY <1>0, <2>1, <2>2
  <2>. QED BY <1>4, <2>1, <2>2, <2>3 DEF Sorted
<1>. QED BY <1>1, <1>2, <1>3, <1>4 DEF p, q, Drop

-----------------------------------------------------------------------------
\* The first of some numbers.
LEMMA FirstOf ==
    ASSUME NEW S, S \subseteq Nat, S # {}
    PROVE  \E m \in S : \A x \in S : m <= x
<1>1. PICK m \in S : \A x \in S : ~ (<<x, m>> \in OpToRel(<, Nat))
  BY NatLessThanWellFounded, WFMin
<1>2. ASSUME NEW x \in S, x < m PROVE FALSE
  <2>. DEFINE p == <<x, m>>
  <2>1. p \in Nat \X Nat /\ p[1] < p[2]
    BY <1>2
  <2>2. p \in OpToRel(<, Nat)
    BY <2>1, Zenon DEF OpToRel
  <2>. QED BY <1>1, <2>2
<1>. QED BY <1>2

\* puts prints the part of a buffer before the first zero.
LEMMA LineIs ==
    ASSUME NEW s \in Zeroed
    PROVE  \E n \in 0..Len(s) :
              /\ Line(s) = SubSeq(s, 1, n) /\ \A k \in 1..n : s[k] # Nul
              /\ n = Len(s) \/ s[n + 1] = Nul
<1>. DEFINE N == {m \in 0..Len(s) : m = Len(s) \/ s[m + 1] = Nul}
            IsEnd(m) == /\ m = Len(s) \/ s[m + 1] = Nul
                        /\ \A k \in 1..m : s[k] # Nul
<1>1. Len(s) \in Nat
  BY DEF Zeroed
<1>2. N \subseteq Nat /\ Len(s) \in N
  BY <1>1
<1>3. PICK m \in N : \A x \in N : m <= x
  BY <1>2, FirstOf
<1>4. ASSUME NEW k \in 1..m PROVE s[k] # Nul
  <2>1. k - 1 \in 0..Len(s) /\ (k - 1) + 1 = k /\ k - 1 < m /\ m \in Nat
    BY <1>1, <1>3
  <2>. HIDE DEF N
  <2>2. k - 1 \notin N
    BY <1>3, <2>1
  <2>. QED BY <2>1, <2>2 DEF N
<1>5. m \in 0..Len(s) /\ IsEnd(m)
  BY <1>3, <1>4
<1>. DEFINE n == CHOOSE j \in 0..Len(s) : IsEnd(j)
<1>6. n \in 0..Len(s) /\ IsEnd(n)
  BY <1>5
<1>7. Line(s) = SubSeq(s, 1, n)
  BY DEF Line
<1>. HIDE DEF n, N
<1>. QED BY <1>6, <1>7

\* A read moves the front of the client's stream into the buffer.
LEMMA ChainReads ==
    ASSUME NEW c, NEW lines, NEW back, NEW out \in Texts, NEW sent, NEW n \in 1..Len(out),
           Chain(c, lines, back, << >>, out, sent)
    PROVE  Chain(c, lines, back, SubSeq(out, 1, n), Drop(out, n), sent)
<1>. DEFINE p == SubSeq(out, 1, n)
            q == Drop(out, n)
<1>1. n \in 0..Len(out)
  BY DEF Texts
<1>2. Sorted(out) /\ Elements(<< >>) = {}
  BY DEF Chain, Elements
<1>3. /\ Elements(p) \subseteq Elements(out) /\ Elements(q) \subseteq Elements(out)
      /\ Sorted(p) /\ Sorted(q) /\ Ahead(Elements(p), Elements(q))
  BY <1>1, <1>2, Cut DEF Texts
<1>. HIDE DEF p, q
<1>4. /\ Sorted(back) /\ Ahead(Elements(back), Elements(p) \cup Elements(q))
      /\ \A x \in Elements(back) \cup Elements(p) \cup Elements(q) : x[1] = c /\ x[2] <= sent
  BY <1>3 DEF Chain, Ahead
<1>5. ASSUME NEW l \in 1..Len(lines)
      PROVE  /\ Sorted(lines[l])
             /\ Ahead(Elements(lines[l]), Elements(back) \cup Elements(p) \cup Elements(q))
             /\ \A m \in 1..(l - 1) : Ahead(Elements(lines[m]), Elements(lines[l]))
             /\ \A x \in Elements(lines[l]) : x[1] = c /\ x[2] <= sent
  BY <1>3 DEF Chain, Ahead
<1>6. Chain(c, lines, back, p, q, sent)
  BY <1>3, <1>4, <1>5 DEF Chain
<1>. QED BY <1>6 DEF p, q

\* A write moves the buffer, filled up with zeros, behind the stream to the client.
LEMMA ChainReplies ==
    ASSUME NEW c, NEW lines, NEW back \in Zeroed, NEW held \in Zeroed, NEW out, NEW sent,
           NEW pad \in Zeroed, Elements(pad) = Elements(held), Sorted(pad),
           Chain(c, lines, back, held, out, sent)
    PROVE  Chain(c, lines, back \o pad, << >>, out, sent)
<1>1. /\ Elements(back \o pad) = Elements(back) \cup Elements(held)
      /\ Sorted(back \o pad)
  <2>1. Sorted(back) /\ Ahead(Elements(back), Elements(pad))
    BY DEF Chain, Ahead
  <2>. QED BY <2>1, Joined
<1>2. Elements(<< >>) = {} /\ Sorted(<< >>)
  BY DEF Elements, Sorted
<1>. QED BY <1>1, <1>2 DEF Chain, Ahead

\* The buffer is dropped.
LEMMA ChainDrops ==
    ASSUME NEW c, NEW lines, NEW back, NEW held, NEW out, NEW sent,
           Chain(c, lines, back, held, out, sent)
    PROVE  Chain(c, lines, back, << >>, out, sent)
<1>1. Elements(<< >>) = {} /\ Sorted(<< >>)
  BY DEF Elements, Sorted
<1>. QED BY <1>1 DEF Chain, Ahead

\* What was sent is known by a bound that may grow.
LEMMA ChainGrows ==
    ASSUME NEW c, NEW lines \in Seq(Texts), NEW back \in Zeroed, NEW held \in Texts, NEW out \in Texts,
           NEW sent \in Nat, NEW more \in Nat, sent <= more,
           Chain(c, lines, back, held, out, sent)
    PROVE  Chain(c, lines, back, held, out, more)
<1>1. \A s \in Zeroed : \A x \in Elements(s) : x[2] \in Nat
  BY CellsAre DEF Zeroed, Elements
<1>2. Texts \subseteq Zeroed
  BY DEF Texts, Zeroed
<1>3. \A s \in Zeroed : \A x \in Elements(s) : x[2] <= sent => x[2] <= more
  BY <1>1
<1>4. \A l \in 1..Len(lines) : lines[l] \in Zeroed
  BY <1>2
<1>. QED BY <1>2, <1>3, <1>4 DEF Chain

\* The next book goes behind all the others.
LEMMA ChainSends ==
    ASSUME NEW c \in Clients, NEW lines \in Seq(Texts), NEW back \in Zeroed, NEW held \in Texts,
           NEW out \in Texts, NEW sent \in Nat, sent + 1 \in 1..ConversationLen,
           Chain(c, lines, back, held, out, sent)
    PROVE  Chain(c, lines, back, held, out \o Book(c, sent + 1), sent + 1)
<1>. DEFINE book == Book(c, sent + 1)
<1>1. book \in Texts /\ Sorted(book) /\ \A x \in Elements(book) : x[1] = c /\ x[2] = sent + 1
  BY CellsAre
<1>. HIDE DEF book
<1>2. Texts \subseteq Zeroed
  BY DEF Texts, Zeroed
<1>3. Chain(c, lines, back, held, out, sent + 1)
  <2>1. sent + 1 \in Nat /\ sent <= sent + 1
    OBVIOUS
  <2>. QED BY <2>1, ChainGrows
<1>4. \A s \in Zeroed : \A x \in Elements(s) : x[2] \in Nat
  BY CellsAre DEF Zeroed, Elements
<1>5. ASSUME NEW s \in Zeroed, \A x \in Elements(s) : x[2] <= sent
      PROVE  Ahead(Elements(s), Elements(book))
  <2>1. \A x \in Elements(s) : x[2] \in Nat /\ x[2] < sent + 1
    BY <1>4, <1>5
  <2>. QED BY <1>1, <2>1 DEF Ahead, Before
<1>6. /\ Ahead(Elements(back), Elements(book)) /\ Ahead(Elements(held), Elements(book))
      /\ Ahead(Elements(out), Elements(book))
      /\ \A l \in 1..Len(lines) : Ahead(Elements(lines[l]), Elements(book))
  <2>1. \A l \in 1..Len(lines) : lines[l] \in Zeroed
    BY <1>2
  <2>. QED BY <1>2, <1>5, <2>1 DEF Chain
<1>7. Elements(out \o book) = Elements(out) \cup Elements(book) /\ Sorted(out \o book)
  BY <1>1, <1>2, <1>6, Joined DEF Chain
<1>8. \A x \in Elements(book) : x[1] = c /\ x[2] <= sent + 1
  BY <1>1
<1>. QED BY <1>3, <1>6, <1>7, <1>8 DEF Chain, Ahead, book

\* A read takes the front of the stream to the client, of which it prints a line.
LEMMA ChainPrints ==
    ASSUME NEW c, NEW lines \in Seq(Texts), NEW back \in Zeroed, NEW held, NEW out, NEW sent,
           NEW n \in 1..Len(back), Chain(c, lines, back, held, out, sent)
    PROVE  LET line == Line(SubSeq(back, 1, n)) IN
           /\ line \in Texts
           /\ Chain(c, Append(lines, line), Drop(back, n), held, out, sent)
<1>. DEFINE p == SubSeq(back, 1, n)
            q == Drop(back, n)
            line == Line(p)
            new == Append(lines, line)
<1>1. Len(back) \in Nat /\ n \in 0..Len(back) /\ Sorted(back)
  BY DEF Zeroed, Chain
<1>2. /\ p \in Zeroed /\ q \in Zeroed /\ Len(p) = n
      /\ Elements(p) \subseteq Elements(back) /\ Elements(q) \subseteq Elements(back)
      /\ Sorted(p) /\ Sorted(q) /\ Ahead(Elements(p), Elements(q))
  BY <1>1, Cut DEF Zeroed
<1>. HIDE DEF p, q
<1>3. PICK m \in 0..Len(p) : line = SubSeq(p, 1, m) /\ \A k \in 1..m : p[k] # Nul
  BY <1>2, LineIs
<1>4. /\ line \in Zeroed /\ Len(line) = m /\ Elements(line) \subseteq Elements(p) /\ Sorted(line)
  BY <1>2, <1>3, Cut DEF Zeroed
<1>5. line \in Texts
  <2>1. \A k \in 1..m : line[k] = p[k] /\ p[k] \in Cells
    BY <1>2, <1>3 DEF Zeroed
  <2>. QED BY <1>4, <2>1 DEF Texts, Zeroed
<1>. HIDE DEF line
<1>6. /\ Len(lines) \in Nat /\ Len(new) = Len(lines) + 1 /\ new[Len(lines) + 1] = line
      /\ \A l \in 1..Len(lines) : new[l] = lines[l]
  BY <1>5
<1>. HIDE DEF new
<1>7. Elements(line) \subseteq Elements(back)
  BY <1>2, <1>4
<1>8. \A l \in 1..Len(new) : (l \in 1..Len(lines) /\ new[l] = lines[l])
                             \/ (l = Len(lines) + 1 /\ new[l] = line)
  BY <1>6
<1>9. ASSUME NEW l \in 1..Len(new)
      PROVE  /\ Sorted(new[l])
             /\ Ahead(Elements(new[l]), Elements(q) \cup Elements(held) \cup Elements(out))
             /\ \A m_1 \in 1..(l - 1) : Ahead(Elements(new[m_1]), Elements(new[l]))
             /\ \A x \in Elements(new[l]) : x[1] = c /\ x[2] <= sent
  <2>1. CASE l \in 1..Len(lines) /\ new[l] = lines[l]
    <3>1. \A j \in 1..(l - 1) : j \in 1..Len(lines) /\ new[j] = lines[j]
      BY <1>6, <2>1
    <3>2. /\ Sorted(lines[l])
          /\ Ahead(Elements(lines[l]), Elements(back) \cup Elements(held) \cup Elements(out))
          /\ \A j \in 1..(l - 1) : Ahead(Elements(lines[j]), Elements(lines[l]))
          /\ \A x \in Elements(lines[l]) : x[1] = c /\ x[2] <= sent
      BY <2>1 DEF Chain
    <3>3. Ahead(Elements(lines[l]), Elements(q) \cup Elements(held) \cup Elements(out))
      BY <1>2, <3>2 DEF Ahead
    <3>. QED BY <2>1, <3>1, <3>2, <3>3
  <2>2. CASE l = Len(lines) + 1 /\ new[l] = line
    <3>1. \A j \in 1..(l - 1) : j \in 1..Len(lines) /\ new[j] = lines[j]
      BY <1>6, <2>2
    <3>2. \A j \in 1..Len(lines) : Ahead(Elements(lines[j]), Elements(line))
      BY <1>7 DEF Chain, Ahead
    <3>3. Ahead(Elements(line), Elements(q) \cup Elements(held) \cup Elements(out))
      BY <1>2, <1>4, <1>7 DEF Chain, Ahead
    <3>4. \A x \in Elements(line) : x[1] = c /\ x[2] <= sent
      BY <1>7 DEF Chain
    <3>. QED BY <1>4, <2>2, <3>1, <3>2, <3>3, <3>4
  <2>. QED BY <1>8, <2>1, <2>2
<1>10. /\ Sorted(held) /\ Sorted(out) /\ Ahead(Elements(held), Elements(out))
       /\ Ahead(Elements(q), Elements(held) \cup Elements(out))
       /\ \A x \in Elements(q) \cup Elements(held) \cup Elements(out) : x[1] = c /\ x[2] <= sent
  BY <1>2 DEF Chain, Ahead
<1>11. Chain(c, new, q, held, out, sent)
  BY <1>2, <1>9, <1>10 DEF Chain
<1>. QED BY <1>5, <1>11 DEF p, q, line, new

-----------------------------------------------------------------------------
\* Where the processes are; the server has one client at most.
InLoop ==
    /\ pc[Server] \in {"accept", "read", "write", "close", "sigpipe"}
    /\ \A c \in Clients : pc[c] \in {"connect", "write", "read"} \cup Ended
    /\ pc[Server] \in {"read", "write"} => i[Server] < ConversationLen
    /\ \A c \in Clients : pc[c] \in {"connect", "write", "read"} => i[c] < ConversationLen
    /\ \A c, d \in client_fd : c = d

\* What of the buffer is still to be sent to c, and the books c has sent.
Held(c) == IF pc[Server] = "write" /\ c \in client_fd THEN buffer ELSE << >>
Sent(c) == IF pc[c] \in {"connect", "write"} THEN i[c] ELSE i[c] + 1

InChain(c) == Chain(c, printed[c], toClient[c], Held(c), toServer[c], Sent(c))

\* The inductive invariant.
EchoInv == TypeOK /\ InLoop /\ \A c \in Clients : InChain(c)

LEMMA ProcsAre ==
    /\ Server \in Procs /\ Server \notin Clients
    /\ \A c \in Clients : c \in Procs /\ c # Server
    /\ ConversationLen \in Nat \ {0} /\ BuffSize \in Nat \ {0}
BY EchoServerAssumption DEF Procs, Server, ConversationLen

\* The types of c's places.
LEMMA PlacesAre ==
    ASSUME TypeOK, NEW c \in Clients
    PROVE  /\ printed[c] \in Seq(Texts) /\ toClient[c] \in Zeroed /\ toServer[c] \in Texts
           /\ Held(c) \in Texts /\ Held(c) \in Zeroed /\ Sent(c) \in Nat /\ i[c] \in Nat
<1>1. printed[c] \in Seq(Texts) /\ toClient[c] \in Zeroed /\ toServer[c] \in Texts
  BY DEF TypeOK, Texts, Zeroed
<1>2. Held(c) \in Texts /\ Held(c) \in Zeroed
  BY DEF TypeOK, Held, Texts, Zeroed
<1>3. i[c] \in Nat /\ Sent(c) \in Nat
  BY ProcsAre DEF TypeOK, Sent
<1>. QED BY <1>1, <1>2, <1>3

\* A step that moves none of c's cells, but may drop what the buffer holds.
LEMMA ChainStays ==
    ASSUME EchoInv, NEW c \in Clients,
           printed'[c] = printed[c], toClient'[c] = toClient[c], toServer'[c] = toServer[c],
           Held(c)' \in {Held(c), << >>}, Sent(c)' \in Nat, Sent(c) <= Sent(c)'
    PROVE  InChain(c)'
<1>1. Chain(c, printed[c], toClient[c], Held(c), toServer[c], Sent(c))
  BY DEF EchoInv, InChain
<1>2. /\ printed[c] \in Seq(Texts) /\ toClient[c] \in Zeroed /\ toServer[c] \in Texts
      /\ Held(c) \in Texts /\ Sent(c) \in Nat
  BY PlacesAre DEF EchoInv
<1>3. Chain(c, printed[c], toClient[c], Held(c), toServer[c], Sent(c)')
  BY <1>1, <1>2, ChainGrows
<1>4. Chain(c, printed[c], toClient[c], << >>, toServer[c], Sent(c)')
  BY <1>3, ChainDrops
<1>5. Chain(c, printed'[c], toClient'[c], Held(c)', toServer'[c], Sent(c)')
  BY <1>3, <1>4
<1>. QED BY <1>5 DEF InChain

-----------------------------------------------------------------------------
\* A turn of the server's loop.
LEMMA ServerTurn ==
    ASSUME TypeOK, InLoop, pc[Server] \in {"read", "write"}, NEW counted, NextTurn(counted)
    PROVE  /\ i' \in [Procs -> 0..ConversationLen]
           /\ pc' \in [Procs -> {"accept", "connect", "read", "write", "close"} \cup Ended]
           /\ pc'[Server] \in {"read", "close"}
           /\ pc'[Server] = "read" => i'[Server] < ConversationLen
           /\ \A c \in Clients : pc'[c] = pc[c] /\ i'[c] = i[c]
<1>1. i[Server] \in Nat /\ i[Server] < ConversationLen /\ ConversationLen \in Nat
  BY ProcsAre DEF TypeOK, InLoop
<1>2. i' \in [Procs -> 0..ConversationLen] /\ i'[Server] = i[Server] + 1
  BY <1>1, ProcsAre DEF NextTurn, TypeOK
<1>3. /\ pc'[Server] = IF i'[Server] = ConversationLen THEN "close" ELSE "read"
      /\ pc' \in [Procs -> {"accept", "connect", "read", "write", "close"} \cup Ended]
  BY ProcsAre DEF NextTurn, TypeOK
<1>4. \A c \in Clients : pc'[c] = pc[c] /\ i'[c] = i[c]
  BY ProcsAre DEF NextTurn, TypeOK
<1>. QED BY <1>1, <1>2, <1>3, <1>4

\* The client at hand is the only one.
LEMMA OneClient ==
    ASSUME InLoop, NEW c \in client_fd, NEW d \in Clients, d # c
    PROVE  d \notin client_fd
BY DEF InLoop

\* The steps of the server that move no cell.
LEMMA QuietServer ==
    ASSUME EchoInv, NEW c \in Clients,
           Accept \/ ServerReadNothing(c) \/ ServerDies(c) \/ ServerClose(c)
    PROVE  EchoInv'
<1>. USE DEF EchoInv
<1>1. /\ UNCHANGED <<buffer, toServer, toClient, printed, shorts, kills>>
      /\ pc'[Server] \in {"accept", "read", "close", "sigpipe"}
      /\ pc' \in [Procs -> {"accept", "connect", "read", "write", "close"} \cup Ended]
      /\ i' \in [Procs -> 0..ConversationLen]
      /\ pc'[Server] = "read" => i'[Server] < ConversationLen
      /\ \A d \in Clients : pc'[d] = pc[d] /\ i'[d] = i[d]
  <2>1. CASE Accept
    <3>1. pc' = [pc EXCEPT ![Server] = "read"] /\ i' = [i EXCEPT ![Server] = 0]
      BY <2>1 DEF Accept, Goto
    <3>2. /\ pc' \in [Procs -> {"accept", "connect", "read", "write", "close"} \cup Ended]
          /\ pc'[Server] = "read" /\ \A d \in Clients : pc'[d] = pc[d]
      BY <3>1, ProcsAre DEF TypeOK
    <3>3. /\ i' \in [Procs -> 0..ConversationLen]
          /\ i'[Server] = 0 /\ \A d \in Clients : i'[d] = i[d]
      BY <3>1, ProcsAre DEF TypeOK
    <3>4. 0 < ConversationLen
      BY ProcsAre
    <3>. QED BY <2>1, <3>2, <3>3, <3>4 DEF Accept
  <2>2. CASE ServerReadNothing(c)
    BY <2>2, ServerTurn DEF ServerReadNothing, server
  <2>3. CASE ServerDies(c)
    BY <2>3, ProcsAre DEF ServerDies, Goto, TypeOK, Ended
  <2>4. CASE ServerClose(c)
    BY <2>4, ProcsAre DEF ServerClose, Goto, TypeOK
  <2>. QED BY <2>1, <2>2, <2>3, <2>4
<1>2. /\ client_fd' \in SUBSET Clients /\ \A d, e \in client_fd' : d = e
      /\ backlog' \in Seq(Clients)
  <2>1. CASE Accept
    BY <2>1 DEF Accept, TypeOK
  <2>2. CASE ServerReadNothing(c)
    BY <2>2 DEF ServerReadNothing, server, TypeOK, InLoop
  <2>3. CASE ServerDies(c)
    BY <2>3 DEF ServerDies
  <2>4. CASE ServerClose(c)
    BY <2>4 DEF ServerClose, TypeOK
  <2>. QED BY <2>1, <2>2, <2>3, <2>4
<1>3. peer' \in [Clients -> ConnectionStates] /\ host' \in [Clients -> ConnectionStates]
  <2>1. CASE Accept
    BY <2>1 DEF Accept, TypeOK
  <2>2. CASE ServerReadNothing(c)
    BY <2>2 DEF ServerReadNothing, TypeOK, ConnectionStates
  <2>3. CASE ServerDies(c)
    BY <2>3 DEF ServerDies, TypeOK, ConnectionStates, Closed
  <2>4. CASE ServerClose(c)
    BY <2>4 DEF ServerClose, TypeOK, ConnectionStates, Closed
  <2>. QED BY <2>1, <2>2, <2>3, <2>4
<1>4. TypeOK'
  BY <1>1, <1>2, <1>3 DEF TypeOK
<1>5. InLoop'
  BY <1>1, <1>2 DEF InLoop
<1>6. ASSUME NEW d \in Clients PROVE InChain(d)'
  <2>1. Held(d)' = << >> /\ Sent(d)' = Sent(d)
    BY <1>1 DEF Held, Sent
  <2>2. Sent(d) \in Nat
    BY PlacesAre
  <2>. QED BY <1>1, <2>1, <2>2, ChainStays
<1>. QED BY <1>4, <1>5, <1>6

\* The server takes a part of what has come.
LEMMA ServerReadKeeps ==
    ASSUME EchoInv, NEW c \in Clients, ServerRead(c)
    PROVE  EchoInv'
<1>. USE DEF EchoInv
<1>1. PICK n \in 1..BuffSize :
        /\ Reads(n, toServer[c])
        /\ buffer' = SubSeq(toServer[c], 1, n)
        /\ toServer' = [toServer EXCEPT ![c] = Drop(toServer[c], n)]
  BY DEF ServerRead, Filled
<1>2. /\ pc[Server] = "read" /\ pc' = [pc EXCEPT ![Server] = "write"] /\ c \in client_fd
      /\ UNCHANGED <<client_fd, i, backlog, toClient, peer, host, printed, kills>>
  BY DEF ServerRead, Goto
<1>3. toServer[c] \in Texts /\ n \in 1..Len(toServer[c]) /\ n <= BuffSize
      /\ shorts' \in 0..MaxShorts
  <2>1. toServer[c] \in Texts /\ Len(toServer[c]) \in Nat /\ n \in Nat \ {0} /\ n <= BuffSize
    BY ProcsAre DEF TypeOK, Texts
  <2>2. n <= Len(toServer[c]) /\ shorts' \in {shorts, shorts + 1} /\ shorts' <= MaxShorts
    BY <1>1 DEF Reads
  <2>3. shorts \in Nat
    BY EchoServerAssumption DEF TypeOK
  <2>. QED BY <2>1, <2>2, <2>3, EchoServerAssumption
<1>4. /\ buffer' \in Texts /\ Len(buffer') <= BuffSize /\ Drop(toServer[c], n) \in Texts
  <2>1. n \in 0..Len(toServer[c])
    BY <1>3
  <2>2. /\ SubSeq(toServer[c], 1, n) \in Texts /\ Drop(toServer[c], n) \in Texts
        /\ Len(SubSeq(toServer[c], 1, n)) = n
    BY <1>3, <2>1, Cut DEF Texts
  <2>. QED BY <1>1, <1>3, <2>2
<1>5. /\ pc'[Server] = "write" /\ \A d \in Clients : pc'[d] = pc[d]
      /\ pc' \in [Procs -> {"accept", "connect", "read", "write", "close"} \cup Ended]
      /\ toServer' \in [Clients -> Texts] /\ toServer'[c] = Drop(toServer[c], n)
      /\ \A d \in Clients : d # c => toServer'[d] = toServer[d]
  <2>1. toServer \in [Clients -> Texts]
    BY DEF TypeOK, Texts
  <2>2. /\ toServer' \in [Clients -> Texts] /\ toServer'[c] = Drop(toServer[c], n)
        /\ \A d \in Clients : d # c => toServer'[d] = toServer[d]
    BY <1>1, <1>4, <2>1
  <2>. QED BY <1>2, <2>2, ProcsAre DEF TypeOK
<1>6. TypeOK'
  BY <1>2, <1>3, <1>4, <1>5 DEF TypeOK, Texts
<1>7. InLoop'
  BY <1>2, <1>5 DEF InLoop
<1>8. ASSUME NEW d \in Clients PROVE InChain(d)'
  <2>1. Held(d) = << >> /\ Sent(d)' = Sent(d) /\ Sent(d) \in Nat
    BY <1>2, <1>5, PlacesAre DEF Held, Sent
  <2>2. CASE d # c
    <3>1. Held(d)' = << >>
      BY <1>2, <2>2, OneClient DEF Held
    <3>. QED BY <1>2, <1>5, <2>1, <2>2, <3>1, ChainStays
  <2>3. CASE d = c
    <3>1. Held(c)' = SubSeq(toServer[c], 1, n)
      BY <1>1, <1>2, <1>5 DEF Held
    <3>2. Chain(c, printed[c], toClient[c], << >>, toServer[c], Sent(c))
      BY <2>1, <2>3 DEF InChain
    <3>3. Chain(c, printed[c], toClient[c], SubSeq(toServer[c], 1, n), Drop(toServer[c], n), Sent(c))
      BY <1>3, <3>2, ChainReads
    <3>4. Chain(c, printed'[c], toClient'[c], Held(c)', toServer'[c], Sent(c)')
      BY <1>2, <1>5, <2>1, <2>3, <3>1, <3>3
    <3>. QED BY <2>3, <3>4 DEF InChain
  <2>. QED BY <2>2, <2>3
<1>. QED BY <1>6, <1>7, <1>8
\* The whole buffer, as it is sent back: the text and zeros behind it.
LEMMA PadIs ==
    ASSUME NEW s \in Texts, Sorted(s), NEW size \in Nat, Len(s) <= size
    PROVE  LET pad == [k \in 1..size |-> IF k <= Len(s) THEN s[k] ELSE Nul] IN
           pad \in Zeroed /\ Elements(pad) = Elements(s) /\ Sorted(pad)
<1>. DEFINE pad == [k \in 1..size |-> IF k <= Len(s) THEN s[k] ELSE Nul]
<1>1. Len(s) \in Nat /\ \A k \in 1..Len(s) : s[k] \in Cells
  BY DEF Texts
<1>2. \A k \in 1..size : /\ pad[k] \in Cells \cup {Nul}
                         /\ pad[k] # Nul => k \in 1..Len(s) /\ pad[k] = s[k]
  BY <1>1
<1>3. \A k \in 1..Len(s) : k \in 1..size /\ pad[k] = s[k]
  BY <1>1
<1>4. pad \in Seq(Cells \cup {Nul}) /\ Len(pad) = size
  <2>1. pad \in [1..size -> Cells \cup {Nul}]
    BY <1>2
  <2>. QED BY <2>1
<1>. HIDE DEF pad
<1>5. Elements(pad) = Elements(s)
  <2>1. ASSUME NEW x \in Elements(pad) PROVE x \in Elements(s)
    <3>1. PICK k \in 1..size : x = pad[k] /\ pad[k] # Nul
      BY <1>4 DEF Elements
    <3>. QED BY <1>2, <3>1 DEF Elements
  <2>2. ASSUME NEW x \in Elements(s) PROVE x \in Elements(pad)
    <3>1. PICK k \in 1..Len(s) : x = s[k] /\ x # Nul
      BY DEF Elements
    <3>. QED BY <1>3, <1>4, <3>1 DEF Elements
  <2>. QED BY <2>1, <2>2
<1>6. Sorted(pad)
  <2>. SUFFICES ASSUME NEW k \in 1..size, NEW l \in 1..size, k < l, pad[k] # Nul, pad[l] # Nul
                PROVE  Before(pad[k], pad[l])
    BY <1>4 DEF Sorted
  <2>. QED BY <1>2 DEF Sorted
<1>. QED BY <1>4, <1>5, <1>6 DEF pad, Zeroed

\* The server sends its buffer back, or loses it on a closed connection.
LEMMA ServerWriteKeeps ==
    ASSUME EchoInv, NEW c \in Clients, ServerWrite(c)
    PROVE  EchoInv'
<1>. USE DEF EchoInv
<1>. DEFINE pad == [k \in 1..BuffSize |-> IF k <= Len(buffer) THEN buffer[k] ELSE Nul]
            back == toClient[c] \o pad
<1>1. /\ pc[Server] = "write" /\ c \in client_fd /\ NextTurn(TRUE)
      /\ UNCHANGED <<client_fd, buffer, backlog, toServer, host, printed, shorts, kills>>
  BY DEF ServerWrite, server
<1>2. \/ toClient' = [toClient EXCEPT ![c] = back] /\ peer' = peer
      \/ toClient' = toClient /\ peer' \in [Clients -> ConnectionStates]
  <2>1. CASE peer[c] = "open"
    BY <2>1 DEF ServerWrite
  <2>2. CASE peer[c] # "open"
    <3>1. /\ toClient' = toClient
          /\ \E next \in {"fin", "broken"} : peer' = [peer EXCEPT ![c] = next]
      BY <2>2 DEF ServerWrite
    <3>. QED BY <3>1 DEF TypeOK, ConnectionStates
  <2>. QED BY <2>1, <2>2
<1>3. Held(c) = buffer /\ buffer \in Texts /\ Len(buffer) <= BuffSize /\ Sorted(buffer)
  <2>1. Held(c) = buffer
    BY <1>1 DEF Held
  <2>. QED BY <2>1 DEF TypeOK, Texts, InChain, Chain
<1>4. pad \in Zeroed /\ Elements(pad) = Elements(buffer) /\ Sorted(pad)
  BY <1>3, ProcsAre, PadIs
<1>. HIDE DEF pad
<1>5. /\ printed[c] \in Seq(Texts) /\ toClient[c] \in Zeroed /\ toServer[c] \in Texts
      /\ back \in Zeroed /\ Chain(c, printed[c], back, << >>, toServer[c], Sent(c))
  <2>1. printed[c] \in Seq(Texts) /\ toClient[c] \in Zeroed /\ toServer[c] \in Texts
    BY PlacesAre
  <2>2. Chain(c, printed[c], toClient[c], buffer, toServer[c], Sent(c))
    BY <1>3 DEF InChain
  <2>3. buffer \in Zeroed
    BY <1>3 DEF Texts, Zeroed
  <2>4. Chain(c, printed[c], back, << >>, toServer[c], Sent(c))
    BY <1>4, <2>1, <2>2, <2>3, ChainReplies
  <2>. QED BY <1>4, <2>1, <2>4, Joined
<1>. HIDE DEF back
<1>6. /\ i' \in [Procs -> 0..ConversationLen]
      /\ pc' \in [Procs -> {"accept", "connect", "read", "write", "close"} \cup Ended]
      /\ pc'[Server] \in {"read", "close"}
      /\ pc'[Server] = "read" => i'[Server] < ConversationLen
      /\ \A d \in Clients : pc'[d] = pc[d] /\ i'[d] = i[d]
  <2>1. pc[Server] \in {"read", "write"}
    BY <1>1
  <2>. QED BY <1>1, <2>1, ServerTurn
<1>7. /\ toClient' \in [Clients -> Zeroed] /\ peer' \in [Clients -> ConnectionStates]
      /\ toClient'[c] \in {back, toClient[c]}
      /\ \A d \in Clients : d # c => toClient'[d] = toClient[d]
  <2>1. toClient \in [Clients -> Zeroed] /\ peer \in [Clients -> ConnectionStates]
    BY DEF TypeOK, Zeroed
  <2>. QED BY <1>2, <1>5, <2>1
<1>8. TypeOK'
  BY <1>1, <1>6, <1>7 DEF TypeOK, Zeroed
<1>9. InLoop'
  BY <1>1, <1>6 DEF InLoop
<1>10. ASSUME NEW d \in Clients PROVE InChain(d)'
  <2>1. Held(d)' = << >> /\ Sent(d)' = Sent(d) /\ Sent(d) \in Nat
    BY <1>6, PlacesAre DEF Held, Sent
  <2>2. CASE d # c \/ toClient'[d] = toClient[d]
    BY <1>1, <1>7, <2>1, <2>2, ChainStays
  <2>3. CASE d = c /\ toClient'[d] = back
    <3>1. Chain(c, printed'[c], toClient'[c], Held(c)', toServer'[c], Sent(c)')
      BY <1>1, <1>5, <2>1, <2>3
    <3>. QED BY <2>3, <3>1 DEF InChain
  <2>. QED BY <1>7, <2>2, <2>3
<1>. QED BY <1>8, <1>9, <1>10

-----------------------------------------------------------------------------
\* A turn of a client's loop: it comes to its end or goes on to its next book.
LEMMA ClientTurnIs ==
    ASSUME EchoInv, NEW c \in Clients, pc[c] \in {"write", "read"}, ClientTurn(c)
    PROVE  /\ i' \in [Procs -> 0..ConversationLen]
           /\ pc' \in [Procs -> {"accept", "connect", "read", "write", "close"} \cup Ended]
           /\ pc'[Server] = pc[Server] /\ i'[Server] = i[Server]
           /\ \A d \in Clients : d # c => pc'[d] = pc[d] /\ i'[d] = i[d]
           /\ i'[c] = i[c] + 1 /\ i[c] \in Nat
           /\ \/ pc'[c] = "done"
              \/ pc'[c] = "write" /\ i'[c] < ConversationLen
           /\ peer' \in [Clients -> ConnectionStates]
<1>. USE DEF EchoInv
<1>1. i[c] \in Nat /\ i[c] < ConversationLen /\ ConversationLen \in Nat /\ c \in Procs /\ c # Server
  BY ProcsAre DEF TypeOK, InLoop
<1>2. /\ i' \in [Procs -> 0..ConversationLen] /\ i'[c] = i[c] + 1 /\ i'[Server] = i[Server]
      /\ \A d \in Clients : d # c => i'[d] = i[d]
  <2>1. i' = [i EXCEPT ![c] = i[c] + 1]
    BY DEF ClientTurn
  <2>2. i[c] + 1 \in 0..ConversationLen
    BY <1>1
  <2>. QED BY <1>1, <2>1, <2>2, ProcsAre DEF TypeOK
<1>3. \E q \in {"done", "write"} : /\ pc' = [pc EXCEPT ![c] = q]
                                   /\ q = "write" => i'[c] # ConversationLen
                                   /\ \/ peer' = peer
                                      \/ peer' = [peer EXCEPT ![c] = Closed(toClient'[c])]
  BY DEF ClientTurn, Goto
<1>4. peer' \in [Clients -> ConnectionStates]
  BY <1>3 DEF TypeOK, ConnectionStates, Closed
<1>5. /\ pc' \in [Procs -> {"accept", "connect", "read", "write", "close"} \cup Ended]
      /\ pc'[Server] = pc[Server] /\ \A d \in Clients : d # c => pc'[d] = pc[d]
      /\ pc'[c] = "done" \/ (pc'[c] = "write" /\ i'[c] # ConversationLen)
  BY <1>1, <1>3, ProcsAre DEF TypeOK, Ended
<1>6. pc'[c] = "write" => i'[c] < ConversationLen
  BY <1>1, <1>2, <1>5
<1>. QED BY <1>1, <1>2, <1>4, <1>5, <1>6

\* The steps of a client that move no cell: it connects, ends, is killed, or has
\* a turn without an echo.
LEMMA QuietClient ==
    ASSUME EchoInv, NEW c \in Clients,
           \/ Connect(c) \/ ClientWriteFails(c) \/ ClientDies(c)
           \/ ClientReadNothing(c) \/ Kill(c)
    PROVE  EchoInv'
<1>. USE DEF EchoInv
<1>0. c \in Procs /\ c # Server /\ i[c] \in Nat
  BY ProcsAre DEF TypeOK
<1>1. UNCHANGED <<client_fd, buffer, toServer, toClient, printed, shorts>>
  BY DEF Connect, ClientWriteFails, ClientDies, ClientReadNothing, Kill, server
<1>2. /\ i' \in [Procs -> 0..ConversationLen]
      /\ pc' \in [Procs -> {"accept", "connect", "read", "write", "close"} \cup Ended]
      /\ pc'[Server] = pc[Server] /\ i'[Server] = i[Server]
      /\ \A d \in Clients : d # c => pc'[d] = pc[d] /\ i'[d] = i[d]
      /\ pc'[c] \in {"write"} \cup Ended /\ Sent(c) <= Sent(c)' /\ Sent(c)' \in Nat
      /\ pc'[c] = "write" => i'[c] < ConversationLen
      /\ peer' \in [Clients -> ConnectionStates]
  <2>1. CASE ClientWriteFails(c) \/ ClientReadNothing(c)
    <3>1. pc[c] \in {"write", "read"} /\ ClientTurn(c)
      BY <2>1 DEF ClientWriteFails, ClientReadNothing
    <3>2. /\ i' \in [Procs -> 0..ConversationLen]
          /\ pc' \in [Procs -> {"accept", "connect", "read", "write", "close"} \cup Ended]
          /\ pc'[Server] = pc[Server] /\ i'[Server] = i[Server]
          /\ \A d \in Clients : d # c => pc'[d] = pc[d] /\ i'[d] = i[d]
          /\ i'[c] = i[c] + 1 /\ i[c] \in Nat
          /\ pc'[c] = "done" \/ (pc'[c] = "write" /\ i'[c] < ConversationLen)
          /\ peer' \in [Clients -> ConnectionStates]
      BY <3>1, ClientTurnIs
    <3>3. Sent(c) \in {i[c], i[c] + 1} /\ Sent(c)' \in {i[c] + 1, i[c] + 2}
      BY <3>2 DEF Sent
    <3>4. Sent(c) <= Sent(c)' /\ Sent(c)' \in Nat
      BY <3>2, <3>3
    <3>. QED BY <3>2, <3>4 DEF Ended
  <2>2. CASE Connect(c)
    <3>1. PICK q \in {"refused", "write"} : pc' = [pc EXCEPT ![c] = q]
      BY <2>2 DEF Connect, Goto
    <3>2. i' = i /\ (peer' = peer \/ peer' = [peer EXCEPT ![c] = "open"]) /\ pc[c] = "connect"
      BY <2>2 DEF Connect, Goto
    <3>3. /\ pc' \in [Procs -> {"accept", "connect", "read", "write", "close"} \cup Ended]
          /\ pc'[c] = q /\ pc'[Server] = pc[Server] /\ \A d \in Clients : d # c => pc'[d] = pc[d]
      BY <1>0, <3>1, ProcsAre DEF TypeOK, Ended
    <3>4. peer' \in [Clients -> ConnectionStates]
      BY <3>2 DEF TypeOK, ConnectionStates
    <3>5. Sent(c) = i[c] /\ Sent(c)' \in {i[c], i[c] + 1}
      BY <3>2, <3>3 DEF Sent
    <3>6. Sent(c) <= Sent(c)' /\ Sent(c)' \in Nat
      BY <1>0, <3>5
    <3>. QED BY <3>2, <3>3, <3>4, <3>6 DEF TypeOK, InLoop, Ended
  <2>3. CASE ClientDies(c) \/ Kill(c)
    <3>1. PICK q \in {"sigpipe", "killed"} : pc' = [pc EXCEPT ![c] = q]
      BY <2>3 DEF ClientDies, Kill, Goto
    <3>2. i' = i /\ peer' = [peer EXCEPT ![c] = Closed(toClient[c])]
      BY <2>3 DEF ClientDies, Kill, Leave
    <3>3. /\ pc' \in [Procs -> {"accept", "connect", "read", "write", "close"} \cup Ended]
          /\ pc'[c] = q /\ pc'[Server] = pc[Server] /\ \A d \in Clients : d # c => pc'[d] = pc[d]
      BY <1>0, <3>1, ProcsAre DEF TypeOK, Ended
    <3>4. peer' \in [Clients -> ConnectionStates]
      BY <3>2 DEF TypeOK, ConnectionStates, Closed
    <3>5. Sent(c) \in {i[c], i[c] + 1} /\ Sent(c)' = i[c] + 1
      BY <3>2, <3>3 DEF Sent
    <3>6. Sent(c) <= Sent(c)' /\ Sent(c)' \in Nat
      BY <1>0, <3>5
    <3>. QED BY <3>2, <3>3, <3>4, <3>6 DEF TypeOK, Ended
  <2>. QED BY <2>1, <2>2, <2>3
<1>3. /\ backlog' \in Seq(Clients) /\ host' \in [Clients -> ConnectionStates]
      /\ kills' \in 0..MaxKills
  <2>1. CASE Connect(c)
    <3>1. /\ backlog' \in {backlog, Append(backlog, c)} /\ kills' = kills
          /\ host' = host \/ host' = [host EXCEPT ![c] = "open"]
      BY <2>1 DEF Connect
    <3>2. Append(backlog, c) \in Seq(Clients)
      BY DEF TypeOK
    <3>. QED BY <3>1, <3>2 DEF TypeOK, ConnectionStates
  <2>2. CASE ClientWriteFails(c) \/ ClientDies(c) \/ ClientReadNothing(c)
    BY <2>2 DEF ClientWriteFails, ClientDies, ClientReadNothing, TypeOK, ConnectionStates
  <2>3. CASE Kill(c)
    BY <2>3, EchoServerAssumption DEF Kill, TypeOK
  <2>. QED BY <2>1, <2>2, <2>3
<1>4. TypeOK'
  <2>1. kills' \in 0..MaxKills
    BY <1>3
  <2>. QED BY <1>1, <1>2, <1>3 DEF TypeOK
<1>5. InLoop'
  BY <1>1, <1>2 DEF InLoop, Ended
<1>6. ASSUME NEW d \in Clients PROVE InChain(d)'
  <2>1. Held(d)' = Held(d)
    BY <1>1, <1>2 DEF Held
  <2>2. Sent(d) <= Sent(d)' /\ Sent(d)' \in Nat
    <3>1. CASE d = c
      BY <1>2, <3>1
    <3>2. CASE d # c
      <4>1. Sent(d)' = Sent(d) /\ Sent(d) \in Nat
        BY <1>2, <3>2, PlacesAre DEF Sent
      <4>. QED BY <4>1
    <3>. QED BY <3>1, <3>2
  <2>. QED BY <1>1, <2>1, <2>2, ChainStays
<1>. QED BY <1>4, <1>5, <1>6

\* A client sends its next book, or loses it on a closed connection.
LEMMA ClientWriteKeeps ==
    ASSUME EchoInv, NEW c \in Clients, ClientWrite(c)
    PROVE  EchoInv'
<1>. USE DEF EchoInv
<1>. DEFINE out == toServer[c] \o Book(c, i[c] + 1)
<1>1. /\ pc[c] = "write" /\ pc' = [pc EXCEPT ![c] = "read"]
      /\ UNCHANGED <<client_fd, buffer, i, backlog, toClient, peer, printed, shorts, kills>>
  BY DEF ClientWrite, Goto, server
<1>2. \/ toServer' = [toServer EXCEPT ![c] = out] /\ host' = host
      \/ toServer' = toServer /\ host' \in [Clients -> ConnectionStates]
  <2>1. CASE host[c] = "open"
    BY <2>1 DEF ClientWrite
  <2>2. CASE host[c] # "open"
    <3>1. \E next \in {"fin", "broken"} : host' = [host EXCEPT ![c] = next] /\ toServer' = toServer
      BY <2>2 DEF ClientWrite
    <3>. QED BY <3>1 DEF TypeOK, ConnectionStates
  <2>. QED BY <2>1, <2>2
<1>3. i[c] \in Nat /\ i[c] < ConversationLen /\ i[c] + 1 \in 1..ConversationLen
  <2>1. i[c] \in Nat /\ i[c] < ConversationLen /\ ConversationLen \in Nat
    BY <1>1, ProcsAre DEF TypeOK, InLoop
  <2>. QED BY <2>1
<1>4. Book(c, i[c] + 1) \in Texts
  BY <1>3, CellsAre
<1>5. /\ printed[c] \in Seq(Texts) /\ toClient[c] \in Zeroed /\ toServer[c] \in Texts
      /\ Held(c) \in Texts /\ out \in Texts
      /\ Chain(c, printed[c], toClient[c], Held(c), out, i[c] + 1)
  <2>1. /\ printed[c] \in Seq(Texts) /\ toClient[c] \in Zeroed /\ toServer[c] \in Texts
        /\ Held(c) \in Texts
    BY PlacesAre
  <2>2. Chain(c, printed[c], toClient[c], Held(c), toServer[c], i[c])
    BY <1>1 DEF InChain, Sent
  <2>3. Chain(c, printed[c], toClient[c], Held(c), out, i[c] + 1)
    BY <1>3, <2>1, <2>2, ChainSends
  <2>4. out \in Texts
    BY <1>4, <2>1 DEF Texts
  <2>. QED BY <2>1, <2>3, <2>4
<1>. HIDE DEF out
<1>6. /\ pc' \in [Procs -> {"accept", "connect", "read", "write", "close"} \cup Ended]
      /\ pc'[c] = "read" /\ pc'[Server] = pc[Server] /\ \A d \in Clients : d # c => pc'[d] = pc[d]
  BY <1>1, ProcsAre DEF TypeOK
<1>7. /\ toServer' \in [Clients -> Texts] /\ host' \in [Clients -> ConnectionStates]
      /\ toServer'[c] \in {out, toServer[c]}
      /\ \A d \in Clients : d # c => toServer'[d] = toServer[d]
  <2>1. toServer \in [Clients -> Texts] /\ host \in [Clients -> ConnectionStates]
    BY DEF TypeOK, Texts
  <2>. QED BY <1>2, <1>5, <2>1
<1>8. TypeOK'
  BY <1>1, <1>6, <1>7 DEF TypeOK, Texts
<1>9. InLoop'
  BY <1>1, <1>3, <1>6 DEF InLoop
<1>10. ASSUME NEW d \in Clients PROVE InChain(d)'
  <2>1. Held(d)' = Held(d)
    BY <1>1, <1>6 DEF Held
  <2>2. CASE d = c
    <3>1. Sent(c) = i[c] /\ Sent(c)' = i[c] + 1
      BY <1>1, <1>6 DEF Sent
    <3>2. CASE toServer'[c] = out
      <4>1. Chain(c, printed'[c], toClient'[c], Held(c)', toServer'[c], Sent(c)')
        BY <1>1, <1>5, <2>1, <2>2, <3>1, <3>2
      <4>. QED BY <2>2, <4>1 DEF InChain
    <3>3. CASE toServer'[c] = toServer[c]
      <4>1. Sent(c)' \in Nat /\ Sent(c) <= Sent(c)'
        BY <1>3, <3>1
      <4>. QED BY <1>1, <2>1, <2>2, <3>3, <4>1, ChainStays
    <3>. QED BY <1>7, <3>2, <3>3
  <2>3. CASE d # c
    <3>1. Sent(d)' = Sent(d) /\ Sent(d) \in Nat
      BY <1>1, <1>6, <2>3, PlacesAre DEF Sent
    <3>2. toServer'[d] = toServer[d] /\ Sent(d) <= Sent(d)' /\ Sent(d)' \in Nat
      BY <1>7, <2>3, <3>1
    <3>. QED BY <1>1, <2>1, <3>2, ChainStays
  <2>. QED BY <2>2, <2>3
<1>. QED BY <1>8, <1>9, <1>10

\* A client reads a part of what came back, and prints the line in it.
LEMMA ClientReadKeeps ==
    ASSUME EchoInv, NEW c \in Clients, ClientRead(c)
    PROVE  EchoInv'
<1>. USE DEF EchoInv
<1>1. PICK n \in 1..BuffSize :
        /\ Reads(n, toClient[c])
        /\ printed' = [printed EXCEPT ![c] = Append(printed[c], Line(SubSeq(toClient[c], 1, n)))]
        /\ toClient' = [toClient EXCEPT ![c] = Drop(toClient[c], n)]
  BY DEF ClientRead
<1>. DEFINE line == Line(SubSeq(toClient[c], 1, n))
            lines == Append(printed[c], line)
            back == Drop(toClient[c], n)
<1>2. /\ pc[c] = "read" /\ ClientTurn(c)
      /\ UNCHANGED <<client_fd, buffer, backlog, toServer, host, kills>>
  BY DEF ClientRead, server
<1>3. n \in 1..Len(toClient[c]) /\ n \in 0..Len(toClient[c]) /\ shorts' \in 0..MaxShorts
  <2>1. Len(toClient[c]) \in Nat /\ n \in Nat \ {0}
    BY ProcsAre DEF TypeOK
  <2>2. n <= Len(toClient[c]) /\ shorts' \in {shorts, shorts + 1} /\ shorts' <= MaxShorts
    BY <1>1 DEF Reads
  <2>3. shorts \in Nat
    BY EchoServerAssumption DEF TypeOK
  <2>. QED BY <2>1, <2>2, <2>3, EchoServerAssumption
<1>4. /\ printed[c] \in Seq(Texts) /\ toClient[c] \in Zeroed /\ toServer[c] \in Texts
      /\ Held(c) \in Texts /\ i[c] \in Nat
  BY PlacesAre
<1>5. line \in Texts /\ Chain(c, lines, back, Held(c), toServer[c], i[c] + 1)
  <2>1. Chain(c, printed[c], toClient[c], Held(c), toServer[c], i[c] + 1)
    BY <1>2 DEF InChain, Sent
  <2>. QED BY <1>3, <1>4, <2>1, ChainPrints
<1>6. lines \in Seq(Texts) /\ back \in Zeroed
  <2>1. back \in Zeroed
    BY <1>3, <1>4, Cut DEF Zeroed
  <2>. QED BY <1>4, <1>5, <2>1
<1>7. /\ printed' = [printed EXCEPT ![c] = lines] /\ toClient' = [toClient EXCEPT ![c] = back]
  BY <1>1
<1>. HIDE DEF line, lines, back
<1>8. /\ i' \in [Procs -> 0..ConversationLen]
      /\ pc' \in [Procs -> {"accept", "connect", "read", "write", "close"} \cup Ended]
      /\ pc'[Server] = pc[Server] /\ i'[Server] = i[Server]
      /\ \A d \in Clients : d # c => pc'[d] = pc[d] /\ i'[d] = i[d]
      /\ i'[c] = i[c] + 1 /\ i[c] \in Nat
      /\ pc'[c] = "done" \/ (pc'[c] = "write" /\ i'[c] < ConversationLen)
      /\ peer' \in [Clients -> ConnectionStates]
  BY <1>2, ClientTurnIs
<1>9. /\ printed' \in [Clients -> Seq(Texts)] /\ toClient' \in [Clients -> Zeroed]
      /\ printed'[c] = lines /\ toClient'[c] = back
      /\ \A d \in Clients : d # c => printed'[d] = printed[d] /\ toClient'[d] = toClient[d]
  <2>1. printed \in [Clients -> Seq(Texts)] /\ toClient \in [Clients -> Zeroed]
    BY DEF TypeOK, Texts, Zeroed
  <2>. QED BY <1>6, <1>7, <2>1
<1>10. TypeOK'
  BY <1>2, <1>3, <1>8, <1>9 DEF TypeOK, Texts, Zeroed
<1>11. InLoop'
  BY <1>2, <1>8 DEF InLoop, Ended
<1>12. ASSUME NEW d \in Clients PROVE InChain(d)'
  <2>1. Held(d)' = Held(d)
    BY <1>2, <1>8 DEF Held
  <2>2. CASE d = c
    <3>1. Sent(c)' \in {i[c] + 1, i[c] + 2}
      BY <1>8 DEF Sent
    <3>2. i[c] + 1 \in Nat /\ Sent(c)' \in Nat /\ i[c] + 1 <= Sent(c)'
      BY <1>4, <3>1
    <3>3. Chain(c, lines, back, Held(c), toServer[c], Sent(c)')
      BY <1>4, <1>5, <1>6, <3>2, ChainGrows
    <3>4. Chain(c, printed'[c], toClient'[c], Held(c)', toServer'[c], Sent(c)')
      BY <1>2, <1>9, <2>1, <2>2, <3>3
    <3>. QED BY <2>2, <3>4 DEF InChain
  <2>3. CASE d # c
    <3>1. Sent(d)' = Sent(d) /\ Sent(d) \in Nat
      BY <1>8, <2>3, PlacesAre DEF Sent
    <3>2. /\ printed'[d] = printed[d] /\ toClient'[d] = toClient[d] /\ toServer'[d] = toServer[d]
          /\ Sent(d) <= Sent(d)' /\ Sent(d)' \in Nat
      BY <1>2, <1>9, <2>3, <3>1
    <3>. QED BY <2>1, <3>2, ChainStays
  <2>. QED BY <2>2, <2>3
<1>. QED BY <1>10, <1>11, <1>12

-----------------------------------------------------------------------------
\* Nothing has been sent and nobody has moved.
LEMMA InitGives == Init => EchoInv
<1>. SUFFICES ASSUME Init PROVE EchoInv
  OBVIOUS
<1>1. TypeOK
  BY ProcsAre, EchoServerAssumption DEF Init, TypeOK, ConnectionStates
<1>2. InLoop
  BY ProcsAre DEF Init, InLoop
<1>3. ASSUME NEW c \in Clients PROVE InChain(c)
  <2>1. printed[c] = << >> /\ toClient[c] = << >> /\ toServer[c] = << >> /\ Held(c) = << >>
    BY DEF Init, Held
  <2>2. Elements(<< >>) = {} /\ Sorted(<< >>)
    BY DEF Elements, Sorted
  <2>. QED BY <2>1, <2>2 DEF InChain, Chain, Ahead
<1>. QED BY <1>1, <1>2, <1>3 DEF EchoInv

\* Every step keeps the invariant.
LEMMA NextKeeps == EchoInv /\ [Next]_vars => EchoInv'
<1>. SUFFICES ASSUME EchoInv, [Next]_vars PROVE EchoInv'
  OBVIOUS
<1>1. ASSUME Accept PROVE EchoInv'
  <2>1. PICK c \in Clients : TRUE
    BY <1>1 DEF Accept, EchoInv, TypeOK
  <2>. QED BY <1>1, <2>1, QuietServer
<1>2. ASSUME NEW c \in Clients, ServerRead(c) PROVE EchoInv'
  BY <1>2, ServerReadKeeps
<1>3. ASSUME NEW c \in Clients, ServerWrite(c) PROVE EchoInv'
  BY <1>3, ServerWriteKeeps
<1>4. ASSUME NEW c \in Clients, ServerReadNothing(c) \/ ServerDies(c) \/ ServerClose(c) PROVE EchoInv'
  BY <1>4, QuietServer
<1>5. ASSUME NEW c \in Clients, ClientWrite(c) PROVE EchoInv'
  BY <1>5, ClientWriteKeeps
<1>6. ASSUME NEW c \in Clients, ClientRead(c) PROVE EchoInv'
  BY <1>6, ClientReadKeeps
<1>7. ASSUME NEW c \in Clients,
             \/ Connect(c) \/ ClientWriteFails(c) \/ ClientDies(c)
             \/ ClientReadNothing(c) \/ Kill(c)
      PROVE  EchoInv'
  BY <1>7, QuietClient
<1>8. CASE UNCHANGED vars
  <2>1. UNCHANGED <<pc, client_fd, buffer, i, backlog, toServer, toClient, peer, host, printed,
                    shorts, kills>>
    BY <1>8 DEF vars, server, net
  <2>2. TypeOK'
    BY <2>1 DEF EchoInv, TypeOK
  <2>3. InLoop'
    BY <2>1 DEF EchoInv, InLoop
  <2>4. ASSUME NEW c \in Clients PROVE InChain(c)'
    <3>1. Held(c)' = Held(c) /\ Sent(c)' = Sent(c) /\ Sent(c) \in Nat
      BY <2>1, PlacesAre DEF Held, Sent, EchoInv
    <3>. QED BY <2>1, <3>1, ChainStays
  <2>. QED BY <2>2, <2>3, <2>4 DEF EchoInv
<1>9. CASE ServerStep
  BY <1>1, <1>2, <1>3, <1>4, <1>9 DEF ServerStep
<1>10. CASE \E c \in Clients : ClientStep(c) \/ Kill(c)
  BY <1>5, <1>6, <1>7, <1>10 DEF ClientStep
<1>. QED BY <1>8, <1>9, <1>10 DEF Next

\* The invariant says of every client what it prints.
LEMMA InvGives == EchoInv => OwnEchoes
<1>. SUFFICES ASSUME EchoInv, NEW c \in Clients,
                     NEW l \in 1..Len(printed[c]), NEW k \in 1..Len(printed[c][l])
              PROVE  /\ printed[c][l][k][1] = c
                     /\ \A m \in 1..l : \A j \in 1..Len(printed[c][m]) :
                           m < l \/ j < k => Before(printed[c][m][j], printed[c][l][k])
  BY DEF OwnEchoes
<1>. DEFINE lines == printed[c]
<1>1. /\ lines \in Seq(Texts)
      /\ Chain(c, lines, toClient[c], Held(c), toServer[c], Sent(c))
  BY PlacesAre DEF EchoInv, InChain
<1>. HIDE DEF lines
<1>2. l \in 1..Len(lines) /\ k \in 1..Len(lines[l]) /\ Len(lines) \in Nat
  BY <1>1 DEF lines
<1>3. \A m \in 1..Len(lines) : /\ lines[m] \in Texts
                               /\ \A j \in 1..Len(lines[m]) : lines[m][j] \in Elements(lines[m])
  <2>. SUFFICES ASSUME NEW m \in 1..Len(lines), NEW j \in 1..Len(lines[m])
                PROVE  lines[m][j] \in Elements(lines[m])
    BY <1>1
  <2>1. lines[m] \in Seq(Cells)
    BY <1>1 DEF Texts
  <2>2. lines[m][j] \in Cells
    BY <2>1
  <2>. QED BY <2>2, CellsAre DEF Elements
<1>4. lines[l][k][1] = c
  BY <1>1, <1>2, <1>3 DEF Chain
<1>5. ASSUME NEW m \in 1..l, NEW j \in 1..Len(lines[m]), m < l \/ j < k
      PROVE  Before(lines[m][j], lines[l][k])
  <2>1. l \in Nat /\ m \in 1..Len(lines)
    BY <1>2
  <2>2. lines[m][j] \in Elements(lines[m]) /\ lines[l][k] \in Elements(lines[l])
    BY <1>2, <1>3, <2>1
  <2>3. CASE m < l
    <3>1. m \in 1..(l - 1)
      BY <2>1, <2>3
    <3>2. Ahead(Elements(lines[m]), Elements(lines[l]))
      BY <1>1, <1>2, <3>1 DEF Chain
    <3>. QED BY <2>2, <3>2 DEF Ahead
  <2>4. CASE m = l /\ j < k
    <3>1. Sorted(lines[l])
      BY <1>1, <1>2 DEF Chain
    <3>2. lines[l][j] # Nul /\ lines[l][k] # Nul /\ j \in 1..Len(lines[l])
      BY <2>2, <2>4 DEF Elements
    <3>. QED BY <1>2, <2>4, <3>1, <3>2 DEF Sorted
  <2>5. m < l \/ (m = l /\ j < k)
    BY <1>5, <2>1
  <2>. QED BY <2>3, <2>4, <2>5
<1>. QED BY <1>4, <1>5 DEF lines

-----------------------------------------------------------------------------
\* The variables keep their types: no loop runs past its books, and the buffer
\* never holds more than it has room for.
THEOREM TypeCorrect == Spec => []TypeOK
<1>1. EchoInv => TypeOK
  BY DEF EchoInv
<1>. QED BY <1>1, InitGives, NextKeeps, PTL DEF Spec

\* Whatever a client prints are pieces of its own books in the order it wrote
\* them, none of them twice: server.c:51-56 and client.c:40-53, however the
\* streams are cut and whoever is killed.
THEOREM OwnEchoesCorrect == Spec => []OwnEchoes
BY InitGives, NextKeeps, InvGives, PTL DEF Spec

-----------------------------------------------------------------------------
(* Conversations that are not cut *)

Waits(c) == \E k \in 1..Len(backlog) : backlog[k] = c
Quiet(c) == toServer[c] = << >> /\ toClient[c] = << >>

\* A text as it is sent back, with the zeros behind it.
Padded(text) == [k \in 1..BuffSize |-> IF k <= Len(text) THEN text[k] ELSE Nul]

\* The server has one client, or waits for one that is not at it.
ServerInStep ==
    /\ pc[Server] # "sigpipe"
    /\ pc[Server] = "accept" <=> client_fd = {}
    /\ pc[Server] = "close" => i[Server] = ConversationLen
    /\ \A j, k \in 1..Len(backlog) : j # k => backlog[j] # backlog[k]
    /\ \A c \in client_fd : ~ Waits(c)

\* Where the book is that client c has sent: on its way, in the server's
\* buffer, or on its way back; after the last of them the server may be gone.
Unread(c) ==
    /\ toServer[c] = Book(c, i[c] + 1) /\ toClient[c] = << >>
    /\ Waits(c) \/ c \in client_fd
    /\ c \in client_fd => pc[Server] = "read" /\ i[Server] = i[c]

Buffered(c) ==
    /\ Quiet(c) /\ c \in client_fd
    /\ pc[Server] = "write" /\ i[Server] = i[c] /\ buffer = Book(c, i[c] + 1)

Answered(c) ==
    /\ toServer[c] = << >> /\ toClient[c] = Padded(Book(c, i[c] + 1)) /\ ~ Waits(c)
    /\ IF c \in client_fd THEN pc[Server] \in {"read", "close"} /\ i[Server] = i[c] + 1
                          ELSE i[c] + 1 = ConversationLen

\* Client and server are at the same book.  What a client that was killed has
\* left to be read comes before the server can know of a reset.
ClientInStep(c) ==
    /\ pc[c] \in {"connect", "write", "read", "killed", "done"}
    /\ pc[c] = "connect" => i[c] = 0 /\ Quiet(c) /\ ~ Waits(c) /\ c \notin client_fd
    /\ pc[c] \in {"connect", "write", "read"} => printed[c] = [b \in 1..i[c] |-> Book(c, b)]
    /\ pc[c] \in {"write", "read"} =>
         /\ peer[c] = "open"
         /\ Waits(c) => i[c] = 0
         /\ Waits(c) \/ c \in client_fd => host[c] = "open"
    /\ pc[c] = "write" =>
         /\ Quiet(c) /\ (Waits(c) \/ c \in client_fd)
         /\ c \in client_fd => pc[Server] = "read" /\ i[Server] = i[c]
    /\ pc[c] = "read" => Unread(c) \/ Buffered(c) \/ Answered(c)
    /\ pc[c] = "killed" =>
         /\ peer[c] \in {"fin", "reset", "broken"}
         /\ toServer[c] # << >> =>
               peer[c] = "fin" /\ \E b \in 1..ConversationLen : toServer[c] = Book(c, b)
         /\ c \in client_fd /\ pc[Server] = "write" => toServer[c] = << >> /\ peer[c] = "fin"
    /\ pc[c] = "done" =>
         /\ printed[c] = [b \in 1..ConversationLen |-> Book(c, b)]
         /\ ~ Waits(c) /\ (c \in client_fd => pc[Server] = "close")

InStep == ServerInStep /\ \A c \in Clients : ClientInStep(c)

LEMMA OthersStay ==
    ASSUME NEW d \in Clients, ClientInStep(d),
           pc'[d] = pc[d], i'[d] = i[d], peer'[d] = peer[d], host'[d] = host[d],
           toServer'[d] = toServer[d], toClient'[d] = toClient[d], printed'[d] = printed[d],
           Waits(d)' <=> Waits(d), d \in client_fd' <=> d \in client_fd,
           d \in client_fd => pc'[Server] = pc[Server] /\ i'[Server] = i[Server] /\ buffer' = buffer
    PROVE  ClientInStep(d)'
<1>1. /\ Quiet(d)' <=> Quiet(d)
      /\ Unread(d)' <=> Unread(d)
      /\ Buffered(d)' <=> Buffered(d)
      /\ Answered(d)' <=> Answered(d)
  BY DEF Quiet, Unread, Buffered, Answered
<1>. QED BY <1>1 DEF ClientInStep

\* A book fits in a buffer and has no zero in it.
LEMMA BookIs ==
    ASSUME NEW c \in Clients, NEW b \in 1..ConversationLen
    PROVE  /\ Book(c, b) \in Texts /\ Book(c, b) # << >>
           /\ Len(Book(c, b)) \in 1..BuffSize
           /\ \A k \in 1..Len(Book(c, b)) : Book(c, b)[k] # Nul
<1>1. Pieces[b] \in Nat \ {0} /\ Pieces[b] <= BuffSize
  BY EchoServerAssumption, BooksFit DEF ConversationLen
<1>2. Book(c, b) \in Texts
  BY CellsAre
<1>3. Len(Book(c, b)) = Pieces[b]
  BY <1>1, <1>2 DEF Book, Texts
<1>4. \A k \in 1..Len(Book(c, b)) : Book(c, b)[k] # Nul
  BY <1>2, CellsAre DEF Texts
<1>5. Len(Book(c, b)) \in 1..BuffSize
  BY <1>1, <1>3, ProcsAre
<1>6. Book(c, b) # << >>
  BY <1>1, <1>3
<1>. QED BY <1>2, <1>4, <1>5, <1>6

\* What puts prints of an answer is the book.
LEMMA LineOfBook ==
    ASSUME NEW t \in Texts, Len(t) \in 1..BuffSize, \A k \in 1..Len(t) : t[k] # Nul
    PROVE  /\ Padded(t) # << >> /\ Len(Padded(t)) = BuffSize
           /\ Line(SubSeq(Padded(t), 1, BuffSize)) = t /\ Drop(Padded(t), BuffSize) = << >>
<1>. DEFINE p == Padded(t)
            s == SubSeq(p, 1, BuffSize)
<1>1. BuffSize \in Nat \ {0} /\ Len(t) \in Nat
  BY ProcsAre DEF Texts
<1>2. p \in Zeroed /\ Len(p) = BuffSize
  <2>1. \A k \in 1..Len(t) : t[k] \in Cells
    BY DEF Texts
  <2>2. p \in [1..BuffSize -> Cells \cup {Nul}]
    BY <1>1, <2>1 DEF Padded
  <2>. QED BY <1>1, <2>2 DEF Zeroed
<1>3. \A k \in 1..BuffSize : p[k] = IF k <= Len(t) THEN t[k] ELSE Nul
  BY DEF Padded
<1>. HIDE DEF p
<1>4. s \in Zeroed /\ Len(s) = BuffSize /\ \A k \in 1..BuffSize : s[k] = p[k]
  BY <1>1, <1>2 DEF Zeroed
<1>. HIDE DEF s
<1>5. PICK n \in 0..BuffSize :
         /\ Line(s) = SubSeq(s, 1, n) /\ \A k \in 1..n : s[k] # Nul
         /\ n = BuffSize \/ s[n + 1] = Nul
  BY <1>4, LineIs
<1>6. n = Len(t)
  <2>1. ~ n < Len(t)
    <3>1. SUFFICES ASSUME n < Len(t) PROVE FALSE
      OBVIOUS
    <3>2. n + 1 \in 1..BuffSize /\ n + 1 \in 1..Len(t) /\ n # BuffSize
      BY <1>1, <3>1
    <3>. QED BY <1>3, <1>4, <1>5, <3>2
  <2>2. ~ n > Len(t)
    <3>1. SUFFICES ASSUME n > Len(t) PROVE FALSE
      OBVIOUS
    <3>2. Len(t) + 1 \in 1..BuffSize /\ Len(t) + 1 \in 1..n /\ ~ (Len(t) + 1 <= Len(t))
      BY <1>1, <3>1
    <3>. QED BY <1>3, <1>4, <1>5, <3>2
  <2>. QED BY <1>1, <2>1, <2>2
<1>7. SubSeq(s, 1, n) = t
  <2>1. n \in 0..Len(s)
    BY <1>4
  <2>2. SubSeq(s, 1, n) \in Seq(Cells \cup {Nul}) /\ Len(SubSeq(s, 1, n)) = n
    BY <1>4, <2>1, Cut DEF Zeroed
  <2>3. \A k \in 1..n : SubSeq(s, 1, n)[k] = s[k] /\ s[k] = t[k]
    BY <1>1, <1>3, <1>4, <1>6, <2>1 DEF Zeroed
  <2>. QED BY <1>6, <2>2, <2>3 DEF Texts
<1>8. Drop(p, BuffSize) = << >>
  BY <1>1, <1>2 DEF Drop, Zeroed
<1>9. p # << >>
  BY <1>1, <1>2
<1>. QED BY <1>2, <1>5, <1>7, <1>8, <1>9 DEF p, s

\* A read that is not short brings all there is.
LEMMA ReadsAll ==
    ASSUME TypeOK, NEW S, NEW s \in Seq(S), Len(s) <= BuffSize, NEW n \in 1..BuffSize, Reads(n, s), shorts' = 0
    PROVE  n = Len(s) /\ shorts = 0
<1>1. shorts \in Nat /\ Len(s) \in Nat /\ BuffSize \in Nat
  BY ProcsAre, EchoServerAssumption DEF TypeOK
<1>. QED BY <1>1 DEF Reads

\* What every step of the server on client c leaves alone.
LEMMA OneInStep ==
    ASSUME InLoop, InStep, NEW c \in Clients, c \in client_fd, client_fd' \in {client_fd, {}},
           \A d \in Clients \ {c} :
              /\ pc'[d] = pc[d] /\ i'[d] = i[d] /\ peer'[d] = peer[d] /\ host'[d] = host[d]
              /\ toServer'[d] = toServer[d] /\ toClient'[d] = toClient[d] /\ printed'[d] = printed[d],
           backlog' = backlog,
           ServerInStep', ClientInStep(c)'
    PROVE  InStep'
<1>1. ASSUME NEW d \in Clients, d # c PROVE ClientInStep(d)'
  <2>1. d \notin client_fd /\ d \notin client_fd'
    BY <1>1, OneClient
  <2>2. Waits(d)' <=> Waits(d)
    BY DEF Waits
  <2>3. /\ pc'[d] = pc[d] /\ i'[d] = i[d] /\ peer'[d] = peer[d] /\ host'[d] = host[d]
        /\ toServer'[d] = toServer[d] /\ toClient'[d] = toClient[d] /\ printed'[d] = printed[d]
    BY <1>1
  <2>4. ClientInStep(d)
    BY DEF InStep
  <2>. QED BY <2>1, <2>2, <2>3, <2>4, OthersStay
<1>2. ASSUME NEW d \in Clients PROVE ClientInStep(d)'
  BY <1>1
<1>. QED BY <1>2 DEF InStep

LEMMA AcceptInStep ==
    ASSUME TypeOK, InLoop, InStep, Accept
    PROVE  InStep'
<1>1. /\ pc[Server] = "accept" /\ pc' = [pc EXCEPT ![Server] = "read"]
      /\ i' = [i EXCEPT ![Server] = 0]
      /\ backlog # << >> /\ client_fd' = {Head(backlog)} /\ backlog' = Tail(backlog)
      /\ UNCHANGED <<buffer, toServer, toClient, peer, host, printed, shorts, kills>>
  BY DEF Accept, Goto
<1>2. /\ pc'[Server] = "read" /\ i'[Server] = 0
      /\ \A d \in Clients : pc'[d] = pc[d] /\ i'[d] = i[d]
  BY <1>1, ProcsAre DEF TypeOK
<1>3. PICK c : c = Head(backlog)
  OBVIOUS
<1>4. /\ c \in Clients /\ c = backlog[1] /\ Len(backlog) \in Nat \ {0}
      /\ Len(backlog') = Len(backlog) - 1
      /\ \A k \in 1..Len(backlog') : backlog'[k] = backlog[k + 1]
  BY <1>1, <1>3 DEF TypeOK
<1>5. /\ \A j, k \in 1..Len(backlog) : j # k => backlog[j] # backlog[k]
      /\ client_fd = {}
  BY <1>1 DEF InStep, ServerInStep
<1>6. /\ \A j, k \in 1..Len(backlog') : j # k => backlog'[j] # backlog'[k]
      /\ \A k \in 1..Len(backlog') : backlog'[k] # c
  <2>1. \A k \in 1..Len(backlog') : k + 1 \in 1..Len(backlog) /\ k + 1 # 1 /\ k \in Nat
    BY <1>4
  <2>2. 1 \in 1..Len(backlog)
    BY <1>4
  <2>. QED BY <1>4, <1>5, <2>1, <2>2
<1>7. Waits(c) /\ ~ Waits(c)'
  BY <1>4, <1>6 DEF Waits
<1>8. ASSUME NEW d \in Clients, d # c PROVE Waits(d)' <=> Waits(d)
  <2>1. ASSUME NEW k \in 1..Len(backlog), backlog[k] = d PROVE Waits(d)'
    <3>1. k - 1 \in 1..Len(backlog') /\ (k - 1) + 1 = k
      BY <1>4, <1>8, <2>1
    <3>2. backlog'[k - 1] = d
      BY <1>4, <2>1, <3>1
    <3>. QED BY <3>1, <3>2 DEF Waits
  <2>2. ASSUME NEW k \in 1..Len(backlog'), backlog'[k] = d PROVE Waits(d)
    <3>1. k + 1 \in 1..Len(backlog) /\ backlog[k + 1] = d
      BY <1>4, <2>2
    <3>. QED BY <3>1 DEF Waits
  <2>. QED BY <2>1, <2>2 DEF Waits
<1>9. ServerInStep'
  BY <1>1, <1>2, <1>3, <1>6, <1>7 DEF ServerInStep
<1>10. ASSUME NEW d \in Clients, d # c PROVE ClientInStep(d)'
  <2>1. Waits(d)' <=> Waits(d)
    BY <1>8, <1>10
  <2>2. d \notin client_fd /\ d \notin client_fd'
    BY <1>1, <1>3, <1>5, <1>10
  <2>3. ClientInStep(d)
    BY DEF InStep
  <2>. QED BY <1>1, <1>2, <2>1, <2>2, <2>3, OthersStay
<1>11. ClientInStep(c)'
  <2>1. ClientInStep(c) /\ c \in Clients
    BY <1>4 DEF InStep
  <2>2. c \in client_fd' /\ c \notin client_fd
    BY <1>1, <1>3, <1>5
  <2>3. Quiet(c)' <=> Quiet(c)
    BY <1>1 DEF Quiet
  <2>4. ASSUME pc[c] = "read" PROVE Unread(c)'
    <3>1. Unread(c) /\ i[c] = 0
      BY <1>7, <2>1, <2>2, <2>4 DEF ClientInStep, Buffered, Answered
    <3>. QED BY <1>1, <1>2, <1>4, <2>2, <3>1 DEF Unread
  <2>5. pc'[c] = pc[c] /\ i'[c] = i[c] /\ peer' = peer /\ host' = host /\ toServer' = toServer /\ printed' = printed
    BY <1>1, <1>2, <1>4
  <2>. QED BY <1>2, <1>7, <2>1, <2>2, <2>3, <2>4, <2>5 DEF ClientInStep
<1>. QED BY <1>9, <1>10, <1>11 DEF InStep

\* What has been sent is read as a whole.
LEMMA ServerReadInStep ==
    ASSUME TypeOK, InLoop, InStep, NEW c \in Clients, ServerRead(c), shorts' = 0
    PROVE  InStep'
<1>1. PICK n \in 1..BuffSize :
        /\ Reads(n, toServer[c])
        /\ buffer' = SubSeq(toServer[c], 1, n)
        /\ toServer' = [toServer EXCEPT ![c] = Drop(toServer[c], n)]
  BY DEF ServerRead, Filled
<1>2. /\ pc[Server] = "read" /\ pc' = [pc EXCEPT ![Server] = "write"] /\ c \in client_fd
      /\ UNCHANGED <<client_fd, i, backlog, toClient, peer, host, printed, kills>>
  BY DEF ServerRead, Goto
<1>3. pc'[Server] = "write" /\ \A d \in Clients : pc'[d] = pc[d]
  BY <1>2, ProcsAre DEF TypeOK
<1>4. ClientInStep(c) /\ ~ Waits(c) /\ toServer[c] \in Texts
  BY <1>2 DEF InStep, ServerInStep, TypeOK, Texts
<1>5. toServer[c] # << >>
  <2>1. n <= Len(toServer[c]) /\ n \in Nat \ {0}
    BY <1>1, ProcsAre DEF Reads
  <2>. QED BY <2>1
<1>6. \/ pc[c] = "read" /\ Unread(c)
      \/ /\ pc[c] = "killed" /\ peer[c] = "fin"
         /\ \E b \in 1..ConversationLen : toServer[c] = Book(c, b)
  BY <1>2, <1>4, <1>5 DEF ClientInStep, Quiet, Buffered, Answered
<1>7. PICK b \in 1..ConversationLen : toServer[c] = Book(c, b) /\ (pc[c] = "read" => b = i[c] + 1)
  <2>1. pc[c] = "read" => i[c] + 1 \in 1..ConversationLen
    BY ProcsAre DEF TypeOK, InLoop
  <2>. QED BY <1>6, <2>1 DEF Unread
<1>8. n = Len(toServer[c])
  <2>1. Len(toServer[c]) <= BuffSize /\ toServer[c] \in Seq(Cells)
    BY <1>7, BookIs, ProcsAre DEF Texts
  <2>. QED BY <1>1, <2>1, ReadsAll
<1>9. /\ buffer' = Book(c, b) /\ toServer'[c] = << >>
      /\ \A d \in Clients : d # c => toServer'[d] = toServer[d]
  <2>1. SubSeq(toServer[c], 1, n) = toServer[c] /\ Drop(toServer[c], n) = << >>
    BY <1>4, <1>8 DEF Drop, Texts
  <2>. QED BY <1>1, <1>7, <2>1 DEF TypeOK
<1>10. ClientInStep(c)'
  <2>1. Waits(c)' <=> Waits(c)
    BY <1>2 DEF Waits
  <2>2. CASE pc[c] = "read" /\ Unread(c)
    <3>1. Buffered(c)'
      BY <1>2, <1>3, <1>7, <1>9, <2>2 DEF Buffered, Quiet, Unread
    <3>. QED BY <1>2, <1>3, <1>4, <2>1, <2>2, <3>1 DEF ClientInStep
  <2>3. CASE pc[c] = "killed" /\ peer[c] = "fin"
    <3>1. pc'[c] = "killed" /\ peer'[c] = "fin"
      BY <1>2, <1>3, <2>3
    <3>. QED BY <1>9, <3>1 DEF ClientInStep
  <2>. QED BY <1>6, <2>2, <2>3
<1>11. ServerInStep'
  BY <1>2, <1>3 DEF InStep, ServerInStep, Waits
<1>. QED BY <1>2, <1>3, <1>9, <1>10, <1>11, OneInStep

\* A turn without data is one with a client that is gone.
LEMMA ServerReadNothingInStep ==
    ASSUME TypeOK, InLoop, InStep, NEW c \in Clients, ServerReadNothing(c)
    PROVE  InStep'
<1>1. /\ pc[Server] = "read" /\ c \in client_fd /\ NextTurn(FALSE)
      /\ toServer[c] = << >> /\ peer[c] # "open"
      /\ peer' = [peer EXCEPT ![c] = IF @ = "reset" THEN "broken" ELSE @]
      /\ UNCHANGED <<client_fd, buffer, backlog, toServer, toClient, host, printed, shorts>>
  BY DEF ServerReadNothing, server
<1>2. /\ pc'[Server] \in {"read", "close"}
      /\ pc'[Server] = "close" => i'[Server] = ConversationLen
      /\ \A d \in Clients : pc'[d] = pc[d] /\ i'[d] = i[d]
  BY <1>1, ProcsAre DEF NextTurn, TypeOK
<1>3. ClientInStep(c) /\ ~ Waits(c)
  BY <1>1 DEF InStep, ServerInStep
<1>4. pc[c] = "killed"
  BY <1>1, <1>3 DEF ClientInStep
<1>5. peer'[c] \in {"fin", "reset", "broken"} /\ \A d \in Clients : d # c => peer'[d] = peer[d]
  BY <1>1, <1>3, <1>4 DEF ClientInStep, TypeOK
<1>6. ClientInStep(c)'
  BY <1>1, <1>2, <1>4, <1>5 DEF ClientInStep
<1>7. ServerInStep'
  BY <1>1, <1>2 DEF InStep, ServerInStep, Waits
<1>. QED BY <1>1, <1>2, <1>5, <1>6, <1>7, OneInStep

LEMMA ServerWriteInStep ==
    ASSUME TypeOK, InLoop, InStep, NEW c \in Clients, ServerWrite(c)
    PROVE  InStep'
<1>1. /\ pc[Server] = "write" /\ c \in client_fd /\ NextTurn(TRUE) /\ peer[c] # "broken"
      /\ UNCHANGED <<client_fd, buffer, backlog, toServer, host, printed, shorts>>
  BY DEF ServerWrite, server
<1>2. /\ pc'[Server] \in {"read", "close"} /\ i'[Server] = i[Server] + 1
      /\ pc'[Server] = "close" => i'[Server] = ConversationLen
      /\ \A d \in Clients : pc'[d] = pc[d] /\ i'[d] = i[d]
  BY <1>1, ProcsAre DEF NextTurn, TypeOK
<1>3. ClientInStep(c) /\ ~ Waits(c)
  BY <1>1 DEF InStep, ServerInStep
<1>4. \/ pc[c] = "read" /\ Buffered(c) /\ peer[c] = "open"
      \/ pc[c] = "killed" /\ toServer[c] = << >> /\ peer[c] = "fin"
  BY <1>1, <1>3 DEF ClientInStep, Unread, Answered
<1>5. ServerInStep'
  BY <1>1, <1>2 DEF InStep, ServerInStep, Waits
<1>6. CASE pc[c] = "read" /\ Buffered(c) /\ peer[c] = "open"
  <2>1. toClient' = [toClient EXCEPT ![c] = toClient[c] \o Padded(buffer)] /\ peer' = peer
    BY <1>6 DEF ServerWrite, Padded
  <2>2. Padded(buffer) \in Seq(Cells \cup {Nul})
    <3>1. /\ BuffSize \in Nat /\ Len(buffer) \in Nat /\ \A k \in 1..Len(buffer) : buffer[k] \in Cells
      BY ProcsAre DEF TypeOK
    <3>2. Padded(buffer) \in [1..BuffSize -> Cells \cup {Nul}]
      BY <3>1 DEF Padded
    <3>. QED BY <3>1, <3>2
  <2>3. toClient[c] = << >>
    BY <1>6 DEF Buffered, Quiet
  <2>4. toClient'[c] = Padded(buffer) /\ \A d \in Clients : d # c => toClient'[d] = toClient[d]
    BY <2>1, <2>2, <2>3 DEF TypeOK
  <2>5. Padded(buffer) = Padded(Book(c, i[c] + 1))
    BY <1>6 DEF Buffered
  <2>6. Answered(c)'
    BY <1>1, <1>2, <1>3, <1>6, <2>4, <2>5 DEF Answered, Buffered, Quiet, Waits
  <2>7. ClientInStep(c)'
    BY <1>1, <1>2, <1>3, <1>6, <2>1, <2>6 DEF ClientInStep, Waits
  <2>. QED BY <1>1, <1>2, <1>5, <2>1, <2>4, <2>7, OneInStep
<1>7. CASE pc[c] = "killed" /\ toServer[c] = << >> /\ peer[c] = "fin"
  <2>1. PICK next \in {"fin", "broken"} : peer' = [peer EXCEPT ![c] = next] /\ toClient' = toClient
    BY <1>7 DEF ServerWrite
  <2>2. peer'[c] \in {"fin", "broken"} /\ \A d \in Clients : d # c => peer'[d] = peer[d]
    BY <2>1 DEF TypeOK
  <2>3. ClientInStep(c)'
    BY <1>1, <1>2, <1>7, <2>2 DEF ClientInStep
  <2>. QED BY <1>1, <1>2, <1>5, <2>1, <2>2, <2>3, OneInStep
<1>. QED BY <1>4, <1>6, <1>7

LEMMA ServerEndsInStep ==
    ASSUME TypeOK, InLoop, InStep, NEW c \in Clients, ServerDies(c) \/ ServerClose(c)
    PROVE  InStep'
<1>1. ClientInStep(c)
  BY DEF InStep
<1>2. ~ ServerDies(c)
  BY <1>1 DEF ServerDies, Goto, ClientInStep, Unread, Buffered, Answered
<1>3. /\ pc[Server] = "close" /\ pc' = [pc EXCEPT ![Server] = "accept"] /\ c \in client_fd
      /\ host' = [host EXCEPT ![c] = IF @ = "open" THEN Closed(toServer[c]) ELSE @]
      /\ client_fd' = {}
      /\ UNCHANGED <<buffer, i, backlog, toServer, toClient, peer, printed, shorts>>
  BY <1>2 DEF ServerClose, Goto
<1>4. pc'[Server] = "accept" /\ \A d \in Clients : pc'[d] = pc[d]
  BY <1>3, ProcsAre DEF TypeOK
<1>5. i[Server] = ConversationLen /\ ~ Waits(c)
  BY <1>3 DEF InStep, ServerInStep
<1>6. ServerInStep'
  BY <1>3, <1>4 DEF InStep, ServerInStep
<1>7. pc[c] \in {"read", "killed", "done"} /\ (pc[c] = "read" => Answered(c) /\ i[c] + 1 = ConversationLen)
  BY <1>1, <1>3, <1>5 DEF ClientInStep, Unread, Buffered, Answered
<1>8. ~ Waits(c)' /\ c \notin client_fd'
  BY <1>3, <1>5 DEF Waits
<1>9. Answered(c) /\ i[c] + 1 = ConversationLen => Answered(c)'
  BY <1>3, <1>8 DEF Answered
<1>10. ClientInStep(c)'
  BY <1>1, <1>3, <1>4, <1>7, <1>8, <1>9 DEF ClientInStep
<1>11. \A d \in Clients : d # c => host'[d] = host[d]
  BY <1>3 DEF TypeOK
<1>. QED BY <1>3, <1>4, <1>6, <1>10, <1>11, OneInStep

\* What every step of client c leaves alone.
LEMMA ClientAlone ==
    ASSUME TypeOK, InStep, NEW c \in Clients,
           UNCHANGED <<client_fd, buffer, backlog>>, pc'[Server] = pc[Server], i'[Server] = i[Server],
           \A d \in Clients \ {c} :
              /\ pc'[d] = pc[d] /\ i'[d] = i[d] /\ peer'[d] = peer[d] /\ host'[d] = host[d]
              /\ toServer'[d] = toServer[d] /\ toClient'[d] = toClient[d] /\ printed'[d] = printed[d],
           ClientInStep(c)'
    PROVE  InStep'
<1>1. ServerInStep'
  BY DEF InStep, ServerInStep, Waits
<1>2. ASSUME NEW d \in Clients, d # c PROVE ClientInStep(d)'
  <2>1. /\ pc'[d] = pc[d] /\ i'[d] = i[d] /\ peer'[d] = peer[d] /\ host'[d] = host[d]
        /\ toServer'[d] = toServer[d] /\ toClient'[d] = toClient[d] /\ printed'[d] = printed[d]
    BY <1>2
  <2>2. ClientInStep(d) /\ (Waits(d)' <=> Waits(d))
    BY DEF InStep, Waits
  <2>. QED BY <2>1, <2>2, OthersStay
<1>3. ASSUME NEW d \in Clients PROVE ClientInStep(d)'
  BY <1>2
<1>. QED BY <1>1, <1>3 DEF InStep

LEMMA ConnectInStep ==
    ASSUME TypeOK, InLoop, InStep, NEW c \in Clients, Connect(c)
    PROVE  InStep'
<1>1. pc[Server] # "sigpipe"
  BY DEF InStep, ServerInStep
<1>2. /\ pc[c] = "connect" /\ pc' = [pc EXCEPT ![c] = "write"]
      /\ backlog' = Append(backlog, c)
      /\ peer' = [peer EXCEPT ![c] = "open"] /\ host' = [host EXCEPT ![c] = "open"]
      /\ UNCHANGED <<client_fd, buffer, i, toServer, toClient, printed, shorts>>
  BY <1>1 DEF Connect, Goto, server
<1>3. /\ pc'[c] = "write" /\ pc'[Server] = pc[Server] /\ \A d \in Clients : d # c => pc'[d] = pc[d]
      /\ peer'[c] = "open" /\ host'[c] = "open"
      /\ \A d \in Clients : d # c => peer'[d] = peer[d] /\ host'[d] = host[d]
  BY <1>2, ProcsAre DEF TypeOK
<1>4. ClientInStep(c) /\ ~ Waits(c) /\ c \notin client_fd
  BY <1>2 DEF InStep, ClientInStep
<1>5. /\ Len(backlog) \in Nat /\ Len(backlog') = Len(backlog) + 1 /\ backlog'[Len(backlog) + 1] = c
      /\ \A k \in 1..Len(backlog) : backlog'[k] = backlog[k]
  BY <1>2 DEF TypeOK
<1>6. /\ \A d : d # c => (Waits(d)' <=> Waits(d))
      /\ Waits(c)'
  <2>1. ASSUME NEW d, NEW k \in 1..Len(backlog'), backlog'[k] = d, d # c PROVE Waits(d)
    <3>1. k \in 1..Len(backlog) /\ backlog[k] = d
      BY <1>5, <2>1
    <3>. QED BY <3>1 DEF Waits
  <2>2. \A k \in 1..Len(backlog) : k \in 1..Len(backlog')
    BY <1>5
  <2>3. Len(backlog) + 1 \in 1..Len(backlog')
    BY <1>5
  <2>. QED BY <1>5, <2>1, <2>2, <2>3 DEF Waits
<1>7. ServerInStep'
  <2>1. \A j, k \in 1..Len(backlog) : j # k => backlog[j] # backlog[k]
    BY DEF InStep, ServerInStep
  <2>2. \A k \in 1..Len(backlog) : backlog[k] # c
    BY <1>4 DEF Waits
  <2>3. \A j, k \in 1..Len(backlog') : j # k => backlog'[j] # backlog'[k]
    BY <1>5, <2>1, <2>2
  <2>4. \A d \in client_fd : ~ Waits(d)'
    BY <1>4, <1>6 DEF InStep, ServerInStep
  <2>. QED BY <1>2, <1>3, <2>3, <2>4 DEF InStep, ServerInStep
<1>8. ASSUME NEW d \in Clients, d # c PROVE ClientInStep(d)'
  <2>1. ClientInStep(d) /\ (Waits(d)' <=> Waits(d))
    BY <1>6, <1>8 DEF InStep
  <2>2. pc'[d] = pc[d] /\ peer'[d] = peer[d] /\ host'[d] = host[d]
    BY <1>3, <1>8
  <2>. QED BY <1>2, <1>3, <2>1, <2>2, OthersStay
<1>9. ClientInStep(c)'
  <2>1. Quiet(c)'
    BY <1>2, <1>4 DEF ClientInStep, Quiet
  <2>2. i'[c] = 0 /\ printed'[c] = [b \in 1..i'[c] |-> Book(c, b)] /\ c \notin client_fd'
    BY <1>2, <1>4 DEF ClientInStep
  <2>. QED BY <1>3, <1>6, <2>1, <2>2 DEF ClientInStep
<1>. QED BY <1>7, <1>8, <1>9 DEF InStep

LEMMA ClientWriteInStep ==
    ASSUME TypeOK, InLoop, InStep, NEW c \in Clients, ClientWrite(c)
    PROVE  InStep'
<1>1. /\ pc[c] = "write" /\ pc' = [pc EXCEPT ![c] = "read"]
      /\ UNCHANGED <<client_fd, buffer, i, backlog, toClient, peer, printed, shorts>>
  BY DEF ClientWrite, Goto, server
<1>2. ClientInStep(c)
  BY DEF InStep
<1>3. Quiet(c) /\ (Waits(c) \/ c \in client_fd) /\ host[c] = "open"
  BY <1>1, <1>2 DEF ClientInStep
<1>4. toServer' = [toServer EXCEPT ![c] = toServer[c] \o Book(c, i[c] + 1)] /\ host' = host
  BY <1>3 DEF ClientWrite
<1>5. Book(c, i[c] + 1) \in Seq(Cells)
  <2>1. i[c] + 1 \in 1..ConversationLen
    BY <1>1, ProcsAre DEF TypeOK, InLoop
  <2>. QED BY <2>1, CellsAre DEF Texts
<1>6. /\ toServer'[c] = Book(c, i[c] + 1)
      /\ \A d \in Clients : d # c => toServer'[d] = toServer[d]
  <2>1. toServer[c] \o Book(c, i[c] + 1) = Book(c, i[c] + 1)
    BY <1>3, <1>5 DEF Quiet
  <2>. QED BY <1>4, <2>1 DEF TypeOK
<1>7. pc'[c] = "read" /\ pc'[Server] = pc[Server] /\ \A d \in Clients : d # c => pc'[d] = pc[d]
  BY <1>1, ProcsAre DEF TypeOK
<1>8. Waits(c)' <=> Waits(c)
  BY <1>1 DEF Waits
<1>9. Unread(c)'
  BY <1>1, <1>2, <1>3, <1>6, <1>7, <1>8 DEF ClientInStep, Unread, Quiet
<1>10. ClientInStep(c)'
  BY <1>1, <1>2, <1>4, <1>7, <1>8, <1>9 DEF ClientInStep
<1>. QED BY <1>1, <1>4, <1>6, <1>7, <1>10, ClientAlone

\* The answer is read as a whole, and printed.
LEMMA ClientReadInStep ==
    ASSUME TypeOK, InLoop, InStep, NEW c \in Clients, ClientRead(c), shorts' = 0
    PROVE  InStep'
<1>1. PICK n \in 1..BuffSize :
        /\ Reads(n, toClient[c])
        /\ printed' = [printed EXCEPT ![c] = Append(printed[c], Line(SubSeq(toClient[c], 1, n)))]
        /\ toClient' = [toClient EXCEPT ![c] = Drop(toClient[c], n)]
  BY DEF ClientRead
<1>2. /\ pc[c] = "read" /\ ClientTurn(c)
      /\ UNCHANGED <<client_fd, buffer, backlog, toServer, host>>
  BY DEF ClientRead, server
<1>3. ClientInStep(c)
  BY DEF InStep
<1>4. toClient[c] # << >>
  <2>1. n <= Len(toClient[c]) /\ n \in Nat \ {0}
    BY <1>1, ProcsAre DEF Reads
  <2>. QED BY <2>1
<1>5. Answered(c)
  BY <1>2, <1>3, <1>4 DEF ClientInStep, Unread, Buffered, Quiet
<1>6. i[c] \in Nat /\ i[c] < ConversationLen /\ i[c] + 1 \in 1..ConversationLen /\ ConversationLen \in Nat
  BY <1>2, ProcsAre DEF TypeOK, InLoop
<1>7. PICK t : t = Book(c, i[c] + 1)
  OBVIOUS
<1>8. /\ t \in Texts /\ Len(t) \in 1..BuffSize /\ \A k \in 1..Len(t) : t[k] # Nul
  BY <1>6, <1>7, BookIs
<1>9. toClient[c] = Padded(t) /\ toServer[c] = << >> /\ ~ Waits(c)
  BY <1>5, <1>7 DEF Answered
<1>10. n = BuffSize
  <2>1. Len(toClient[c]) = BuffSize /\ toClient[c] \in Seq(Cells \cup {Nul}) /\ BuffSize \in Nat
    BY <1>8, <1>9, LineOfBook, ProcsAre DEF TypeOK
  <2>. QED BY <1>1, <2>1, ReadsAll
<1>11. Line(SubSeq(toClient[c], 1, n)) = t /\ Drop(toClient[c], n) = << >>
  BY <1>8, <1>9, <1>10, LineOfBook
<1>12. /\ printed'[c] = Append(printed[c], t) /\ toClient'[c] = << >>
       /\ \A d \in Clients : d # c => printed'[d] = printed[d] /\ toClient'[d] = toClient[d]
  BY <1>1, <1>11 DEF TypeOK
<1>13. /\ i'[c] = i[c] + 1 /\ i'[Server] = i[Server] /\ pc'[Server] = pc[Server]
       /\ \A d \in Clients : d # c => pc'[d] = pc[d] /\ i'[d] = i[d]
       /\ pc'[c] = IF i[c] + 1 = ConversationLen THEN "done" ELSE "write"
  BY <1>2, ProcsAre DEF ClientTurn, Goto, TypeOK
<1>14. /\ \A d \in Clients : d # c => peer'[d] = peer[d]
       /\ i[c] + 1 # ConversationLen => peer'[c] = peer[c]
  BY <1>2, <1>13 DEF ClientTurn, TypeOK
<1>15. printed'[c] = [b \in 1..(i[c] + 1) |-> Book(c, b)]
  <2>1. printed[c] = [b \in 1..i[c] |-> Book(c, b)]
    BY <1>2, <1>3 DEF ClientInStep
  <2>2. Append([b \in 1..i[c] |-> Book(c, b)], Book(c, i[c] + 1)) = [b \in 1..(i[c] + 1) |-> Book(c, b)]
    <3>1. \A b \in 1..i[c] : Book(c, b) \in Texts
      BY <1>6, CellsAre
    <3>2. [b \in 1..i[c] |-> Book(c, b)] \in Seq(Texts)
      BY <1>6, <3>1
    <3>3. Len([b \in 1..i[c] |-> Book(c, b)]) = i[c]
      BY <1>6
    <3>. QED BY <1>6, <3>2, <3>3
  <2>. QED BY <1>7, <1>12, <2>1, <2>2
<1>16. Waits(c)' <=> Waits(c)
  BY <1>2 DEF Waits
<1>17. ASSUME c \in client_fd PROVE i[Server] = i[c] + 1 /\ pc[Server] \in {"read", "close"}
  BY <1>5, <1>17 DEF Answered
<1>18. CASE i[c] + 1 = ConversationLen
  <2>1. c \in client_fd => pc[Server] = "close"
    BY <1>6, <1>17, <1>18 DEF InLoop
  <2>2. ClientInStep(c)'
    BY <1>2, <1>9, <1>13, <1>15, <1>16, <1>18, <2>1 DEF ClientInStep
  <2>. QED BY <1>2, <1>12, <1>13, <1>14, <2>2, ClientAlone
<1>19. CASE i[c] + 1 # ConversationLen
  <2>1. c \in client_fd
    BY <1>5, <1>19 DEF Answered
  <2>2. pc[Server] = "read"
    BY <1>17, <1>19, <2>1 DEF InStep, ServerInStep
  <2>3. Quiet(c)'
    BY <1>2, <1>9, <1>12 DEF Quiet
  <2>4. peer'[c] = "open" /\ host'[c] = "open"
    BY <1>2, <1>3, <1>14, <1>19, <2>1 DEF ClientInStep
  <2>5. ClientInStep(c)'
    BY <1>2, <1>9, <1>13, <1>15, <1>16, <1>17, <1>19, <2>1, <2>2, <2>3, <2>4 DEF ClientInStep
  <2>. QED BY <1>2, <1>12, <1>13, <1>14, <2>5, ClientAlone
<1>. QED BY <1>18, <1>19

\* No write and no read of a client fails.
LEMMA NoFailure ==
    ASSUME TypeOK, InLoop, InStep, NEW c \in Clients
    PROVE  ~ ClientWriteFails(c) /\ ~ ClientDies(c) /\ ~ ClientReadNothing(c)
<1>1. ClientInStep(c)
  BY DEF InStep
<1>2. pc[c] = "write" => host[c] = "open"
  BY <1>1 DEF ClientInStep
<1>3. ASSUME pc[c] = "read", toClient[c] = << >> PROVE host[c] = "open"
  <2>1. ~ Answered(c)
    <3>1. i[c] + 1 \in 1..ConversationLen
      BY <1>3, ProcsAre DEF TypeOK, InLoop
    <3>2. Padded(Book(c, i[c] + 1)) # << >>
      BY <3>1, BookIs, LineOfBook
    <3>. QED BY <1>3, <3>2 DEF Answered
  <2>. QED BY <1>1, <1>3, <2>1 DEF ClientInStep, Unread, Buffered
<1>. QED BY <1>2, <1>3 DEF ClientWriteFails, ClientDies, ClientReadNothing, Goto

LEMMA KillInStep ==
    ASSUME TypeOK, InLoop, InStep, NEW c \in Clients, Kill(c)
    PROVE  InStep'
<1>1. /\ pc[c] \in {"write", "read"} /\ pc' = [pc EXCEPT ![c] = "killed"]
      /\ peer' = [peer EXCEPT ![c] = Closed(toClient[c])]
      /\ UNCHANGED <<client_fd, buffer, i, backlog, toServer, toClient, host, printed, shorts>>
  BY DEF Kill, Leave, server
<1>2. /\ pc'[c] = "killed" /\ pc'[Server] = pc[Server] /\ \A d \in Clients : d # c => pc'[d] = pc[d]
      /\ peer'[c] = Closed(toClient[c]) /\ \A d \in Clients : d # c => peer'[d] = peer[d]
  BY <1>1, ProcsAre DEF TypeOK
<1>3. ClientInStep(c)
  BY DEF InStep
<1>4. i[c] + 1 \in 1..ConversationLen
  BY <1>1, ProcsAre DEF TypeOK, InLoop
<1>5. /\ peer'[c] \in {"fin", "reset"}
      /\ toServer[c] # << >> => peer'[c] = "fin" /\ toServer[c] = Book(c, i[c] + 1)
      /\ c \in client_fd /\ pc[Server] = "write" => toServer[c] = << >> /\ peer'[c] = "fin"
  BY <1>1, <1>2, <1>3 DEF ClientInStep, Unread, Buffered, Answered, Quiet, Closed
<1>6. ClientInStep(c)'
  BY <1>1, <1>2, <1>4, <1>5 DEF ClientInStep
<1>. QED BY <1>1, <1>2, <1>6, ClientAlone

-----------------------------------------------------------------------------
\* The invariant of conversations in which every read brings what has arrived.
ConfirmInv == EchoInv /\ (shorts = 0 => InStep)

LEMMA InitInStep == Init => ConfirmInv
<1>. SUFFICES ASSUME Init PROVE InStep
  BY InitGives DEF ConfirmInv
<1>1. /\ pc[Server] = "accept" /\ client_fd = {} /\ backlog = << >>
      /\ \A c \in Clients : /\ pc[c] = "connect" /\ i[c] = 0 /\ printed[c] = << >>
                            /\ toServer[c] = << >> /\ toClient[c] = << >>
  BY ProcsAre DEF Init
<1>2. \A c : ~ Waits(c)
  <2>1. Len(backlog) = 0
    BY <1>1
  <2>. QED BY <2>1 DEF Waits
<1>3. ServerInStep
  BY <1>1, <1>2 DEF ServerInStep
<1>4. ASSUME NEW c \in Clients PROVE ClientInStep(c)
  <2>1. << >> = [b \in 1..0 |-> Book(c, b)]
    OBVIOUS
  <2>. QED BY <1>1, <1>2, <2>1 DEF ClientInStep, Quiet
<1>. QED BY <1>3, <1>4 DEF InStep

LEMMA NextInStep == ConfirmInv /\ [Next]_vars => ConfirmInv'
<1>. SUFFICES ASSUME ConfirmInv, [Next]_vars PROVE ConfirmInv'
  OBVIOUS
<1>1. EchoInv /\ EchoInv' /\ TypeOK /\ InLoop
  BY NextKeeps DEF ConfirmInv, EchoInv
<1>. SUFFICES ASSUME shorts' = 0 PROVE InStep'
  BY <1>1 DEF ConfirmInv
<1>2. shorts = 0
  <2>1. shorts \in Nat
    BY <1>1, EchoServerAssumption DEF TypeOK
  <2>2. shorts' \in {shorts, shorts + 1}
    BY DEF Next, ServerStep, ClientStep, Accept, ServerRead, ServerReadNothing, ServerWrite, ServerDies,
       ServerClose, Connect, ClientWrite, ClientWriteFails, ClientDies, ClientRead, ClientReadNothing,
       Kill, Reads, vars
  <2>. QED BY <2>1, <2>2
<1>3. InStep
  BY <1>2 DEF ConfirmInv
<1>4. CASE ServerStep
  BY <1>1, <1>3, <1>4, AcceptInStep, ServerReadInStep, ServerReadNothingInStep, ServerWriteInStep,
     ServerEndsInStep DEF ServerStep
<1>5. CASE \E c \in Clients : ClientStep(c) \/ Kill(c)
  BY <1>1, <1>3, <1>5, ConnectInStep, ClientWriteInStep, ClientReadInStep, NoFailure, KillInStep
     DEF ClientStep
<1>6. CASE UNCHANGED vars
  <2>1. UNCHANGED <<pc, client_fd, buffer, i, backlog, toServer, toClient, peer, host, printed>>
    BY <1>6 DEF vars, server, net
  <2>2. ServerInStep'
    BY <1>3, <2>1 DEF InStep, ServerInStep, Waits
  <2>3. ASSUME NEW d \in Clients PROVE ClientInStep(d)'
    <3>1. ClientInStep(d) /\ (Waits(d)' <=> Waits(d))
      BY <1>3, <2>1 DEF InStep, Waits
    <3>. QED BY <2>1, <3>1, OthersStay
  <2>. QED BY <2>2, <2>3 DEF InStep
<1>. QED BY <1>4, <1>5, <1>6 DEF Next

\* The echo is the confirmation both programs take it for (server.c:56,
\* client.c:51): as long as every read brings what has arrived, a client that
\* comes to its end has printed its books one by one, and no client that is
\* killed takes the server with it.
THEOREM EchoConfirmsCorrect == Spec => []EchoConfirms
<1>1. ConfirmInv => EchoConfirms
  BY DEF ConfirmInv, InStep, ServerInStep, ClientInStep, EchoConfirms
<1>. QED BY <1>1, InitInStep, NextInStep, PTL DEF Spec
=============================================================================
