--------------------------- MODULE SessionProofs ----------------------------
(***************************************************************************)
(* Theorems about Session, for any number of calls, sizes, sessions and    *)
(* breaks: where the cells of a request and of its reply are.              *)
(***************************************************************************)
EXTENDS Session, SequenceTheorems, TLAPS

\* Where cells are: in the client's streambuf, on their way, and in a session.
Places == {<<"buffer", 0>>} \cup ({"up", "down", "got"} \X (1..Sessions))

Streams ==
  [k \in Places |-> CASE k[1] = "buffer" -> buffer
                      [] k[1] = "up" -> up[k[2]]
                      [] k[1] = "down" -> down[k[2]]
                      [] k[1] = "got" -> session[k[2]].got]

\* The cell x is nowhere; it is in one place at most.
Absent(streams, x) ==
  \A k \in DOMAIN streams : \A i \in 1..Len(streams[k]) : streams[k][i] # x
Single(streams, x) ==
  \A k, l \in DOMAIN streams : \A i \in 1..Len(streams[k]), j \in 1..Len(streams[l]) :
    streams[k][i] = x /\ streams[l][j] = x => k = l /\ i = j

\* A request is executed where its first cell is taken out of the streams.  It went
\* in when the call began, and goes from one place to another.
First(c) == <<Request(c), 1>>
OneCopy ==
  \A c \in 1..Calls :
    /\ Single(Streams, First(c))
    /\ executed[c] \in {0, 1}
    /\ executed[c] = 1 \/ c > call => Absent(Streams, First(c))
    /\ c > call => executed[c] = 0

\* Only a session that reads a request has cells of one.  A session that was not
\* started has no connection.
Unused ==
  \A s \in 1..Sessions :
    /\ session[s].at \notin {"more", "process"} => session[s].got = <<>>
    /\ s > sessions => /\ up[s] = <<>> /\ down[s] = <<>>
                       /\ session[s].at = "none" /\ ~ alive[s]

InCall ==
  /\ ~ valid => pc = "idle"
  /\ pc # "idle" => call \in 1..Calls

CopyInv == TypeOK /\ Unused /\ InCall /\ OneCopy

\* Nothing is on its way and the session waits for a request.
AtRest(s) ==
  /\ up[s] = <<>> /\ down[s] = <<>>
  /\ session[s].at = "read" \/ ~ alive[s]

Begins(cells, all) ==
  /\ Len(cells) <= Len(all)
  /\ \A i \in 1..Len(cells) : cells[i] = all[i]

\* The request of call c is on its way to session s, or in it, or has been executed.
Carried(s, c) ==
  \/ session[s].at = "read" /\ up[s] = Cells(Request(c))
  \/ /\ session[s].at = "more" /\ session[s].need = RequestSize[c]
     /\ session[s].got \o up[s] = Cells(Request(c))
  \/ /\ session[s].at = "process" /\ session[s].need = RequestSize[c]
     /\ session[s].got = Cells(Request(c)) /\ up[s] = <<>>
  \/ /\ session[s].at = "write" /\ session[s].answer = Reply(c)
     /\ executed[c] = 1 /\ up[s] = <<>>

\* No cell of the reply has been written; what there is begins it.
Waiting(s, c) ==
  /\ down[s] = <<>>
  /\ alive[s] => buffer = <<>> /\ Carried(s, c)
Answered(s, c) ==
  /\ up[s] = <<>> /\ executed[c] = 1
  /\ Begins(buffer \o down[s], Cells(Reply(c)))
  /\ session[s].at = "read" \/ ~ alive[s]

\* The course of a call on a connection that is not dirty.
Course ==
  /\ pc = "idle" => sock # 0 /\ buffer = <<>> /\ AtRest(sock)
  /\ pc \in {"send", "resend"} =>
       buffer = Cells(Request(call)) /\ (sock # 0 => AtRest(sock))
  /\ pc \in {"receive", "rest"} => Waiting(sock, call) \/ Answered(sock, call)
InStep == valid /\ ~ dirty => Course

Inv == CopyInv /\ InStep /\ RepliesMatch
-----------------------------------------------------------------------------
(***************************************************************************)
(* Messages and their cells                                                *)
(***************************************************************************)
LEMMA MessageFacts ==
  /\ \A c \in 1..Calls : Request(c) \in Messages /\ Reply(c) \in Messages
  /\ NotBson \in Messages /\ Mixed \in Messages /\ Invalid \notin Messages
  /\ \A m \in Messages : m \notin NoDocument
  /\ \A m \in Messages : m[1] = "request" => m[2] \in 1..Calls /\ m = Request(m[2])
BY DEF Messages, NoDocument, Request, Reply, NotBson, Mixed, Invalid, None, Failed, Thrown

LEMMA AnswerFacts ==
  /\ \A c \in 1..Calls : Reply(c) \in Answers
  /\ NotBson \in Answers /\ Mixed \in Answers
  /\ \A m \in Answers : m \in Messages /\ \A c \in 1..Calls : m # Request(c)
<1>1. \A c \in 1..Calls : Reply(c) \in Messages /\ Reply(c)[1] # "request"
  BY MessageFacts DEF Reply
<1>2. NotBson \in Messages /\ Mixed \in Messages /\ NotBson[1] # "request" /\ Mixed[1] # "request"
  BY MessageFacts DEF NotBson, Mixed
<1>3. \A c \in 1..Calls : Request(c)[1] = "request"
  BY DEF Request
<1> QED BY <1>1, <1>2, <1>3 DEF Answers

LEMMA Distinct ==
  ASSUME NEW c \in 1..Calls, NEW d \in 1..Calls
  PROVE  /\ Request(c) = Request(d) => c = d
         /\ Request(c) # Reply(d) /\ Request(c) # NotBson /\ Request(c) # Mixed
         /\ Request(c)[1] = "request" /\ Request(c)[2] = c
         /\ Reply(c)[1] = "reply" /\ Reply(c)[2] = c /\ Reply(c) # Invalid
BY DEF Request, Reply, NotBson, Mixed, Invalid

LEMMA SizeFacts ==
  /\ \A m \in Messages : Size(m) \in Nat /\ Size(m) >= Header /\ Size(m) > 0
  /\ Header \in Nat /\ Header > 0 /\ ServerBuf \in Nat /\ ClientBuf \in Nat
  /\ \A c \in 1..Calls : Size(Request(c)) = RequestSize[c] /\ Size(Reply(c)) = ReplySize[c]
<1>1. Header \in Nat /\ Header > 0 /\ ServerBuf \in Nat /\ ClientBuf \in Nat
  BY SessionAssumption
<1>2. \A c \in 1..Calls : /\ RequestSize[c] \in Nat /\ RequestSize[c] >= Header
                          /\ ReplySize[c] \in Nat /\ ReplySize[c] >= Header
  BY SessionAssumption
<1>3. \A c \in 1..Calls : Size(Request(c)) = RequestSize[c] /\ Size(Reply(c)) = ReplySize[c]
  BY DEF Size, Request, Reply
<1>4. ASSUME NEW m \in Messages
      PROVE  Size(m) \in Nat /\ Size(m) >= Header /\ Size(m) > 0
  <2>1. CASE m \in {NotBson, Mixed}
    BY <2>1, <1>1 DEF Size, NotBson, Mixed
  <2>2. CASE m \in {"request", "reply"} \X (1..Calls)
    <3>1. m[1] \in {"request", "reply"} /\ m[2] \in 1..Calls
      BY <2>2
    <3> QED BY <3>1, <1>1, <1>2 DEF Size
  <2> QED BY <2>1, <2>2 DEF Messages
<1> QED BY <1>1, <1>3, <1>4

LEMMA CellsFacts ==
  ASSUME NEW m \in Messages
  PROVE  /\ Cells(m) \in Seq(Cell) /\ Len(Cells(m)) = Size(m)
         /\ \A i \in 1..Size(m) : Cells(m)[i] = <<m, i>>
<1>1. Size(m) \in Nat
  BY SizeFacts
<1>2. \A i \in 1..Size(m) : <<m, i>> \in Cell
  BY <1>1 DEF Cell
<1> QED BY <1>1, <1>2 DEF Cells

LEMMA CellFacts ==
  ASSUME NEW x \in Cell
  PROVE  x[1] \in Messages /\ x[2] \in Nat /\ x = <<x[1], x[2]>>
BY DEF Cell

\* A prefix and the rest.
LEMMA Pieced ==
  ASSUME NEW cells \in Seq(Cell), NEW n \in 0..Len(cells)
  PROVE  /\ SubSeq(cells, 1, n) \in Seq(Cell) /\ Len(SubSeq(cells, 1, n)) = n
         /\ \A i \in 1..n : SubSeq(cells, 1, n)[i] = cells[i]
         /\ After(cells, n) \in Seq(Cell) /\ Len(After(cells, n)) = Len(cells) - n
         /\ \A i \in 1..Len(cells) - n : After(cells, n)[i] = cells[i + n]
         /\ SubSeq(cells, 1, n) \o After(cells, n) = cells
<1>1. Len(cells) \in Nat /\ \A i \in 1..Len(cells) : cells[i] \in Cell
  BY LenProperties, ElementOfSeq
<1>2. /\ SubSeq(cells, 1, n) \in Seq(Cell) /\ Len(SubSeq(cells, 1, n)) = n
      /\ \A i \in 1..n : SubSeq(cells, 1, n)[i] = cells[i]
  <2>1. \A i \in 1..n : cells[i] \in Cell
    BY <1>1
  <2>2. /\ SubSeq(cells, 1, n) \in Seq(Cell)
        /\ Len(SubSeq(cells, 1, n)) = IF 1 <= n THEN n - 1 + 1 ELSE 0
        /\ \A i \in 1..n - 1 + 1 : SubSeq(cells, 1, n)[i] = cells[1 + i - 1]
    BY <2>1, SubSeqProperties
  <2> QED BY <2>2
<1>3. /\ After(cells, n) \in Seq(Cell) /\ Len(After(cells, n)) = Len(cells) - n
      /\ \A i \in 1..Len(cells) - n : After(cells, n)[i] = cells[i + n]
  BY <1>1 DEF After
<1>4. SubSeq(cells, 1, n) \o After(cells, n) = cells
  <2>1. CASE n = 0
    BY <2>1, <1>1, <1>2, <1>3, SubSeqFull, ConcatEmptySeq DEF After
  <2>2. SubSeq(cells, 1, n) \o SubSeq(cells, n + 1, Len(cells)) = SubSeq(cells, 1, Len(cells))
    <3>1. 1 \in 1..Len(cells) + 1 /\ n \in 1 - 1 .. Len(cells) /\ Len(cells) \in n .. Len(cells)
      BY <1>1
    <3> QED BY ONLY <3>1, cells \in Seq(Cell), ConcatAdjacentSubSeq
  <2> QED BY <2>2, SubSeqFull DEF After
<1> QED BY <1>2, <1>3, <1>4

LEMMA PieceOfPiece ==
  ASSUME NEW cells \in Seq(Cell), NEW n \in 0..Len(cells), NEW m \in 0..n
  PROVE  SubSeq(SubSeq(cells, 1, n), 1, m) = SubSeq(cells, 1, m)
<1> DEFINE p == SubSeq(cells, 1, n)
<1>1. p \in Seq(Cell) /\ Len(p) = n /\ \A i \in 1..n : p[i] = cells[i]
  BY Pieced
<1>2. m \in 0..Len(cells) /\ m \in 0..Len(p) /\ Len(cells) \in Nat /\ m <= n
  BY <1>1, LenProperties
<1> HIDE DEF p
<1>3. /\ SubSeq(p, 1, m) \in Seq(Cell) /\ Len(SubSeq(p, 1, m)) = m
      /\ \A i \in 1..m : SubSeq(p, 1, m)[i] = p[i]
  BY <1>1, <1>2, Pieced
<1>4. /\ SubSeq(cells, 1, m) \in Seq(Cell) /\ Len(SubSeq(cells, 1, m)) = m
      /\ \A i \in 1..m : SubSeq(cells, 1, m)[i] = cells[i]
  BY <1>2, Pieced
<1>5. \A i \in 1..m : SubSeq(p, 1, m)[i] = SubSeq(cells, 1, m)[i]
  BY <1>1, <1>2, <1>3, <1>4
<1> QED BY <1>3, <1>4, <1>5, SeqEqual DEF p

LEMMA Joined ==
  ASSUME NEW s \in Seq(Cell), NEW t \in Seq(Cell)
  PROVE  /\ s \o t \in Seq(Cell) /\ Len(s \o t) = Len(s) + Len(t)
         /\ \A i \in 1..Len(s) : (s \o t)[i] = s[i]
         /\ \A i \in 1..Len(t) : (s \o t)[Len(s) + i] = t[i]
<1>1. Len(s) \in Nat /\ Len(t) \in Nat
  BY LenProperties
<1>2. s \o t \in Seq(Cell) /\ Len(s \o t) = Len(s) + Len(t)
      /\ \A i \in 1 .. Len(s) + Len(t) : (s \o t)[i] =
                     IF i <= Len(s) THEN s[i] ELSE t[i - Len(s)]
  BY ConcatProperties
<1> QED BY <1>1, <1>2

LEMMA AnnouncedType ==
  ASSUME NEW cells \in Seq(Cell), NEW size \in Announced(cells)
  PROVE  size \in Nat
<1>1. Len(cells) \in Nat /\ \A i \in 1..Len(cells) : cells[i] \in Cell
  BY LenProperties, ElementOfSeq
<1>2. CASE Len(cells) < Header
  BY <1>1, <1>2 DEF Announced
<1>3. CASE Len(cells) >= Header /\ Aligned(cells)
  BY <1>1, <1>3, CellFacts, SizeFacts DEF Announced
<1>4. CASE Len(cells) >= Header /\ ~ Aligned(cells)
  BY <1>1, <1>4, SizeFacts, SessionAssumption DEF Announced
<1> QED BY <1>1, <1>2, <1>3, <1>4, SizeFacts

\* What is read as a request begins with the first cell of one.
LEMMA DocumentFacts ==
  ASSUME NEW cells \in Seq(Cell), NEW n \in Nat, NEW m \in Document(cells, n)
  PROVE  /\ m \in Messages \cup {Invalid}
         /\ m[1] = "request" => /\ m[2] \in 1..Calls /\ m = Request(m[2])
                                /\ Len(cells) >= 1 /\ cells[1] = First(m[2])
<1>1. Len(cells) \in Nat /\ \A i \in 1..Len(cells) : cells[i] \in Cell
  BY LenProperties, ElementOfSeq
<1>2. CASE n <= Len(cells) /\ n > 0 /\ SubSeq(cells, 1, n) = Cells(cells[1][1])
  <2> DEFINE k == cells[1][1]
  <2>1. m = k /\ k \in Messages /\ 1 \in 1..Len(cells)
    BY <1>1, <1>2, CellFacts DEF Document
  <2>2. cells[1] = <<k, 1>>
    <3>1. SubSeq(cells, 1, n)[1] = cells[1]
      BY <1>2, <1>1, Pieced
    <3>2. Cells(k)[1] = <<k, 1>>
      BY <2>1, CellsFacts, SizeFacts
    <3> QED BY <3>1, <3>2, <1>2
  <2> HIDE DEF k
  <2>3. m[1] = "request" => m[2] \in 1..Calls /\ m = Request(m[2])
    BY <2>1, MessageFacts
  <2> QED BY <2>1, <2>2, <2>3, <1>1 DEF First
<1>3. CASE ~ (n <= Len(cells) /\ n > 0 /\ SubSeq(cells, 1, n) = Cells(cells[1][1]))
  <2>1. m \in {Invalid, Mixed}
    BY <1>3 DEF Document
  <2> QED BY <2>1, MessageFacts DEF Invalid, Mixed
<1> QED BY <1>2, <1>3
-----------------------------------------------------------------------------
(***************************************************************************)
(* Cells that go from one stream to another                                *)
(***************************************************************************)
PartOf(t, u) ==
  \E d \in Nat : /\ Len(t) + d <= Len(u)
                 /\ \A i \in 1..Len(t) : t[i] = u[i + d]

Keeps(f, g, x) ==
  /\ Single(f, x) => Single(g, x)
  /\ Absent(f, x) => Absent(g, x)

LEMMA Dropped ==
  ASSUME NEW K, NEW f \in [K -> Seq(Cell)], NEW g \in [K -> Seq(Cell)], NEW x,
         \A k \in K : PartOf(g[k], f[k])
  PROVE  Keeps(f, g, x)
<1>1. \A k \in K : Len(f[k]) \in Nat /\ Len(g[k]) \in Nat
  BY LenProperties
<1>2. PICK d \in [K -> Nat] : \A k \in K : /\ Len(g[k]) + d[k] <= Len(f[k])
                                           /\ \A i \in 1..Len(g[k]) : g[k][i] = f[k][i + d[k]]
  <2> DEFINE e == [k \in K |-> CHOOSE d \in Nat : /\ Len(g[k]) + d <= Len(f[k])
                                                 /\ \A i \in 1..Len(g[k]) : g[k][i] = f[k][i + d]]
  <2>1. \A k \in K : /\ e[k] \in Nat /\ Len(g[k]) + e[k] <= Len(f[k])
                     /\ \A i \in 1..Len(g[k]) : g[k][i] = f[k][i + e[k]]
    BY DEF PartOf
  <2>2. e \in [K -> Nat]
    BY <2>1
  <2> QED BY <2>1, <2>2
<1>3. DOMAIN f = K /\ DOMAIN g = K
  OBVIOUS
<1>4. \A k \in K : \A i \in 1..Len(g[k]) :
        i \in Nat /\ d[k] \in Nat /\ i + d[k] \in 1..Len(f[k]) /\ g[k][i] = f[k][i + d[k]]
  BY <1>1, <1>2
<1>5. ASSUME Single(f, x), NEW k \in K, NEW l \in K,
             NEW i \in 1..Len(g[k]), NEW j \in 1..Len(g[l]), g[k][i] = x, g[l][j] = x
      PROVE  k = l /\ i = j
  <2> DEFINE i1 == i + d[k]
             j1 == j + d[l]
  <2>0. i1 \in 1..Len(f[k]) /\ f[k][i1] = x /\ j1 \in 1..Len(f[l]) /\ f[l][j1] = x
    BY <1>4, <1>5
  <2> HIDE DEF i1, j1
  <2>1. k = l /\ i1 = j1
    BY <2>0, <1>3, <1>5 DEF Single
  <2> USE DEF i1, j1
  <2> QED BY <2>1, <1>4
<1>6. ASSUME Absent(f, x) PROVE Absent(g, x)
  BY <1>3, <1>4, <1>6 DEF Absent
<1> QED BY <1>3, <1>5, <1>6 DEF Keeps, Single

LEMMA Moved ==
  ASSUME NEW K, NEW f \in [K -> Seq(Cell)], NEW g \in [K -> Seq(Cell)], NEW x,
         NEW a \in K, NEW b \in K, a # b,
         NEW n \in 0..Len(f[a]), NEW m \in 0..n,
         g[a] = After(f[a], n), g[b] = f[b] \o SubSeq(f[a], 1, m),
         \A k \in K \ {a, b} : g[k] = f[k]
  PROVE  Keeps(f, g, x)
<1>1. DOMAIN f = K /\ DOMAIN g = K /\ \A k \in K : Len(f[k]) \in Nat /\ Len(g[k]) \in Nat
  BY LenProperties
<1>2. /\ Len(g[a]) = Len(f[a]) - n
      /\ \A i \in 1..Len(f[a]) - n : g[a][i] = f[a][i + n]
  <2>1. f[a] \in Seq(Cell)
    OBVIOUS
  <2> QED BY <2>1, Pieced
<1>3. /\ m \in 0..Len(f[a])
      /\ SubSeq(f[a], 1, m) \in Seq(Cell) /\ Len(SubSeq(f[a], 1, m)) = m
      /\ \A i \in 1..m : SubSeq(f[a], 1, m)[i] = f[a][i]
  <2>1. m \in 0..Len(f[a])
    BY <1>1
  <2> QED BY <2>1, Pieced
<1>4. /\ Len(g[b]) = Len(f[b]) + m
      /\ \A i \in 1..Len(f[b]) : g[b][i] = f[b][i]
      /\ \A i \in 1..m : g[b][Len(f[b]) + i] = f[a][i]
  BY <1>3, Joined
\* Where a cell was.
<1> DEFINE Was(k, i) == IF k = a THEN <<a, i + n>>
                        ELSE IF k = b /\ i > Len(f[b]) THEN <<a, i - Len(f[b])>>
                        ELSE <<k, i>>
<1>5. ASSUME NEW k \in K, NEW i \in 1..Len(g[k])
      PROVE  /\ Was(k, i)[1] \in K /\ Was(k, i)[2] \in 1..Len(f[Was(k, i)[1]])
             /\ g[k][i] = f[Was(k, i)[1]][Was(k, i)[2]]
  <2>1. CASE k = a
    BY <1>1, <1>2, <2>1
  <2>2. CASE k = b /\ i > Len(f[b])
    <3>1. i - Len(f[b]) \in 1..m /\ i = Len(f[b]) + (i - Len(f[b]))
      BY <1>1, <1>4, <2>2
    <3>2. g[b][i] = f[a][i - Len(f[b])]
      BY <3>1, <1>4
    <3> QED BY <3>1, <3>2, <2>2, <1>1
  <2>3. CASE k = b /\ ~(i > Len(f[b]))
    BY <1>1, <1>4, <2>3
  <2>4. CASE k \notin {a, b}
    BY <1>1, <2>4
  <2> QED BY <2>1, <2>2, <2>3, <2>4
<1>6. ASSUME NEW k \in K, NEW i \in 1..Len(g[k]), NEW l \in K, NEW j \in 1..Len(g[l]),
             Was(k, i)[1] = Was(l, j)[1], Was(k, i)[2] = Was(l, j)[2]
      PROVE  k = l /\ i = j
  <2>1. /\ k = a => Was(k, i)[1] = a /\ Was(k, i)[2] = i + n /\ i \in Nat
        /\ k = b /\ i > Len(f[b]) => Was(k, i)[1] = a /\ Was(k, i)[2] = i - Len(f[b])
                                     /\ i - Len(f[b]) \in 1..m
        /\ k # a /\ ~(k = b /\ i > Len(f[b])) => Was(k, i)[1] = k /\ Was(k, i)[2] = i
    BY <1>1, <1>4
  <2>2. /\ l = a => Was(l, j)[1] = a /\ Was(l, j)[2] = j + n /\ j \in Nat
        /\ l = b /\ j > Len(f[b]) => Was(l, j)[1] = a /\ Was(l, j)[2] = j - Len(f[b])
                                     /\ j - Len(f[b]) \in 1..m
        /\ l # a /\ ~(l = b /\ j > Len(f[b])) => Was(l, j)[1] = l /\ Was(l, j)[2] = j
    BY <1>1, <1>4
  <2>3. i \in Nat \ {0} /\ j \in Nat \ {0} /\ Len(f[b]) \in Nat /\ n \in Nat
    BY <1>1
  <2> HIDE DEF Was
  <2>4. CASE k = a
    BY <2>1, <2>2, <2>3, <2>4, <1>6
  <2>5. CASE k = b /\ i > Len(f[b])
    BY <2>1, <2>2, <2>3, <2>5, <1>6
  <2>6. CASE k # a /\ ~(k = b /\ i > Len(f[b]))
    BY <2>1, <2>2, <2>3, <2>6, <1>6
  <2> QED BY <2>4, <2>5, <2>6
<1> HIDE DEF Was
<1>7. ASSUME Single(f, x), NEW k \in K, NEW l \in K,
             NEW i \in 1..Len(g[k]), NEW j \in 1..Len(g[l]), g[k][i] = x, g[l][j] = x
      PROVE  k = l /\ i = j
  <2> DEFINE k1 == Was(k, i)[1]
             i1 == Was(k, i)[2]
             l1 == Was(l, j)[1]
             j1 == Was(l, j)[2]
  <2>1. /\ k1 \in K /\ i1 \in 1..Len(f[k1]) /\ f[k1][i1] = x
        /\ l1 \in K /\ j1 \in 1..Len(f[l1]) /\ f[l1][j1] = x
    BY <1>5, <1>7
  <2>2. k1 = l1 /\ i1 = j1
    <3> HIDE DEF k1, i1, l1, j1
    <3> QED BY <2>1, <1>1, <1>7 DEF Single
  <2> QED BY <2>2, <1>6
<1>8. ASSUME Absent(f, x) PROVE Absent(g, x)
  <2> SUFFICES ASSUME NEW k \in K, NEW i \in 1..Len(g[k]) PROVE g[k][i] # x
    BY <1>1 DEF Absent
  <2> DEFINE k1 == Was(k, i)[1]
             i1 == Was(k, i)[2]
  <2>1. k1 \in K /\ i1 \in 1..Len(f[k1]) /\ g[k][i] = f[k1][i1]
    BY <1>5
  <2> HIDE DEF k1, i1
  <2> QED BY <2>1, <1>1, <1>8 DEF Absent
<1> QED BY <1>1, <1>7, <1>8 DEF Keeps, Single

\* Where a cell was before others were added at the end of stream b.
LEMMA AddedWhere ==
  ASSUME NEW K, NEW f \in [K -> Seq(Cell)], NEW g \in [K -> Seq(Cell)],
         NEW b \in K, NEW cells \in Seq(Cell), g[b] = f[b] \o cells,
         \A k \in K \ {b} : g[k] = f[k],
         NEW k \in K, NEW i \in 1..Len(g[k])
  PROVE  \/ i \in 1..Len(f[k]) /\ g[k][i] = f[k][i]
         \/ k = b /\ i - Len(f[b]) \in 1..Len(cells) /\ g[k][i] = cells[i - Len(f[b])]
<1>1. Len(f[k]) \in Nat /\ Len(g[k]) \in Nat /\ Len(f[b]) \in Nat
  BY LenProperties
<1>2. /\ Len(cells) \in Nat /\ Len(g[b]) = Len(f[b]) + Len(cells)
      /\ \A j \in 1..Len(f[b]) : g[b][j] = f[b][j]
      /\ \A j \in 1..Len(cells) : g[b][Len(f[b]) + j] = cells[j]
  BY Joined, LenProperties
<1>3. CASE k # b
  BY <1>1, <1>3
<1>4. CASE k = b /\ i > Len(f[b])
  <2>1. i - Len(f[b]) \in 1..Len(cells) /\ i = Len(f[b]) + (i - Len(f[b]))
    BY <1>1, <1>2, <1>4
  <2> QED BY <2>1, <1>2, <1>4
<1>5. CASE k = b /\ ~(i > Len(f[b]))
  BY <1>1, <1>2, <1>5
<1> QED BY <1>3, <1>4, <1>5

LEMMA Added ==
  ASSUME NEW K, NEW f \in [K -> Seq(Cell)], NEW g \in [K -> Seq(Cell)], NEW x,
         NEW b \in K, NEW cells \in Seq(Cell), g[b] = f[b] \o cells,
         \A k \in K \ {b} : g[k] = f[k],
         \A i \in 1..Len(cells) : cells[i] # x
  PROVE  Keeps(f, g, x)
<1>1. DOMAIN f = K /\ DOMAIN g = K
  OBVIOUS
<1>2. \A k \in K : \A i \in 1..Len(g[k]) :
        g[k][i] = x => i \in 1..Len(f[k]) /\ f[k][i] = x
  <2> SUFFICES ASSUME NEW k \in K, NEW i \in 1..Len(g[k]), g[k][i] = x
               PROVE  i \in 1..Len(f[k]) /\ f[k][i] = x
    OBVIOUS
  <2>1. \/ i \in 1..Len(f[k]) /\ g[k][i] = f[k][i]
        \/ k = b /\ i - Len(f[b]) \in 1..Len(cells) /\ g[k][i] = cells[i - Len(f[b])]
    BY AddedWhere
  <2> QED BY <2>1
<1>3. Single(f, x) => Single(g, x)
  BY <1>1, <1>2 DEF Single
<1>4. Absent(f, x) => Absent(g, x)
  BY <1>1, <1>2 DEF Absent
<1> QED BY <1>3, <1>4 DEF Keeps

\* Cells are added at the end of stream b.
Extended(f, g, b, cells) ==
  /\ g[b] = f[b] \o cells
  /\ \A k \in DOMAIN f \ {b} : g[k] = f[k]

LEMMA AddedFirst ==
  ASSUME NEW K, NEW f \in [K -> Seq(Cell)], NEW g \in [K -> Seq(Cell)], NEW x,
         NEW b \in K, NEW cells \in Seq(Cell), Extended(f, g, b, cells),
         Absent(f, x), \A i \in 2..Len(cells) : cells[i] # x
  PROVE  Single(g, x)
<1> g[b] = f[b] \o cells /\ \A k \in K \ {b} : g[k] = f[k]
  BY DEF Extended
<1>1. DOMAIN f = K /\ DOMAIN g = K /\ Len(f[b]) \in Nat /\ Len(cells) \in Nat
  BY LenProperties
<1>2. \A k \in K : \A i \in 1..Len(g[k]) : g[k][i] = x => k = b /\ i = Len(f[b]) + 1
  <2> SUFFICES ASSUME NEW k \in K, NEW i \in 1..Len(g[k]), g[k][i] = x
               PROVE  k = b /\ i = Len(f[b]) + 1
    OBVIOUS
  <2>1. \/ i \in 1..Len(f[k]) /\ g[k][i] = f[k][i]
        \/ k = b /\ i - Len(f[b]) \in 1..Len(cells) /\ g[k][i] = cells[i - Len(f[b])]
    BY AddedWhere
  <2>2. ~(i \in 1..Len(f[k]) /\ g[k][i] = f[k][i])
    BY <1>1 DEF Absent
  <2>3. k = b /\ i - Len(f[b]) \in 1..Len(cells) /\ cells[i - Len(f[b])] = x
    BY <2>1, <2>2
  <2>4. i - Len(f[b]) = 1
    BY <1>1, <2>3
  <2> QED BY <1>1, <2>3, <2>4
<1> QED BY <1>1, <1>2 DEF Single
-----------------------------------------------------------------------------
(***************************************************************************)
(* Types                                                                   *)
(***************************************************************************)
SessionRecord ==
  [at : {"none", "read", "more", "process", "write"}, got : Seq(Cell), need : Nat, answer : Answers]

LEMMA Consts ==
  /\ Calls \in Nat /\ Sessions \in Nat /\ ServerBuf \in Nat /\ ClientBuf \in Nat
BY SessionAssumption

LEMMA FreshType ==
  /\ Fresh \in SessionRecord /\ Reading \in SessionRecord
  /\ Fresh.got = <<>> /\ Fresh.at = "none" /\ Reading.got = <<>> /\ Reading.at = "read"
<1>1. <<>> \in Seq(Cell) /\ NotBson \in Answers
  BY AnswerFacts
<1> QED BY <1>1 DEF Fresh, Reading, SessionRecord

LEMMA TypeInit == Init => TypeOK
<1> SUFFICES ASSUME Init PROVE TypeOK
  OBVIOUS
<1>1. <<>> \in Seq(Cell)
  OBVIOUS
<1>2. session \in [1..Sessions -> SessionRecord]
  BY FreshType DEF Init
<1>3. outcome \in [1..Calls -> Messages \union NoDocument]
  BY DEF Init, NoDocument
<1>4. /\ executed \in [1..Calls -> Nat] /\ alive \in [1..Sessions -> BOOLEAN]
      /\ up \in [1..Sessions -> Seq(Cell)] /\ down \in [1..Sessions -> Seq(Cell)]
      /\ buffer \in Seq(Cell)
  BY <1>1 DEF Init
<1>5. /\ call \in 0..Calls /\ sock \in 0..sessions /\ sessions \in 0..Sessions
      /\ pc = "idle" /\ valid = FALSE /\ sock = 0 /\ buffer = <<>> /\ dirty = FALSE /\ tainted = {}
  BY Consts DEF Init
<1> QED BY <1>2, <1>3, <1>4, <1>5 DEF TypeOK, SessionRecord

\* What an action says of a call that returns.
LEMMA EndsType ==
  ASSUME TypeOK, NEW r \in Messages \union NoDocument, Ends(r), dirty' \in BOOLEAN, call' = call,
         call \in 1..Calls
  PROVE  /\ pc' = "idle" /\ outcome' \in [1..Calls -> Messages \union NoDocument]
         /\ tainted' \subseteq 1..Calls /\ tainted \subseteq tainted'
         /\ outcome' = [outcome EXCEPT ![call] = r]
         /\ dirty' => call \in tainted'
BY DEF Ends, Taint, TypeOK

LEMMA ConnectedType ==
  ASSUME TypeOK, Connected
  PROVE  /\ sessions' = sessions + 1 /\ sessions' \in 1..Sessions /\ sock' = sessions'
         /\ sock' \in 0..sessions' /\ sock' # 0
         /\ alive' \in [1..Sessions -> BOOLEAN] /\ session' \in [1..Sessions -> SessionRecord]
         /\ alive' = [alive EXCEPT ![sessions'] = TRUE]
         /\ session' = [session EXCEPT ![sessions'] = Reading]
<1>1. sessions \in Nat /\ Sessions \in Nat
  BY Consts DEF TypeOK
<1>2. sessions' = sessions + 1 /\ sessions' \in 1..Sessions /\ sock' = sessions'
  BY <1>1 DEF Connected
<1>3. alive' = [alive EXCEPT ![sessions'] = TRUE] /\ session' = [session EXCEPT ![sessions'] = Reading]
  BY DEF Connected
<1>4. alive \in [1..Sessions -> BOOLEAN] /\ session \in [1..Sessions -> SessionRecord]
  BY DEF TypeOK, SessionRecord
<1>5. alive' \in [1..Sessions -> BOOLEAN]
  BY <1>3, <1>4
<1>6. session' \in [1..Sessions -> SessionRecord]
  BY <1>3, <1>4, FreshType
<1> QED BY <1>1, <1>2, <1>3, <1>5, <1>6

LEMMA BeginType == TypeOK /\ InCall /\ Begin => TypeOK' /\ InCall'
<1> SUFFICES ASSUME TypeOK, InCall, Begin PROVE TypeOK' /\ InCall'
  OBVIOUS
<1>1. /\ pc = "idle" /\ call' = call + 1 /\ call' \in 1..Calls /\ call \in 0..Calls
      /\ UNCHANGED <<up, down, executed, breaks>>
  BY Consts DEF Begin, TypeOK
<1>2. Cells(Request(call')) \in Seq(Cell)
  BY <1>1, MessageFacts, CellsFacts
<1>3. CASE /\ valid /\ pc' = "send" /\ buffer' = buffer \o Cells(Request(call'))
           /\ UNCHANGED <<valid, sock, outcome, alive, session, sessions, dirty, tainted>>
  <2>1. buffer' \in Seq(Cell)
    BY <1>2, <1>3, Joined DEF TypeOK
  <2> QED BY <1>1, <1>3, <2>1 DEF TypeOK, InCall
<1>4. CASE /\ ~ valid /\ pc' = "send" /\ valid' = TRUE /\ Connected /\ dirty' = FALSE
           /\ buffer' = Cells(Request(call')) /\ UNCHANGED <<outcome, tainted>>
  <2>1. /\ sessions' \in 1..Sessions /\ sock' \in 0..sessions'
        /\ alive' \in [1..Sessions -> BOOLEAN] /\ session' \in [1..Sessions -> SessionRecord]
    BY <1>4, ConnectedType
  <2>2. /\ sessions' \in 0..Sessions /\ pc' = "send" /\ valid' = TRUE /\ dirty' = FALSE
        /\ buffer' \in Seq(Cell) /\ UNCHANGED <<outcome, tainted>>
    BY <1>2, <1>4, <2>1, Consts
  <2>3. TypeOK'
    <3>1. valid' /\ valid' \in BOOLEAN /\ dirty' \in BOOLEAN
      BY <2>2
    <3>2. call' \in 0..Calls /\ pc' \in {"idle", "send", "resend", "receive", "rest"}
      BY <1>1, <2>2
    <3>3. /\ outcome' \in [1..Calls -> Messages \union NoDocument] /\ executed' \in [1..Calls -> Nat]
          /\ up' \in [1..Sessions -> Seq(Cell)] /\ down' \in [1..Sessions -> Seq(Cell)]
          /\ tainted' \subseteq 1..Calls
      BY <1>1, <2>2 DEF TypeOK
    <3>4. pc' \in {"receive", "rest"} => sock' # 0
      BY <2>2
    <3> QED BY <2>1, <2>2, <3>1, <3>2, <3>3, <3>4 DEF TypeOK, SessionRecord
  <2>4. InCall'
    BY <1>1, <2>2 DEF InCall
  <2> QED BY <2>3, <2>4
<1>5. CASE /\ ~ valid /\ outcome' = [outcome EXCEPT ![call'] = Thrown]
           /\ UNCHANGED <<pc, valid, sock, buffer, alive, session, sessions, dirty, tainted>>
  <2>1. outcome' \in [1..Calls -> Messages \union NoDocument]
    BY <1>1, <1>5 DEF TypeOK, NoDocument
  <2> QED BY <1>1, <1>5, <2>1 DEF TypeOK, InCall
<1> QED BY <1>3, <1>4, <1>5 DEF Begin

LEMMA ReopenType == TypeOK /\ InCall /\ Reopen => TypeOK' /\ InCall'
<1> SUFFICES ASSUME TypeOK, InCall, Reopen PROVE TypeOK' /\ InCall'
  OBVIOUS
<1>1. /\ pc \in {"send", "resend"} /\ sock = 0 /\ call \in 1..Calls /\ valid
      /\ UNCHANGED <<call, valid, buffer, up, down, executed, breaks>>
  BY DEF Reopen, InCall
<1>2. CASE Connected /\ UNCHANGED <<pc, outcome, dirty, tainted>>
  <2>1. /\ sessions' \in 1..Sessions /\ sock' \in 0..sessions'
        /\ alive' \in [1..Sessions -> BOOLEAN] /\ session' \in [1..Sessions -> SessionRecord]
    BY <1>2, ConnectedType
  <2>2. sessions' \in 0..Sessions /\ pc' \in {"send", "resend"} /\ valid' = TRUE
    BY <1>1, <1>2, <2>1, Consts DEF TypeOK
  <2>3. TypeOK'
    BY <1>1, <1>2, <2>1, <2>2 DEF TypeOK, SessionRecord
  <2>4. InCall'
    BY <1>1, <2>2 DEF InCall
  <2> QED BY <2>3, <2>4
<1>3. CASE dirty' = TRUE /\ Ends(Thrown) /\ UNCHANGED <<sock, alive, session, sessions>>
  <2>1. /\ pc' = "idle" /\ outcome' \in [1..Calls -> Messages \union NoDocument]
        /\ tainted' \subseteq 1..Calls
    BY <1>1, <1>3, EndsType DEF NoDocument
  <2> QED BY <1>1, <1>3, <2>1 DEF TypeOK, InCall
<1> QED BY <1>2, <1>3 DEF Reopen

LEMMA ClosedType ==
  ASSUME TypeOK, Closed
  PROVE  /\ sock' = 0 /\ alive' \in [1..Sessions -> BOOLEAN] /\ down' \in [1..Sessions -> Seq(Cell)]
         /\ alive' = [alive EXCEPT ![sock] = FALSE] /\ down' = [down EXCEPT ![sock] = <<>>]
<1>1. <<>> \in Seq(Cell)
  OBVIOUS
<1> QED BY <1>1 DEF Closed, TypeOK

LEMMA SockType ==
  ASSUME TypeOK, sock # 0
  PROVE  sock \in 1..Sessions
BY Consts DEF TypeOK

LEMMA SendType == TypeOK /\ InCall /\ Send => TypeOK' /\ InCall'
<1> SUFFICES ASSUME TypeOK, InCall, Send PROVE TypeOK' /\ InCall'
  OBVIOUS
<1>1. /\ pc \in {"send", "resend"} /\ sock \in 1..Sessions /\ call \in 1..Calls /\ valid /\ sock # 0
      /\ UNCHANGED <<call, valid, outcome, session, executed, breaks, sessions, dirty, tainted>>
  BY SockType DEF Send, InCall, server
<1>2. CASE /\ buffer' = <<>> /\ pc' = "receive"
           /\ up' = IF alive[sock] THEN [up EXCEPT ![sock] = @ \o buffer] ELSE up
           /\ UNCHANGED <<sock, alive, down>>
  <2>1. up[sock] \o buffer \in Seq(Cell) /\ buffer' \in Seq(Cell)
    BY <1>1, <1>2, Joined DEF TypeOK
  <2>2. up' \in [1..Sessions -> Seq(Cell)]
    BY <1>2, <2>1 DEF TypeOK
  <2> QED BY <1>1, <1>2, <2>1, <2>2 DEF TypeOK, InCall
<1>3. CASE pc' = "resend" /\ Closed /\ UNCHANGED <<buffer, up>>
  <2>1. /\ sock' = 0 /\ alive' \in [1..Sessions -> BOOLEAN] /\ down' \in [1..Sessions -> Seq(Cell)]
    BY <1>3, ClosedType
  <2>2. sessions \in Nat
    BY Consts DEF TypeOK
  <2> QED BY <1>1, <1>3, <2>1, <2>2 DEF TypeOK, InCall
<1>4. CASE pc' = "receive" /\ UNCHANGED <<sock, buffer, alive, down, up>>
  BY <1>1, <1>4 DEF TypeOK, InCall
<1> QED BY <1>2, <1>3, <1>4 DEF Send

\* What the client has of the reply.
LEMMA GotFacts ==
  ASSUME TypeOK, pc \in {"receive", "rest"}, NEW n \in Pieces(down[sock], ClientBuf)
  PROVE  /\ sock \in 1..Sessions /\ n \in 1..Len(down[sock]) /\ n \in 0..Len(down[sock])
         /\ Len(down[sock]) \in Nat
         /\ buffer \in Seq(Cell) /\ down[sock] \in Seq(Cell)
         /\ SubSeq(down[sock], 1, n) \in Seq(Cell) /\ After(down[sock], n) \in Seq(Cell)
         /\ buffer \o SubSeq(down[sock], 1, n) \in Seq(Cell)
         /\ down[sock] # <<>>
<1>1. sock \in 1..Sessions
  BY SockType DEF TypeOK
<1>2. buffer \in Seq(Cell) /\ down[sock] \in Seq(Cell)
  BY <1>1 DEF TypeOK
<1>3. n \in 1..Len(down[sock]) /\ n \in 0..Len(down[sock]) /\ Len(down[sock]) \in Nat
  BY <1>2, LenProperties DEF Pieces
<1>4. SubSeq(down[sock], 1, n) \in Seq(Cell) /\ After(down[sock], n) \in Seq(Cell)
  BY <1>2, <1>3, Pieced
<1>5. down[sock] # <<>>
  BY <1>3
<1> QED BY <1>1, <1>2, <1>3, <1>4, <1>5, Joined

LEMMA ReturnType ==
  ASSUME TypeOK, InCall, NEW got \in Seq(Cell), NEW n \in Nat, Return(got, n),
         UNCHANGED <<call, dirty, sessions>>, pc \in {"receive", "rest"}
  PROVE  /\ pc' = "idle" /\ buffer' = <<>> /\ buffer' \in Seq(Cell)
         /\ outcome' \in [1..Calls -> Messages \union NoDocument]
         /\ tainted' \subseteq 1..Calls /\ tainted \subseteq tainted'
         /\ dirty' => call \in tainted'
         /\ alive' \in [1..Sessions -> BOOLEAN]
         /\ valid' \in BOOLEAN /\ sock' \in 0..sessions' /\ (~ valid' => sock' = 0)
         /\ \E m \in Document(got, n) :
              \/ m = Invalid /\ ~ valid' /\ outcome' = [outcome EXCEPT ![call] = Failed]
              \/ m # Invalid /\ UNCHANGED <<valid, sock, alive>> /\ outcome' = [outcome EXCEPT ![call] = m]
<1>1. PICK m \in Document(got, n) :
        IF m = Invalid
        THEN Ends(Failed) /\ Invalidated
        ELSE Ends(m) /\ UNCHANGED <<valid, sock, alive>>
  BY DEF Return
<1>2. buffer' = <<>> /\ buffer' \in Seq(Cell) /\ call \in 1..Calls /\ dirty' \in BOOLEAN /\ valid
  BY DEF Return, Emptied, InCall, TypeOK
<1>3. m \in Messages \cup {Invalid}
  BY DocumentFacts
<1>4. CASE m = Invalid
  <2>1. Failed \in Messages \union NoDocument /\ Ends(Failed)
    BY <1>1, <1>4 DEF NoDocument
  <2>2. Invalidated /\ sessions \in Nat /\ alive \in [1..Sessions -> BOOLEAN]
    BY <1>1, <1>4, Consts DEF TypeOK
  <2>3. valid' = FALSE /\ sock' = 0 /\ alive' = [alive EXCEPT ![sock] = FALSE]
    BY <2>2 DEF Invalidated
  <2>4. alive' \in [1..Sessions -> BOOLEAN] /\ sock' \in 0..sessions'
    <3>1. alive' \in [1..Sessions -> BOOLEAN]
      BY <2>2, <2>3
    <3>2. sessions' = sessions
      OBVIOUS
    <3> QED BY <2>2, <2>3, <3>1, <3>2
  <2>5. /\ pc' = "idle" /\ outcome' \in [1..Calls -> Messages \union NoDocument]
        /\ tainted' \subseteq 1..Calls /\ tainted \subseteq tainted'
        /\ outcome' = [outcome EXCEPT ![call] = Failed]
        /\ dirty' => call \in tainted'
    BY <1>2, <2>1, EndsType
  <2> QED BY <1>2, <1>4, <2>3, <2>4, <2>5
<1>5. CASE m # Invalid
  <2>1. m \in Messages \union NoDocument /\ Ends(m) /\ UNCHANGED <<valid, sock, alive>>
    BY <1>1, <1>3, <1>5
  <2>2. /\ pc' = "idle" /\ outcome' \in [1..Calls -> Messages \union NoDocument]
        /\ tainted' \subseteq 1..Calls /\ tainted \subseteq tainted'
        /\ outcome' = [outcome EXCEPT ![call] = m]
        /\ dirty' => call \in tainted'
    BY <1>2, <2>1, EndsType
  <2>3. /\ alive' \in [1..Sessions -> BOOLEAN] /\ valid' \in BOOLEAN /\ sock' \in 0..sessions'
        /\ ~ valid' => sock' = 0
    BY <2>1, <1>2 DEF TypeOK
  <2> QED BY <1>2, <1>5, <2>1, <2>2, <2>3
<1> QED BY <1>4, <1>5

LEMMA ReceiveType == TypeOK /\ InCall /\ Receive => TypeOK' /\ InCall'
<1> SUFFICES ASSUME TypeOK, InCall, Receive PROVE TypeOK' /\ InCall'
  OBVIOUS
<1>1. /\ pc \in {"receive", "rest"} /\ UNCHANGED <<call, up, session, executed, breaks, sessions, dirty>>
      /\ call \in 1..Calls /\ valid
  BY DEF Receive, server, InCall
<1>2. PICK n \in Pieces(down[sock], ClientBuf) :
        LET got == buffer \o SubSeq(down[sock], 1, n) IN
        /\ down' = [down EXCEPT ![sock] = After(@, n)]
        /\ \E size \in Announced(got) :
             IF Len(got) >= size
             THEN Return(got, size)
             ELSE /\ pc' = "rest" /\ buffer' = got
                  /\ UNCHANGED <<valid, sock, outcome, alive, tainted>>
  BY DEF Receive
<1> DEFINE got == buffer \o SubSeq(down[sock], 1, n)
<1>3. got \in Seq(Cell) /\ sock \in 1..Sessions /\ After(down[sock], n) \in Seq(Cell)
  BY <1>1, GotFacts
<1>4. down' \in [1..Sessions -> Seq(Cell)]
  BY <1>2, <1>3 DEF TypeOK
<1>5. PICK size \in Announced(got) :
        IF Len(got) >= size
        THEN Return(got, size)
        ELSE /\ pc' = "rest" /\ buffer' = got
             /\ UNCHANGED <<valid, sock, outcome, alive, tainted>>
  BY <1>2
<1> HIDE DEF got
<1>6. size \in Nat
  BY <1>3, AnnouncedType
<1>7. CASE Len(got) >= size
  <2>1. Return(got, size)
    BY <1>5, <1>7
  <2>2. /\ pc' = "idle" /\ buffer' = <<>> /\ buffer' \in Seq(Cell)
        /\ outcome' \in [1..Calls -> Messages \union NoDocument]
        /\ tainted' \subseteq 1..Calls
        /\ alive' \in [1..Sessions -> BOOLEAN]
        /\ valid' \in BOOLEAN /\ sock' \in 0..sessions' /\ (~ valid' => sock' = 0)
    BY <1>1, <1>3, <1>6, <2>1, ReturnType
  <2>3. TypeOK'
    BY <1>1, <1>4, <2>2 DEF TypeOK
  <2> QED BY <2>2, <2>3 DEF InCall
<1>8. CASE ~(Len(got) >= size)
  <2>1. pc' = "rest" /\ buffer' = got /\ UNCHANGED <<valid, sock, outcome, alive, tainted>>
    BY <1>5, <1>8
  <2> QED BY <1>1, <1>3, <1>4, <2>1 DEF TypeOK, InCall
<1> QED BY <1>7, <1>8

LEMMA ReceiveFailsType == TypeOK /\ InCall /\ ReceiveFails => TypeOK' /\ InCall'
<1> SUFFICES ASSUME TypeOK, InCall, ReceiveFails PROVE TypeOK' /\ InCall'
  OBVIOUS
<1>1. /\ pc \in {"receive", "rest"} /\ call \in 1..Calls /\ valid
      /\ UNCHANGED <<call, up, session, executed, breaks, sessions>>
      /\ sessions \in Nat /\ Failed \in NoDocument /\ Thrown \in NoDocument
  BY Consts DEF ReceiveFails, server, InCall, TypeOK, NoDocument
<1>2. CASE GivesUp
  <2>1. buffer' = <<>> /\ buffer' \in Seq(Cell) /\ valid' = FALSE /\ UNCHANGED dirty /\ Closed /\ Ends(Failed)
    BY <1>2 DEF GivesUp
  <2>2. /\ sock' = 0 /\ alive' \in [1..Sessions -> BOOLEAN] /\ down' \in [1..Sessions -> Seq(Cell)]
    BY <2>1, ClosedType
  <2>3. dirty' \in BOOLEAN
    BY <2>1 DEF TypeOK
  <2>4. /\ pc' = "idle" /\ outcome' \in [1..Calls -> Messages \union NoDocument]
        /\ tainted' \subseteq 1..Calls
    BY <1>1, <2>1, <2>3, EndsType
  <2>5. buffer' = <<>> /\ buffer' \in Seq(Cell) /\ valid' = FALSE
    BY <2>1
  <2>6. TypeOK'
    <3>1. valid' \in BOOLEAN /\ sock' \in 0..sessions' /\ ~ (pc' \in {"receive", "rest"})
      <4>1. valid' \in BOOLEAN
        BY <2>5
      <4>2. sessions' = sessions /\ sessions \in Nat
        BY <1>1
      <4> QED BY <2>2, <2>4, <4>1, <4>2
    <3>2. /\ call' \in 0..Calls /\ up' \in [1..Sessions -> Seq(Cell)]
          /\ sessions' \in 0..Sessions /\ executed' \in [1..Calls -> Nat]
          /\ session' \in [1..Sessions -> SessionRecord]
      BY <1>1 DEF TypeOK, SessionRecord
    <3> QED BY <2>2, <2>3, <2>4, <2>5, <3>1, <3>2 DEF TypeOK, SessionRecord
  <2> QED BY <2>4, <2>6 DEF InCall
<1>3. CASE dirty' = TRUE /\ Ends(Thrown) /\ UNCHANGED <<valid, sock, buffer, alive, down>>
  <2>1. /\ pc' = "idle" /\ outcome' \in [1..Calls -> Messages \union NoDocument]
        /\ tainted' \subseteq 1..Calls
    BY <1>1, <1>3, EndsType
  <2> QED BY <1>1, <1>3, <2>1 DEF TypeOK, InCall
<1> QED BY <1>2, <1>3 DEF ReceiveFails

LEMMA SessionType ==
  ASSUME TypeOK, NEW s \in 1..Sessions
  PROVE  /\ session \in [1..Sessions -> SessionRecord] /\ session[s] \in SessionRecord
         /\ session[s].got \in Seq(Cell) /\ session[s].need \in Nat /\ session[s].answer \in Answers
         /\ up[s] \in Seq(Cell) /\ down[s] \in Seq(Cell)
BY DEF TypeOK, SessionRecord

\* A piece of what is on its way to the server.
LEMMA PieceFacts ==
  ASSUME TypeOK, NEW s \in 1..Sessions, NEW n \in Pieces(up[s], ServerBuf)
  PROVE  /\ n \in 0..Len(up[s]) /\ n \in 1..Len(up[s]) /\ Len(up[s]) \in Nat /\ up[s] # <<>>
         /\ n <= ServerBuf
         /\ SubSeq(up[s], 1, n) \in Seq(Cell) /\ Len(SubSeq(up[s], 1, n)) = n
         /\ \A i \in 1..n : SubSeq(up[s], 1, n)[i] = up[s][i]
         /\ After(up[s], n) \in Seq(Cell)
         /\ SubSeq(up[s], 1, n) \o After(up[s], n) = up[s]
<1>1. up[s] \in Seq(Cell) /\ Len(up[s]) \in Nat
  BY LenProperties DEF TypeOK
<1>2. n \in 1..Len(up[s]) /\ n <= ServerBuf
  BY DEF Pieces
<1>3. n \in 0..Len(up[s]) /\ up[s] # <<>>
  BY <1>1, <1>2
<1> QED BY <1>1, <1>2, <1>3, Pieced

ReadEffect(s, n, size) ==
  /\ size \in Nat
  /\ up' = [up EXCEPT ![s] = After(up[s], n)]
  /\ dirty' = (dirty \/ (s = sock /\ Torn(SubSeq(up[s], 1, n), size)))
  /\ \/ /\ size < Header /\ size <= n /\ session' = session
        /\ down' = IF alive[s] THEN [down EXCEPT ![s] = down[s] \o SubSeq(SubSeq(up[s], 1, n), 1, size)]
                   ELSE down
     \/ /\ size >= Header /\ UNCHANGED down
        /\ \E r \in SessionRecord :
             /\ session' = [session EXCEPT ![s] = r]
             /\ r.got = SubSeq(up[s], 1, n) /\ r.need = size
             /\ r.at = (IF size <= ServerBuf THEN "process" ELSE "more")

LEMMA ReadDoes ==
  ASSUME TypeOK, NEW s \in 1..Sessions, Read(s)
  PROVE  \E n \in Pieces(up[s], ServerBuf) :
           \E size \in Announced(SubSeq(up[s], 1, n)) : ReadEffect(s, n, size)
<1>1. PICK n \in Pieces(up[s], ServerBuf) : \E size \in Announced(SubSeq(up[s], 1, n)) :
         /\ up' = [up EXCEPT ![s] = After(@, n)]
         /\ dirty' = (dirty \/ (s = sock /\ Torn(SubSeq(up[s], 1, n), size)))
         /\ IF size < Header
            THEN /\ session' = session
                 /\ down' = IF alive[s] THEN [down EXCEPT ![s] = @ \o SubSeq(SubSeq(up[s], 1, n), 1, size)] ELSE down
            ELSE /\ session' = [session EXCEPT ![s].at = IF size <= ServerBuf THEN "process" ELSE "more",
                                               ![s].got = SubSeq(up[s], 1, n), ![s].need = size]
                 /\ UNCHANGED down
  BY DEF Read
<1> DEFINE got == SubSeq(up[s], 1, n)
<1>2. PICK size \in Announced(got) :
         /\ up' = [up EXCEPT ![s] = After(@, n)]
         /\ dirty' = (dirty \/ (s = sock /\ Torn(got, size)))
         /\ IF size < Header
            THEN /\ session' = session
                 /\ down' = IF alive[s] THEN [down EXCEPT ![s] = @ \o SubSeq(got, 1, size)] ELSE down
            ELSE /\ session' = [session EXCEPT ![s].at = IF size <= ServerBuf THEN "process" ELSE "more",
                                               ![s].got = got, ![s].need = size]
                 /\ UNCHANGED down
  BY <1>1
<1>3. /\ got \in Seq(Cell) /\ Len(got) = n /\ n \in 1..Len(up[s]) /\ Len(up[s]) \in Nat
      /\ \A i \in 1..n : got[i] \in Cell
  BY PieceFacts, ElementOfSeq
<1> HIDE DEF got
<1>4. size \in Nat
  BY <1>3, AnnouncedType
<1>5. CASE size < Header
  <2>1. size <= n
    <3>1. CASE n < Header
      BY <3>1, <1>2, <1>3 DEF Announced
    <3>2. CASE n >= Header
      BY <3>2, <1>3, <1>4, <1>5, SizeFacts
    <3> QED BY <3>1, <3>2, <1>3, SizeFacts
  <2>2. UNCHANGED session /\ down' = IF alive[s] THEN [down EXCEPT ![s] = @ \o SubSeq(got, 1, size)] ELSE down
    BY <1>2, <1>5
  <2>3. ReadEffect(s, n, size)
    BY <1>2, <1>4, <1>5, <2>1, <2>2 DEF got, ReadEffect
  <2> QED BY <1>2, <2>3 DEF got
<1>6. CASE ~(size < Header)
  <2>1. size >= Header
    BY <1>6, <1>4, SizeFacts
  <2> DEFINE a == IF size <= ServerBuf THEN "process" ELSE "more"
             r == [session[s] EXCEPT !.at = a, !.got = got, !.need = size]
  <2>2. a \in {"process", "more"}
    OBVIOUS
  <2>3. UNCHANGED down /\ session' = [session EXCEPT ![s].at = a, ![s].got = got, ![s].need = size]
    BY <1>2, <1>6
  <2> HIDE DEF a
  <2>4. session' = [session EXCEPT ![s] = r]
    BY <2>3, SessionType
  <2>5. r \in SessionRecord
    BY <1>3, <1>4, <2>2, SessionType DEF SessionRecord
  <2>6. r.at = a /\ r.got = got /\ r.need = size
    BY SessionType DEF SessionRecord
  <2> HIDE DEF r
  <2>7. \E x \in SessionRecord : /\ session' = [session EXCEPT ![s] = x]
                                 /\ x.got = got /\ x.need = size /\ x.at = a
    BY <2>4, <2>5, <2>6
  <2>8. ReadEffect(s, n, size)
    BY <1>2, <1>4, <2>1, <2>3, <2>7 DEF got, a, ReadEffect
  <2> QED BY <1>2, <2>8 DEF got
<1> QED BY <1>5, <1>6

LEMMA MoreDoes ==
  ASSUME TypeOK, NEW s \in 1..Sessions, More(s)
  PROVE  \E n \in Pieces(up[s], ServerBuf), r \in SessionRecord :
           /\ up' = [up EXCEPT ![s] = After(up[s], n)] /\ session' = [session EXCEPT ![s] = r]
           /\ r.got = session[s].got \o SubSeq(up[s], 1, n) /\ r.need = session[s].need
           /\ r.at = (IF Len(r.got) = r.need THEN "process" ELSE "more")
<1>1. PICK n \in Pieces(up[s], ServerBuf) :
         LET got == session[s].got \o SubSeq(up[s], 1, n) IN
         /\ up' = [up EXCEPT ![s] = After(@, n)]
         /\ session' = [session EXCEPT ![s].got = got,
                          ![s].at = IF Complete(got, session[s].need) THEN "process" ELSE "more"]
  BY DEF More
<1> DEFINE got == session[s].got \o SubSeq(up[s], 1, n)
           a == IF Len(got) = session[s].need THEN "process" ELSE "more"
           r == [session[s] EXCEPT !.got = got, !.at = a]
<1>2. session' = [session EXCEPT ![s].got = got, ![s].at = a]
  BY <1>1 DEF Complete
<1>3. got \in Seq(Cell)
  BY PieceFacts, SessionType, Joined
<1>4. a \in {"process", "more"}
  OBVIOUS
<1> HIDE DEF got, a
<1>5. session' = [session EXCEPT ![s] = r]
  BY <1>2, SessionType
<1>6. r \in SessionRecord
  BY <1>3, <1>4, SessionType DEF SessionRecord
<1>7. r.at = a /\ r.got = got /\ r.need = session[s].need
  BY SessionType DEF SessionRecord
<1> HIDE DEF r
<1>8. r.at = IF Len(r.got) = r.need THEN "process" ELSE "more"
  BY <1>7 DEF a
<1> QED BY <1>1, <1>5, <1>6, <1>7, <1>8 DEF got

LEMMA ProcessDoes ==
  ASSUME TypeOK, NEW s \in 1..Sessions, Process(s)
  PROVE  \E m \in Document(session[s].got, session[s].need) : \E answer \in Answers :
           /\ m \in Messages \cup {Invalid}
           /\ m[1] = "request" => /\ m[2] \in 1..Calls /\ m = Request(m[2]) /\ answer = Reply(m[2])
                                  /\ executed' = [executed EXCEPT ![m[2]] = executed[m[2]] + 1]
                                  /\ Len(session[s].got) >= 1 /\ session[s].got[1] = First(m[2])
           /\ m[1] # "request" => executed' = executed
           /\ \E r \in SessionRecord :
                /\ session' = [session EXCEPT ![s] = r]
                /\ r.at = "write" /\ r.got = <<>> /\ r.answer = answer
<1>1. PICK m \in Document(session[s].got, session[s].need) :
       LET answer == CASE m[1] = "request" -> Reply(m[2]) [] m = Mixed -> Mixed [] OTHER -> NotBson IN
       /\ session' = [session EXCEPT ![s] = [Fresh EXCEPT !.at = "write", !.answer = answer]]
       /\ executed' = IF m[1] = "request" THEN [executed EXCEPT ![m[2]] = @ + 1] ELSE executed
  BY DEF Process
<1> DEFINE answer == CASE m[1] = "request" -> Reply(m[2]) [] m = Mixed -> Mixed [] OTHER -> NotBson
<1>2. /\ m \in Messages \cup {Invalid}
      /\ m[1] = "request" => /\ m[2] \in 1..Calls /\ m = Request(m[2])
                             /\ Len(session[s].got) >= 1 /\ session[s].got[1] = First(m[2])
  BY SessionType, DocumentFacts
<1>3. /\ m[1] = "request" => answer = Reply(m[2])
      /\ answer \in Answers
  <2>1. CASE m[1] = "request"
    <3>1. m # Mixed
      BY <2>1 DEF Mixed
    <3>2. answer = Reply(m[2])
      BY <2>1, <3>1
    <3> QED BY <2>1, <3>2, <1>2, AnswerFacts
  <2>2. CASE m[1] # "request"
    BY <2>2, AnswerFacts
  <2> QED BY <2>1, <2>2
<1>4. session' = [session EXCEPT ![s] = [Fresh EXCEPT !.at = "write", !.answer = answer]]
  BY <1>1
<1> HIDE DEF answer
<1>5. \E r \in SessionRecord :
        /\ session' = [session EXCEPT ![s] = r]
        /\ r.at = "write" /\ r.got = <<>> /\ r.answer = answer
  <2> DEFINE r == [Fresh EXCEPT !.at = "write", !.answer = answer]
  <2>1. r \in SessionRecord
    BY <1>3, FreshType DEF SessionRecord
  <2>2. r.at = "write" /\ r.got = <<>> /\ r.answer = answer
    BY DEF Fresh
  <2> HIDE DEF r
  <2> QED BY <1>4, <2>1, <2>2 DEF r
<1>6. /\ m[1] = "request" => executed' = [executed EXCEPT ![m[2]] = executed[m[2]] + 1]
      /\ m[1] # "request" => executed' = executed
  BY <1>1
<1> QED BY <1>2, <1>3, <1>5, <1>6

LEMMA ServeType ==
  ASSUME TypeOK, NEW s \in 1..Sessions, Serve(s)
  PROVE  /\ UNCHANGED <<client, alive, breaks, sessions, tainted>> /\ dirty' \in BOOLEAN
         /\ dirty => dirty'
         /\ up' \in [1..Sessions -> Seq(Cell)] /\ down' \in [1..Sessions -> Seq(Cell)]
         /\ session' \in [1..Sessions -> SessionRecord] /\ executed' \in [1..Calls -> Nat]
<1>1. /\ up \in [1..Sessions -> Seq(Cell)] /\ down \in [1..Sessions -> Seq(Cell)]
      /\ session \in [1..Sessions -> SessionRecord] /\ executed \in [1..Calls -> Nat]
      /\ dirty \in BOOLEAN
  BY DEF TypeOK, SessionRecord
<1>2. CASE Read(s)
  <2>1. UNCHANGED <<client, alive, executed, breaks, sessions, tainted>>
    BY <1>2 DEF Read
  <2>2. PICK n \in Pieces(up[s], ServerBuf) :
           \E size \in Announced(SubSeq(up[s], 1, n)) : ReadEffect(s, n, size)
    BY <1>2, ReadDoes
  <2> DEFINE got == SubSeq(up[s], 1, n)
  <2>3. got \in Seq(Cell) /\ After(up[s], n) \in Seq(Cell) /\ Len(got) = n /\ n \in Nat
    BY PieceFacts
  <2>4. PICK size \in Announced(got) : ReadEffect(s, n, size)
    BY <2>2
  <2>5. up' \in [1..Sessions -> Seq(Cell)]
    BY <1>1, <2>3, <2>4 DEF ReadEffect
  <2>6. dirty' \in BOOLEAN /\ (dirty => dirty') /\ size \in Nat
    BY <2>4 DEF ReadEffect
  <2>7. CASE size <= n /\ session' = session
               /\ down' = IF alive[s] THEN [down EXCEPT ![s] = down[s] \o SubSeq(got, 1, size)] ELSE down
    <3>1. SubSeq(got, 1, size) \in Seq(Cell)
      BY <2>3, <2>6, <2>7, Pieced
    <3>2. down[s] \o SubSeq(got, 1, size) \in Seq(Cell)
      BY <3>1, <1>1, Joined
    <3>3. down' \in [1..Sessions -> Seq(Cell)]
      BY <3>2, <2>7, <1>1
    <3> QED BY <1>1, <2>1, <2>5, <2>6, <2>7, <3>3
  <2>8. CASE /\ UNCHANGED down
             /\ \E r \in SessionRecord : session' = [session EXCEPT ![s] = r]
    <3>1. session' \in [1..Sessions -> SessionRecord]
      BY <2>8, <1>1
    <3> QED BY <1>1, <2>1, <2>5, <2>6, <2>8, <3>1
  <2> QED BY <2>4, <2>7, <2>8 DEF ReadEffect
<1>3. CASE More(s)
  <2>1. UNCHANGED <<client, alive, down, executed, breaks, sessions, dirty, tainted>>
    BY <1>3 DEF More
  <2>2. PICK n \in Pieces(up[s], ServerBuf), r \in SessionRecord :
           up' = [up EXCEPT ![s] = After(up[s], n)] /\ session' = [session EXCEPT ![s] = r]
    BY <1>3, MoreDoes
  <2>3. After(up[s], n) \in Seq(Cell)
    BY PieceFacts
  <2>4. up' \in [1..Sessions -> Seq(Cell)]
    BY <1>1, <2>2, <2>3
  <2>5. session' \in [1..Sessions -> SessionRecord]
    BY <1>1, <2>2
  <2> QED BY <1>1, <2>1, <2>4, <2>5
<1>4. CASE Process(s)
  <2>1. UNCHANGED <<client, alive, up, down, breaks, sessions, dirty, tainted>>
    BY <1>4 DEF Process
  <2>2. PICK m \in Document(session[s].got, session[s].need) : \E answer \in Answers :
           /\ m[1] = "request" => /\ m[2] \in 1..Calls
                                  /\ executed' = [executed EXCEPT ![m[2]] = executed[m[2]] + 1]
           /\ m[1] # "request" => executed' = executed
           /\ \E r \in SessionRecord : session' = [session EXCEPT ![s] = r]
    BY <1>4, ProcessDoes
  <2>3. executed' \in [1..Calls -> Nat]
    BY <1>1, <2>2
  <2>4. session' \in [1..Sessions -> SessionRecord]
    BY <1>1, <2>2
  <2> QED BY <1>1, <2>1, <2>3, <2>4
<1>5. CASE Write(s)
  <2>1. UNCHANGED <<client, alive, up, executed, breaks, sessions, dirty, tainted>>
    BY <1>5 DEF Write
  <2>2. session' \in [1..Sessions -> SessionRecord]
    BY <1>1, <1>5, FreshType DEF Write
  <2>3. down[s] \o Cells(session[s].answer) \in Seq(Cell)
    BY SessionType, AnswerFacts, CellsFacts, Joined
  <2>4. down' \in [1..Sessions -> Seq(Cell)]
    BY <1>1, <1>5, <2>3 DEF Write
  <2> QED BY <1>1, <2>1, <2>2, <2>4
<1>6. CASE End(s)
  BY <1>1, <1>6, FreshType DEF End
<1> QED BY <1>2, <1>3, <1>4, <1>5, <1>6 DEF Serve

LEMMA BreakType ==
  ASSUME TypeOK, NEW s \in 1..Sessions, Break(s)
  PROVE  /\ UNCHANGED <<client, server, sessions, dirty, tainted>>
         /\ alive' \in [1..Sessions -> BOOLEAN]
         /\ up' \in [1..Sessions -> Seq(Cell)] /\ down' \in [1..Sessions -> Seq(Cell)]
<1>1. /\ UNCHANGED <<client, server, sessions, dirty, tainted>>
      /\ alive' = [alive EXCEPT ![s] = FALSE]
  BY DEF Break
<1>2. PICK n \in 0..Len(up[s]), k \in 0..Len(down[s]) :
        up' = [up EXCEPT ![s] = SubSeq(up[s], 1, n)] /\ down' = [down EXCEPT ![s] = SubSeq(down[s], 1, k)]
  BY DEF Break
<1>3. SubSeq(up[s], 1, n) \in Seq(Cell) /\ SubSeq(down[s], 1, k) \in Seq(Cell)
  BY SessionType, Pieced
<1> QED BY <1>1, <1>2, <1>3 DEF TypeOK

LEMMA TypeStep == TypeOK /\ InCall /\ [Next]_vars => TypeOK' /\ InCall'
<1> SUFFICES ASSUME TypeOK, InCall, [Next]_vars PROVE TypeOK' /\ InCall'
  OBVIOUS
<1>1. CASE Client
  BY <1>1, BeginType, ReopenType, SendType, ReceiveType, ReceiveFailsType DEF Client
<1>2. ASSUME NEW s \in 1..Sessions, Serve(s) PROVE TypeOK' /\ InCall'
  <2>1. /\ UNCHANGED <<client, alive, breaks, sessions, tainted>> /\ dirty' \in BOOLEAN
        /\ up' \in [1..Sessions -> Seq(Cell)] /\ down' \in [1..Sessions -> Seq(Cell)]
        /\ session' \in [1..Sessions -> SessionRecord] /\ executed' \in [1..Calls -> Nat]
    BY <1>2, ServeType
  <2> QED BY <2>1 DEF TypeOK, SessionRecord, InCall, client
<1>3. ASSUME NEW s \in 1..Sessions, Break(s) PROVE TypeOK' /\ InCall'
  BY <1>3, BreakType DEF TypeOK, InCall, client, server
<1>4. CASE UNCHANGED vars
  BY <1>4 DEF vars, client, server, TypeOK, InCall
<1> QED BY <1>1, <1>2, <1>3, <1>4 DEF Next, Done

\* Every value is of its type: the session machine, framing and the streams.
THEOREM TypeCorrect == Spec => []TypeOK
<1>1. Init => TypeOK /\ InCall
  BY TypeInit DEF Init, InCall
<1> QED BY <1>1, TypeStep, PTL DEF Spec
-----------------------------------------------------------------------------
(***************************************************************************)
(* Sessions that were not started                                          *)
(***************************************************************************)
LEMMA ClientUnused ==
  ASSUME TypeOK, TypeOK', Unused, InCall, Client
  PROVE  Unused'
<1>1. ASSUME Connected, UNCHANGED <<up, down>> PROVE Unused'
  <2>1. /\ sessions' = sessions + 1 /\ sessions' \in 1..Sessions
        /\ alive' = [alive EXCEPT ![sessions'] = TRUE]
        /\ session' = [session EXCEPT ![sessions'] = Reading]
    BY <1>1, ConnectedType
  <2>2. sessions \in Nat /\ UNCHANGED <<up, down>>
    BY <1>1, Consts DEF TypeOK
  <2>3. ASSUME NEW s \in 1..Sessions, s # sessions'
        PROVE  session'[s] = session[s] /\ alive'[s] = alive[s] /\ (s > sessions' => s > sessions)
    BY <2>1, <2>2, <2>3 DEF TypeOK
  <2>4. session'[sessions'] = Reading
    BY <2>1 DEF TypeOK
  <2>5. ~(sessions' > sessions')
    BY <2>1, <2>2
  <2>6. SUFFICES ASSUME NEW s \in 1..Sessions
                 PROVE  /\ session'[s].at \notin {"more", "process"} => session'[s].got = <<>>
                        /\ s > sessions' => /\ up[s] = <<>> /\ down[s] = <<>>
                                            /\ session'[s].at = "none" /\ ~ alive'[s]
    BY <2>2 DEF Unused
  <2>7. CASE s = sessions'
    BY <2>4, <2>5, <2>7, FreshType
  <2>8. CASE s # sessions'
    BY <2>3, <2>8 DEF Unused
  <2> QED BY <2>7, <2>8
<1>2. ASSUME UNCHANGED <<session, sessions>>,
             \A s \in 1..Sessions : s > sessions => up'[s] = up[s],
             \A s \in 1..Sessions : down'[s] \in {<<>>, down[s]} \/ s <= sessions,
             \A s \in 1..Sessions : alive'[s] \in {FALSE, alive[s]}
      PROVE  Unused'
  <2>1. sessions \in Nat
    BY Consts DEF TypeOK
  <2>2. SUFFICES ASSUME NEW s \in 1..Sessions
                 PROVE  s > sessions => /\ up'[s] = <<>> /\ down'[s] = <<>>
                                       /\ session[s].at = "none" /\ ~ alive'[s]
    BY <1>2 DEF Unused
  <2>3. s > sessions => ~(s <= sessions)
    BY <2>1
  <2>4. s > sessions => ~ alive'[s]
    BY <1>2, <2>1 DEF Unused
  <2>5. s > sessions => up'[s] = <<>> /\ session[s].at = "none"
    BY <1>2, <2>1 DEF Unused
  <2>6. s > sessions => down'[s] = <<>>
    <3>1. s > sessions => down[s] = <<>>
      BY DEF Unused
    <3> QED BY <1>2, <2>3, <3>1
  <2> QED BY <2>4, <2>5, <2>6
<1>3. sessions \in Nat /\ sock \in 0..sessions
  BY Consts DEF TypeOK
<1>4. CASE Begin
  BY <1>1, <1>2, <1>4 DEF Begin
<1>5. CASE Reopen
  BY <1>1, <1>2, <1>5 DEF Reopen, Ends
<1>6. ASSUME Closed
      PROVE  /\ \A s \in 1..Sessions : down'[s] \in {<<>>, down[s]}
             /\ \A s \in 1..Sessions : alive'[s] \in {FALSE, alive[s]}
  BY <1>6, ClosedType DEF TypeOK
<1>7. CASE Send
  <2>1. UNCHANGED <<session, sessions>>
    BY <1>7 DEF Send, server
  <2>2. \A s \in 1..Sessions : s > sessions => up'[s] = up[s]
    BY <1>3, <1>7 DEF Send, TypeOK
  <2>3. /\ \A s \in 1..Sessions : down'[s] \in {<<>>, down[s]}
        /\ \A s \in 1..Sessions : alive'[s] \in {FALSE, alive[s]}
    BY <1>6, <1>7 DEF Send
  <2> QED BY <1>2, <2>1, <2>2, <2>3
<1>8. CASE Receive
  <2>1. UNCHANGED <<session, sessions, up>>
    BY <1>8 DEF Receive, server
  <2>2. \A s \in 1..Sessions : down'[s] \in {<<>>, down[s]} \/ s <= sessions
    BY <1>3, <1>8 DEF Receive, TypeOK
  <2>3. \A s \in 1..Sessions : alive'[s] \in {FALSE, alive[s]}
    <3>1. alive' = alive \/ alive' = [alive EXCEPT ![sock] = FALSE]
      BY <1>8 DEF Receive, Return, Invalidated
    <3> QED BY <3>1 DEF TypeOK
  <2> QED BY <1>2, <2>1, <2>2, <2>3
<1>9. CASE ReceiveFails
  <2>1. UNCHANGED <<session, sessions, up>>
    BY <1>9 DEF ReceiveFails, server
  <2>2. /\ \A s \in 1..Sessions : down'[s] \in {<<>>, down[s]}
        /\ \A s \in 1..Sessions : alive'[s] \in {FALSE, alive[s]}
    BY <1>6, <1>9 DEF ReceiveFails, GivesUp
  <2> QED BY <1>2, <2>1, <2>2
<1> QED BY <1>4, <1>5, <1>7, <1>8, <1>9 DEF Client

\* A session has been started when it does something.
LEMMA Started ==
  ASSUME TypeOK, Unused, NEW s \in 1..Sessions, session[s].at # "none" \/ alive[s]
  PROVE  s <= sessions
<1>1. sessions \in Nat
  BY Consts DEF TypeOK
<1> QED BY <1>1 DEF Unused

LEMMA ServeUnused ==
  ASSUME TypeOK, TypeOK', Unused, NEW s \in 1..Sessions, Serve(s) \/ Break(s)
  PROVE  Unused'
<1>1. s <= sessions /\ sessions' = sessions /\ sessions \in Nat
  <2>1. session[s].at # "none" \/ alive[s]
    BY DEF Serve, Read, More, Process, Write, End, Break
  <2>2. sessions' = sessions
    BY DEF Serve, Read, More, Process, Write, End, Break
  <2>3. sessions \in Nat
    BY Consts DEF TypeOK
  <2>4. s <= sessions
    BY <2>1, Started
  <2> QED BY <2>2, <2>3, <2>4
<1>2. \A t \in 1..Sessions : t # s => /\ session'[t] = session[t] /\ up'[t] = up[t]
                                      /\ down'[t] = down[t] /\ alive'[t] = alive[t]
  <2>1. CASE Read(s)
    <3>1. UNCHANGED alive
      BY <2>1 DEF Read
    <3>2. PICK n \in Pieces(up[s], ServerBuf) :
            \E size \in Announced(SubSeq(up[s], 1, n)) : ReadEffect(s, n, size)
      BY <2>1, ReadDoes
    <3>3. /\ \A t \in 1..Sessions : t # s => up'[t] = up[t] /\ down'[t] = down[t]
      BY <3>2 DEF ReadEffect, TypeOK
    <3>4. \A t \in 1..Sessions : t # s => session'[t] = session[t]
      BY <3>2 DEF ReadEffect, TypeOK
    <3> QED BY <3>1, <3>3, <3>4
  <2>2. CASE More(s)
    <3>1. UNCHANGED <<alive, down>>
      BY <2>2 DEF More
    <3>2. PICK n \in Pieces(up[s], ServerBuf), r \in SessionRecord :
            up' = [up EXCEPT ![s] = After(up[s], n)] /\ session' = [session EXCEPT ![s] = r]
      BY <2>2, MoreDoes
    <3>3. session \in [1..Sessions -> SessionRecord] /\ up \in [1..Sessions -> Seq(Cell)]
      BY DEF TypeOK, SessionRecord
    <3> QED BY <3>1, <3>2, <3>3
  <2>3. CASE Process(s)
    <3>1. UNCHANGED <<alive, up, down>>
      BY <2>3 DEF Process
    <3>2. \E r \in SessionRecord : session' = [session EXCEPT ![s] = r]
      BY <2>3, ProcessDoes
    <3> QED BY <3>1, <3>2 DEF TypeOK
  <2>4. CASE Write(s)
    BY <2>4 DEF Write, TypeOK
  <2>5. CASE End(s)
    BY <2>5 DEF End, TypeOK
  <2>6. CASE Break(s)
    BY <2>6 DEF Break, TypeOK, server
  <2> QED BY <2>1, <2>2, <2>3, <2>4, <2>5, <2>6 DEF Serve
<1>3. session'[s].at \notin {"more", "process"} => session'[s].got = <<>>
  <2>1. CASE Read(s)
    <3>1. session[s].at = "read"
      BY <2>1 DEF Read
    <3>2. \/ session' = session
          \/ session'[s].at \in {"process", "more"}
      BY <2>1, ReadDoes, SessionType DEF ReadEffect
    <3> QED BY <3>1, <3>2 DEF Unused
  <2>2. CASE More(s)
    BY <2>2, MoreDoes, SessionType
  <2>3. CASE Process(s)
    BY <2>3, ProcessDoes, SessionType
  <2>4. CASE Write(s)
    <3>1. session'[s] \in {Fresh, Reading}
      BY <2>4, SessionType DEF Write
    <3> QED BY <3>1, FreshType
  <2>5. CASE End(s)
    <3>1. session'[s] = Fresh
      BY <2>5, SessionType DEF End
    <3> QED BY <3>1, FreshType
  <2>6. CASE Break(s)
    BY <2>6 DEF Break, server, Unused
  <2> QED BY <2>1, <2>2, <2>3, <2>4, <2>5, <2>6 DEF Serve
<1> QED BY <1>1, <1>2, <1>3 DEF Unused

LEMMA UnusedInit == Init => Unused
BY FreshType DEF Init, Unused

LEMMA UnusedStep == TypeOK /\ Unused /\ InCall /\ [Next]_vars => Unused'
<1> SUFFICES ASSUME TypeOK, Unused, InCall, [Next]_vars PROVE Unused'
  OBVIOUS
<1>1. TypeOK'
  BY TypeStep
<1>2. CASE UNCHANGED vars
  BY <1>2 DEF vars, client, server, Unused
<1> QED BY <1>1, <1>2, ClientUnused, ServeUnused DEF Next, Done
-----------------------------------------------------------------------------
(***************************************************************************)
(* One copy of a request                                                   *)
(***************************************************************************)
Buffer == <<"buffer", 0>>
Up(s) == <<"up", s>>
Down(s) == <<"down", s>>
Got(s) == <<"got", s>>

LEMMA PlacesFacts ==
  /\ Buffer \in Places
  /\ \A s \in 1..Sessions : Up(s) \in Places /\ Down(s) \in Places /\ Got(s) \in Places
  /\ \A k \in Places : k = Buffer \/ \E s \in 1..Sessions : k \in {Up(s), Down(s), Got(s)}
  /\ \A s, t \in 1..Sessions :
       /\ Buffer \notin {Up(s), Down(s), Got(s)}
       /\ Up(s) # Down(t) /\ Up(s) # Got(t) /\ Down(s) # Got(t)
       /\ s # t => Up(s) # Up(t) /\ Down(s) # Down(t) /\ Got(s) # Got(t)
BY DEF Places, Buffer, Up, Down, Got

Filled ==
  /\ Streams \in [Places -> Seq(Cell)]
  /\ Streams[Buffer] = buffer
  /\ \A s \in 1..Sessions : /\ Streams[Up(s)] = up[s] /\ Streams[Down(s)] = down[s]
                            /\ Streams[Got(s)] = session[s].got

LEMMA StreamsFacts == TypeOK => Filled
<1> SUFFICES ASSUME TypeOK PROVE Filled
  OBVIOUS
<1>1. Streams[Buffer] = buffer
  BY PlacesFacts DEF Streams, Buffer
<1>2. ASSUME NEW s \in 1..Sessions
      PROVE  /\ Streams[Up(s)] = up[s] /\ Streams[Down(s)] = down[s]
             /\ Streams[Got(s)] = session[s].got
  BY PlacesFacts DEF Streams, Up, Down, Got
<1>3. ASSUME NEW k \in Places PROVE Streams[k] \in Seq(Cell)
  <2>1. CASE k = Buffer
    BY <2>1, <1>1 DEF TypeOK
  <2>2. ASSUME NEW s \in 1..Sessions, k \in {Up(s), Down(s), Got(s)} PROVE Streams[k] \in Seq(Cell)
    BY <2>2, <1>2, SessionType
  <2> QED BY <2>1, <2>2, PlacesFacts
<1>4. Streams = [k \in Places |-> Streams[k]]
  <2> DEFINE e(k) == CASE k[1] = "buffer" -> buffer
                       [] k[1] = "up" -> up[k[2]]
                       [] k[1] = "down" -> down[k[2]]
                       [] k[1] = "got" -> session[k[2]].got
  <2>1. Streams = [k \in Places |-> e(k)]
    BY DEF Streams
  <2> HIDE DEF e
  <2> QED BY <2>1
<1>5. Streams \in [Places -> Seq(Cell)]
  BY <1>3, <1>4
<1> QED BY <1>1, <1>2, <1>5 DEF Filled

LEMMA FilledBoth ==
  ASSUME TypeOK, TypeOK'
  PROVE  Filled /\ Filled'
<1>1. Filled
  BY StreamsFacts
<1>2. Filled'
  BY StreamsFacts, PTL
<1> QED BY <1>1, <1>2

\* What is the same, a beginning or an end.
LEMMA PartFacts ==
  ASSUME NEW u \in Seq(Cell)
  PROVE  /\ PartOf(u, u) /\ PartOf(<<>>, u)
         /\ \A n \in 0..Len(u) : PartOf(SubSeq(u, 1, n), u) /\ PartOf(After(u, n), u)
<1>1. Len(u) \in Nat
  BY LenProperties
<1>2. PartOf(u, u)
  <2>1. Len(u) + 0 <= Len(u) /\ \A i \in 1..Len(u) : u[i] = u[i + 0]
    BY <1>1
  <2> QED BY <2>1 DEF PartOf
<1>3. PartOf(<<>>, u)
  <2>1. Len(<<>>) + 0 <= Len(u) /\ \A i \in 1..Len(<<>>) : <<>>[i] = u[i + 0]
    BY <1>1
  <2> QED BY <2>1 DEF PartOf
<1>4. ASSUME NEW n \in 0..Len(u) PROVE PartOf(SubSeq(u, 1, n), u) /\ PartOf(After(u, n), u)
  <2>1. /\ Len(SubSeq(u, 1, n)) = n /\ \A i \in 1..n : SubSeq(u, 1, n)[i] = u[i]
        /\ Len(After(u, n)) = Len(u) - n
        /\ \A i \in 1..Len(u) - n : After(u, n)[i] = u[i + n]
    BY Pieced
  <2>2. /\ Len(SubSeq(u, 1, n)) + 0 <= Len(u)
        /\ \A i \in 1..Len(SubSeq(u, 1, n)) : SubSeq(u, 1, n)[i] = u[i + 0]
    BY <1>1, <2>1
  <2>3. /\ n \in Nat /\ Len(After(u, n)) + n <= Len(u)
        /\ \A i \in 1..Len(After(u, n)) : After(u, n)[i] = u[i + n]
    BY <1>1, <2>1
  <2>4. PartOf(SubSeq(u, 1, n), u)
    BY <2>2 DEF PartOf
  <2>5. PartOf(After(u, n), u)
    BY <2>3 DEF PartOf
  <2> QED BY <2>4, <2>5
<1> QED BY <1>2, <1>3, <1>4

StreamsKept == \A c \in 1..Calls : Keeps(Streams, Streams', First(c))

LEMMA Shrinks ==
  ASSUME TypeOK, TypeOK', PartOf(buffer', buffer),
         \A s \in 1..Sessions : /\ PartOf(up'[s], up[s]) /\ PartOf(down'[s], down[s])
                                /\ PartOf(session'[s].got, session[s].got)
  PROVE  StreamsKept
<1>1. Filled /\ Filled'
  BY FilledBoth
<1>2. Streams \in [Places -> Seq(Cell)] /\ Streams' \in [Places -> Seq(Cell)]
  BY <1>1 DEF Filled
<1>3. ASSUME NEW k \in Places PROVE PartOf(Streams'[k], Streams[k])
  <2>1. CASE k = Buffer
    BY <1>1, <2>1 DEF Filled
  <2>2. ASSUME NEW s \in 1..Sessions, k \in {Up(s), Down(s), Got(s)} PROVE PartOf(Streams'[k], Streams[k])
    BY <1>1, <2>2 DEF Filled
  <2> QED BY <2>1, <2>2, PlacesFacts
<1> QED BY <1>2, <1>3, Dropped DEF StreamsKept

LEMMA Moves ==
  ASSUME TypeOK, TypeOK', NEW a \in Places, NEW b \in Places, a # b,
         NEW n \in 0..Len(Streams[a]), NEW m \in 0..n,
         Streams'[a] = After(Streams[a], n), Streams'[b] = Streams[b] \o SubSeq(Streams[a], 1, m),
         \A k \in Places \ {a, b} : Streams'[k] = Streams[k]
  PROVE  StreamsKept
<1>1. Streams \in [Places -> Seq(Cell)] /\ Streams' \in [Places -> Seq(Cell)]
  BY FilledBoth DEF Filled
<1> QED BY <1>1, Moved DEF StreamsKept

LEMMA KeptCopies ==
  ASSUME OneCopy, StreamsKept, executed' = executed, call' = call
  PROVE  OneCopy'
BY DEF OneCopy, StreamsKept, Keeps

LEMMA SameStreams ==
  ASSUME TypeOK, TypeOK', UNCHANGED <<buffer, up, down>>,
         \A s \in 1..Sessions : session'[s].got = session[s].got
  PROVE  Streams' = Streams
BY DEF Streams, Places

\* The first cell of a request is in no other place of its cells, and in no reply.
LEMMA FirstFacts ==
  /\ \A c \in 1..Calls : \A i \in 2..Size(Request(c)) : Cells(Request(c))[i] # First(c)
  /\ \A c, d \in 1..Calls : c # d => \A i \in 1..Size(Request(d)) : Cells(Request(d))[i] # First(c)
  /\ \A c \in 1..Calls : \A m \in Answers : \A i \in 1..Size(m) : Cells(m)[i] # First(c)
<1>1. ASSUME NEW c \in 1..Calls, NEW i \in 2..Size(Request(c)) PROVE Cells(Request(c))[i] # First(c)
  <2>1. Cells(Request(c))[i] = <<Request(c), i>> /\ i # 1
    BY MessageFacts, CellsFacts, SizeFacts
  <2> QED BY <2>1 DEF First
<1>2. ASSUME NEW c \in 1..Calls, NEW d \in 1..Calls, c # d, NEW i \in 1..Size(Request(d))
      PROVE  Cells(Request(d))[i] # First(c)
  <2>1. Cells(Request(d))[i] = <<Request(d), i>> /\ Request(c) # Request(d)
    BY <1>2, MessageFacts, CellsFacts, Distinct
  <2> QED BY <2>1 DEF First
<1>3. ASSUME NEW c \in 1..Calls, NEW m \in Answers, NEW i \in 1..Size(m) PROVE Cells(m)[i] # First(c)
  <2>1. Cells(m)[i] = <<m, i>> /\ m # Request(c)
    BY AnswerFacts, CellsFacts
  <2> QED BY <2>1 DEF First
<1> QED BY <1>1, <1>2, <1>3

LEMMA SamePlaces ==
  ASSUME Filled, Filled', NEW E,
         Buffer \in E \/ buffer' = buffer,
         \A s \in 1..Sessions : /\ Up(s) \in E \/ up'[s] = up[s]
                                /\ Down(s) \in E \/ down'[s] = down[s]
                                /\ Got(s) \in E \/ session'[s].got = session[s].got
  PROVE  \A k \in Places \ E : Streams'[k] = Streams[k]
<1> SUFFICES ASSUME NEW k \in Places \ E PROVE Streams'[k] = Streams[k]
  OBVIOUS
<1>1. CASE k = Buffer
  BY <1>1 DEF Filled
<1>2. ASSUME NEW s \in 1..Sessions, k \in {Up(s), Down(s), Got(s)} PROVE Streams'[k] = Streams[k]
  BY <1>2 DEF Filled
<1> QED BY <1>1, <1>2, PlacesFacts

\* A new session has no cells, as before.
LEMMA ConnectedGot ==
  ASSUME TypeOK, Unused, Connected \/ UNCHANGED session
  PROVE  \A s \in 1..Sessions : session'[s].got = session[s].got
<1>1. CASE Connected
  <2>1. /\ sessions' = sessions + 1 /\ sessions' \in 1..Sessions
        /\ session' = [session EXCEPT ![sessions'] = Reading]
    BY <1>1, ConnectedType
  <2>2. sessions \in Nat /\ session \in [1..Sessions -> SessionRecord]
    BY Consts DEF TypeOK, SessionRecord
  <2>3. session[sessions'].got = <<>>
    <3>1. sessions' > sessions
      BY <2>1, <2>2
    <3> QED BY <2>1, <3>1 DEF Unused
  <2> QED BY <2>1, <2>2, <2>3, FreshType
<1> QED BY <1>1

LEMMA BeginCopies ==
  ASSUME CopyInv, TypeOK', Begin
  PROVE  OneCopy'
<1>1. /\ call' = call + 1 /\ call' \in 1..Calls /\ call \in 0..Calls /\ call \in Nat
      /\ UNCHANGED <<up, down, executed>>
  BY Consts DEF Begin, CopyInv, TypeOK
<1>2. Filled /\ Filled' /\ TypeOK /\ Unused /\ OneCopy
  BY FilledBoth DEF CopyInv
<1>3. CASE buffer' = buffer \o Cells(Request(call')) /\ \A s \in 1..Sessions : session'[s].got = session[s].got
  <2> DEFINE cells == Cells(Request(call'))
  <2>1. cells \in Seq(Cell) /\ Len(cells) = Size(Request(call'))
    BY <1>1, MessageFacts, CellsFacts
  <2>2. Streams'[Buffer] = Streams[Buffer] \o cells
    BY <1>2, <1>3 DEF Filled
  <2>3. \A k \in Places \ {Buffer} : Streams'[k] = Streams[k]
    BY <1>1, <1>2, <1>3, SamePlaces
  <2>4. Streams \in [Places -> Seq(Cell)] /\ Streams' \in [Places -> Seq(Cell)] /\ Buffer \in Places
    BY <1>2, PlacesFacts DEF Filled
  <2>5. ASSUME NEW c \in 1..Calls, c # call' PROVE Keeps(Streams, Streams', First(c))
    <3>1. \A i \in 1..Len(cells) : cells[i] # First(c)
      BY <1>1, <2>1, <2>5, FirstFacts
    <3> HIDE DEF cells
    <3> QED BY <2>1, <2>2, <2>3, <2>4, <3>1, Added
  <2>6. Single(Streams', First(call'))
    <3>1. \A i \in 2..Len(cells) : cells[i] # First(call')
      BY <1>1, <2>1, FirstFacts
    <3>2. Absent(Streams, First(call'))
      BY <1>1, <1>2 DEF OneCopy
    <3> DEFINE x == First(call')
               f == Streams
               g == Streams'
    <3> HIDE DEF cells, x
    <3>3. /\ f \in [Places -> Seq(Cell)] /\ g \in [Places -> Seq(Cell)]
          /\ Buffer \in Places /\ cells \in Seq(Cell) /\ g[Buffer] = f[Buffer] \o cells
      BY <2>1, <2>2, <2>4
    <3>4. \A k \in Places \ {Buffer} : g[k] = f[k]
      BY <2>3
    <3>5. Absent(f, x)
      BY <3>2 DEF x
    <3>6. \A i \in 2..Len(cells) : cells[i] # x
      BY <3>1 DEF x
    <3> HIDE DEF f, g
    <3>7. Extended(f, g, Buffer, cells)
      BY <3>3, <3>4 DEF Extended
    <3>8. Single(g, x)
      BY <3>3, <3>5, <3>6, <3>7, AddedFirst
    <3> QED BY <3>8 DEF g, x
  <2> HIDE DEF cells
  <2>7. ASSUME NEW c \in 1..Calls
        PROVE  /\ Single(Streams', First(c)) /\ executed[c] \in {0, 1}
               /\ executed[c] = 1 \/ c > call' => Absent(Streams', First(c))
               /\ c > call' => executed[c] = 0
    <3>1. CASE c = call'
      <4>1. executed[c] = 0 /\ ~(c > call')
        BY <1>1, <1>2, <3>1 DEF OneCopy
      <4> QED BY <2>6, <3>1, <4>1
    <3>2. CASE c # call'
      <4>1. c > call' => c > call
        BY <1>1
      <4> QED BY <1>2, <2>5, <3>2, <4>1 DEF OneCopy, Keeps
    <3> QED BY <3>1, <3>2
  <2> QED BY <1>1, <2>7 DEF OneCopy
<1>4. CASE UNCHANGED <<buffer, session>>
  <2>1. Streams' = Streams
    BY <1>1, <1>2, <1>4, SameStreams
  <2>2. \A c \in 1..Calls : c > call' => c > call
    BY <1>1
  <2> QED BY <1>1, <1>2, <2>1, <2>2 DEF OneCopy
<1>5. CASE ~ valid /\ Connected /\ buffer' = Cells(Request(call'))
  <2>1. buffer' = buffer \o Cells(Request(call'))
    <3>1. buffer = <<>> /\ Cells(Request(call')) \in Seq(Cell)
      BY <1>1, <1>2, <1>5, MessageFacts, CellsFacts DEF TypeOK
    <3> QED BY <1>5, <3>1, ConcatEmptySeq
  <2>2. \A s \in 1..Sessions : session'[s].got = session[s].got
    BY <1>2, <1>5, ConnectedGot
  <2> QED BY <1>3, <2>1, <2>2
<1> QED BY <1>3, <1>4, <1>5 DEF Begin

LEMMA ReopenCopies ==
  ASSUME CopyInv, TypeOK', Reopen
  PROVE  OneCopy'
<1>1. TypeOK /\ Unused /\ OneCopy
  BY DEF CopyInv
<1>2. UNCHANGED <<call, buffer, up, down, executed>>
  BY DEF Reopen
<1>3. \A s \in 1..Sessions : session'[s].got = session[s].got
  BY <1>1, ConnectedGot DEF Reopen
<1>4. Streams' = Streams
  BY <1>1, <1>2, <1>3, SameStreams
<1> QED BY <1>1, <1>2, <1>4 DEF OneCopy

LEMMA SendCopies ==
  ASSUME CopyInv, TypeOK', Send
  PROVE  OneCopy'
<1>1. TypeOK /\ Unused /\ OneCopy /\ sock \in 1..Sessions
  BY SockType DEF CopyInv, Send
<1>2. UNCHANGED <<call, session, executed>>
  BY DEF Send, server
<1>3. CASE buffer' = <<>> /\ up' = [up EXCEPT ![sock] = up[sock] \o buffer] /\ UNCHANGED down
  <2>1. Filled /\ Filled'
    BY <1>1, FilledBoth
  <2>2. buffer \in Seq(Cell) /\ Len(buffer) \in Nat
    BY <1>1, LenProperties DEF TypeOK
  <2> DEFINE a == Buffer
             b == Up(sock)
             n == Len(buffer)
  <2>3. a \in Places /\ b \in Places /\ a # b /\ Streams[a] = buffer /\ Streams[b] = up[sock]
    BY <1>1, <2>1, PlacesFacts DEF Filled
  <2>4. n \in 0..Len(Streams[a]) /\ n \in 0..n
    BY <2>2, <2>3
  <2>5. Streams'[a] = After(Streams[a], n)
    <3>1. After(buffer, n) = <<>>
      BY <2>2 DEF After
    <3> QED BY <1>3, <2>1, <2>3, <3>1 DEF Filled
  <2>6. Streams'[b] = Streams[b] \o SubSeq(Streams[a], 1, n)
    <3>1. up'[sock] = up[sock] \o buffer
      BY <1>1, <1>3 DEF TypeOK
    <3>2. SubSeq(buffer, 1, n) = buffer
      BY <2>2, SubSeqFull
    <3> QED BY <1>1, <2>1, <2>3, <3>1, <3>2 DEF Filled
  <2>7. \A k \in Places \ {a, b} : Streams'[k] = Streams[k]
    <3>1. \A s \in 1..Sessions : s # sock => up'[s] = up[s]
      BY <1>1, <1>3 DEF TypeOK
    <3> QED BY <1>1, <1>2, <1>3, <2>1, <3>1, SamePlaces
  <2> HIDE DEF a, b, n
  <2>8. StreamsKept
    BY <1>1, <2>3, <2>4, <2>5, <2>6, <2>7, Moves
  <2> QED BY <1>1, <1>2, <2>8, KeptCopies
<1>4. CASE buffer' \in {<<>>, buffer} /\ up' = up /\ \A s \in 1..Sessions : down'[s] \in {<<>>, down[s]}
  <2>1. PartOf(buffer', buffer)
    BY <1>1, <1>4, PartFacts DEF TypeOK
  <2>2. \A s \in 1..Sessions : /\ PartOf(up'[s], up[s]) /\ PartOf(down'[s], down[s])
                               /\ PartOf(session'[s].got, session[s].got)
    BY <1>1, <1>2, <1>4, SessionType, PartFacts
  <2>3. StreamsKept
    BY <1>1, <2>1, <2>2, Shrinks
  <2> QED BY <1>1, <1>2, <2>3, KeptCopies
<1>5. ASSUME Closed PROVE \A s \in 1..Sessions : down'[s] \in {<<>>, down[s]}
  BY <1>1, <1>5, ClosedType DEF TypeOK
<1> QED BY <1>3, <1>4, <1>5 DEF Send

LEMMA ReceiveCopies ==
  ASSUME CopyInv, TypeOK', Receive
  PROVE  OneCopy'
<1>1. TypeOK /\ Unused /\ OneCopy /\ pc \in {"receive", "rest"}
  BY DEF CopyInv, Receive
<1>2. UNCHANGED <<call, session, executed, up>>
  BY DEF Receive, server
<1>3. PICK n \in Pieces(down[sock], ClientBuf) :
        /\ down' = [down EXCEPT ![sock] = After(down[sock], n)]
        /\ buffer' \in {<<>>, buffer \o SubSeq(down[sock], 1, n)}
  BY DEF Receive, Return, Emptied
<1>4. /\ sock \in 1..Sessions /\ n \in 0..Len(down[sock]) /\ Len(down[sock]) \in Nat
      /\ buffer \in Seq(Cell) /\ down[sock] \in Seq(Cell)
  BY <1>1, GotFacts
<1>5. /\ down'[sock] = After(down[sock], n)
      /\ \A s \in 1..Sessions : s # sock => down'[s] = down[s]
  BY <1>1, <1>3, <1>4 DEF TypeOK
<1>6. CASE buffer' = <<>>
  <2>1. PartOf(buffer', buffer)
    BY <1>4, <1>6, PartFacts
  <2>2. \A s \in 1..Sessions : PartOf(down'[s], down[s])
    BY <1>1, <1>4, <1>5, SessionType, PartFacts
  <2>3. \A s \in 1..Sessions : PartOf(up'[s], up[s]) /\ PartOf(session'[s].got, session[s].got)
    BY <1>1, <1>2, SessionType, PartFacts
  <2>4. StreamsKept
    BY <1>1, <2>1, <2>2, <2>3, Shrinks
  <2> QED BY <1>1, <1>2, <2>4, KeptCopies
<1>7. CASE buffer' = buffer \o SubSeq(down[sock], 1, n)
  <2>1. Filled /\ Filled'
    BY <1>1, FilledBoth
  <2> DEFINE a == Down(sock)
             b == Buffer
  <2>2. a \in Places /\ b \in Places /\ a # b /\ Streams[a] = down[sock] /\ Streams[b] = buffer
    BY <1>4, <2>1, PlacesFacts DEF Filled
  <2>3. n \in 0..Len(Streams[a]) /\ n \in 0..n
    BY <1>4, <2>2
  <2>4. Streams'[a] = After(Streams[a], n)
    BY <1>4, <1>5, <2>1, <2>2 DEF Filled
  <2>5. Streams'[b] = Streams[b] \o SubSeq(Streams[a], 1, n)
    BY <1>7, <2>1, <2>2 DEF Filled
  <2>6. \A k \in Places \ {a, b} : Streams'[k] = Streams[k]
    BY <1>2, <1>4, <1>5, <2>1, SamePlaces
  <2> HIDE DEF a, b
  <2>7. StreamsKept
    BY <1>1, <2>2, <2>3, <2>4, <2>5, <2>6, Moves
  <2> QED BY <1>1, <1>2, <2>7, KeptCopies
<1> QED BY <1>3, <1>6, <1>7

LEMMA ReceiveFailsCopies ==
  ASSUME CopyInv, TypeOK', ReceiveFails
  PROVE  OneCopy'
<1>1. TypeOK /\ Unused /\ OneCopy
  BY DEF CopyInv
<1>2. UNCHANGED <<call, session, executed, up>>
  BY DEF ReceiveFails, server
<1>3. buffer' \in {<<>>, buffer}
  BY DEF ReceiveFails, GivesUp
<1>4. \A s \in 1..Sessions : down'[s] \in {<<>>, down[s]}
  <2>1. CASE Closed
    BY <1>1, <2>1, ClosedType DEF TypeOK
  <2>2. CASE UNCHANGED down
    BY <2>2
  <2> QED BY <2>1, <2>2 DEF ReceiveFails, GivesUp
<1>5. PartOf(buffer', buffer)
  BY <1>1, <1>3, PartFacts DEF TypeOK
<1>6. \A s \in 1..Sessions : /\ PartOf(up'[s], up[s]) /\ PartOf(down'[s], down[s])
                             /\ PartOf(session'[s].got, session[s].got)
  BY <1>1, <1>2, <1>4, SessionType, PartFacts
<1>7. StreamsKept
  BY <1>1, <1>5, <1>6, Shrinks
<1> QED BY <1>1, <1>2, <1>7, KeptCopies

LEMMA ReadCopies ==
  ASSUME CopyInv, TypeOK', NEW s \in 1..Sessions, Read(s)
  PROVE  OneCopy'
<1>1. TypeOK /\ Unused /\ OneCopy /\ session[s].got = <<>>
  BY DEF CopyInv, Read, Unused
<1>2. UNCHANGED <<call, buffer, executed>>
  BY DEF Read, client
<1>3. PICK n \in Pieces(up[s], ServerBuf), size \in Nat : ReadEffect(s, n, size)
  <2>1. PICK n \in Pieces(up[s], ServerBuf) :
          \E size \in Announced(SubSeq(up[s], 1, n)) : ReadEffect(s, n, size)
    BY <1>1, ReadDoes
  <2> QED BY <2>1 DEF ReadEffect
<1>4. Filled /\ Filled'
  BY <1>1, FilledBoth
<1>5. /\ n \in 0..Len(up[s]) /\ Len(up[s]) \in Nat
      /\ SubSeq(up[s], 1, n) \in Seq(Cell) /\ Len(SubSeq(up[s], 1, n)) = n
      /\ up[s] \in Seq(Cell)
  BY <1>1, PieceFacts, SessionType
<1>6. up'[s] = After(up[s], n) /\ \A t \in 1..Sessions : t # s => up'[t] = up[t]
  BY <1>1, <1>3 DEF ReadEffect, TypeOK
<1> DEFINE a == Up(s)
<1>7. a \in Places /\ Streams[a] = up[s] /\ Streams'[a] = After(Streams[a], n) /\ n \in 0..Len(Streams[a])
  BY <1>4, <1>5, <1>6, PlacesFacts DEF Filled
\* An echo.
<1>8. CASE /\ size <= n /\ session' = session
           /\ down' = [down EXCEPT ![s] = down[s] \o SubSeq(SubSeq(up[s], 1, n), 1, size)]
  <2> DEFINE b == Down(s)
  <2>1. /\ down'[s] = down[s] \o SubSeq(SubSeq(up[s], 1, n), 1, size)
        /\ \A t \in 1..Sessions : t # s => down'[t] = down[t]
    BY <1>1, <1>8 DEF TypeOK
  <2>2. size \in 0..n
    BY <1>5, <1>8
  <2>3. SubSeq(SubSeq(up[s], 1, n), 1, size) = SubSeq(up[s], 1, size)
    BY <1>5, <2>2, PieceOfPiece
  <2>4. b \in Places /\ a # b /\ Streams[b] = down[s] /\ Streams'[b] = Streams[b] \o SubSeq(Streams[a], 1, size)
    BY <1>4, <1>7, <2>1, <2>3, PlacesFacts DEF Filled
  <2>5. \A k \in Places \ {a, b} : Streams'[k] = Streams[k]
    BY <1>2, <1>4, <1>6, <1>8, <2>1, SamePlaces
  <2> HIDE DEF a, b
  <2>6. StreamsKept
    BY <1>1, <1>7, <2>2, <2>4, <2>5, Moves
  <2> QED BY <1>1, <1>2, <2>6, KeptCopies
\* Nobody is there to read it.
<1>9. CASE session' = session /\ down' = down
  <2>1. \A t \in 1..Sessions : PartOf(up'[t], up[t])
    BY <1>1, <1>5, <1>6, SessionType, PartFacts
  <2>2. \A t \in 1..Sessions : PartOf(down'[t], down[t]) /\ PartOf(session'[t].got, session[t].got)
    BY <1>1, <1>9, SessionType, PartFacts
  <2>3. PartOf(buffer', buffer)
    BY <1>1, <1>2, PartFacts DEF TypeOK
  <2>4. StreamsKept
    BY <1>1, <2>1, <2>2, <2>3, Shrinks
  <2> QED BY <1>1, <1>2, <2>4, KeptCopies
\* A request, or the beginning of one.
<1>10. CASE /\ UNCHANGED down
            /\ \E r \in SessionRecord : session' = [session EXCEPT ![s] = r] /\ r.got = SubSeq(up[s], 1, n)
  <2> DEFINE b == Got(s)
  <2>1. PICK r \in SessionRecord : session' = [session EXCEPT ![s] = r] /\ r.got = SubSeq(up[s], 1, n)
    BY <1>10
  <2>2. session'[s].got = SubSeq(up[s], 1, n) /\ \A t \in 1..Sessions : t # s => session'[t] = session[t]
    BY <1>1, <2>1, SessionType
  <2>3. <<>> \o SubSeq(up[s], 1, n) = SubSeq(up[s], 1, n)
    BY <1>5, ConcatEmptySeq
  <2>4. b \in Places /\ a # b /\ Streams[b] = <<>> /\ Streams'[b] = SubSeq(Streams[a], 1, n)
    BY <1>1, <1>4, <1>7, <2>2, PlacesFacts DEF Filled
  <2>5. Streams'[b] = Streams[b] \o SubSeq(Streams[a], 1, n) /\ n \in 0..n
    BY <1>5, <1>7, <2>3, <2>4
  <2>6. \A k \in Places \ {a, b} : Streams'[k] = Streams[k]
    BY <1>2, <1>4, <1>6, <1>10, <2>2, SamePlaces
  <2> HIDE DEF a, b
  <2>7. StreamsKept
    BY <1>1, <1>7, <2>4, <2>5, <2>6, Moves
  <2> QED BY <1>1, <1>2, <2>7, KeptCopies
<1> HIDE DEF a
<1>11. \/ /\ size <= n /\ session' = session
          /\ \/ down' = down
             \/ down' = [down EXCEPT ![s] = down[s] \o SubSeq(SubSeq(up[s], 1, n), 1, size)]
       \/ /\ UNCHANGED down
          /\ \E r \in SessionRecord : session' = [session EXCEPT ![s] = r] /\ r.got = SubSeq(up[s], 1, n)
  BY <1>3 DEF ReadEffect
<1> QED BY <1>8, <1>9, <1>10, <1>11

LEMMA MoreCopies ==
  ASSUME CopyInv, TypeOK', NEW s \in 1..Sessions, More(s)
  PROVE  OneCopy'
<1>1. TypeOK /\ Unused /\ OneCopy
  BY DEF CopyInv
<1>2. UNCHANGED <<call, buffer, down, executed>>
  BY DEF More, client
<1>3. PICK n \in Pieces(up[s], ServerBuf), r \in SessionRecord :
        /\ up' = [up EXCEPT ![s] = After(up[s], n)] /\ session' = [session EXCEPT ![s] = r]
        /\ r.got = session[s].got \o SubSeq(up[s], 1, n)
  BY <1>1, MoreDoes
<1>4. Filled /\ Filled'
  BY <1>1, FilledBoth
<1>5. n \in 0..Len(up[s]) /\ Len(up[s]) \in Nat
  BY <1>1, PieceFacts
<1>6. up'[s] = After(up[s], n) /\ \A t \in 1..Sessions : t # s => up'[t] = up[t]
  BY <1>1, <1>3 DEF TypeOK
<1>7. /\ session'[s].got = session[s].got \o SubSeq(up[s], 1, n)
      /\ \A t \in 1..Sessions : t # s => session'[t] = session[t]
  BY <1>1, <1>3, SessionType
<1> DEFINE a == Up(s)
           b == Got(s)
<1>8. a \in Places /\ Streams[a] = up[s] /\ Streams'[a] = After(Streams[a], n)
      /\ n \in 0..Len(Streams[a]) /\ n \in 0..n
  BY <1>4, <1>5, <1>6, PlacesFacts DEF Filled
<1>9. b \in Places /\ a # b /\ Streams'[b] = Streams[b] \o SubSeq(Streams[a], 1, n)
  BY <1>4, <1>7, <1>8, PlacesFacts DEF Filled
<1>10. \A k \in Places \ {a, b} : Streams'[k] = Streams[k]
  BY <1>2, <1>4, <1>6, <1>7, SamePlaces
<1> HIDE DEF a, b
<1>11. StreamsKept
  BY <1>1, <1>8, <1>9, <1>10, Moves
<1> QED BY <1>1, <1>2, <1>11, KeptCopies

LEMMA ProcessCopies ==
  ASSUME CopyInv, TypeOK', NEW s \in 1..Sessions, Process(s)
  PROVE  OneCopy'
<1>1. TypeOK /\ Unused /\ OneCopy
  BY DEF CopyInv
<1>2. UNCHANGED <<call, buffer, up, down>>
  BY DEF Process, client
<1>3. PICK m \in Document(session[s].got, session[s].need) : \E answer \in Answers :
        /\ m[1] = "request" => /\ m[2] \in 1..Calls
                               /\ executed' = [executed EXCEPT ![m[2]] = executed[m[2]] + 1]
                               /\ Len(session[s].got) >= 1 /\ session[s].got[1] = First(m[2])
        /\ m[1] # "request" => executed' = executed
        /\ \E r \in SessionRecord : session' = [session EXCEPT ![s] = r] /\ r.got = <<>>
  BY <1>1, ProcessDoes
<1>4. session'[s].got = <<>> /\ \A t \in 1..Sessions : t # s => session'[t] = session[t]
  BY <1>1, <1>3, SessionType
<1>5. StreamsKept
  <2>1. PartOf(buffer', buffer)
    BY <1>1, <1>2, PartFacts DEF TypeOK
  <2>2. \A t \in 1..Sessions : PartOf(up'[t], up[t]) /\ PartOf(down'[t], down[t])
    BY <1>1, <1>2, SessionType, PartFacts
  <2>3. \A t \in 1..Sessions : PartOf(session'[t].got, session[t].got)
    BY <1>1, <1>4, SessionType, PartFacts
  <2> QED BY <1>1, <2>1, <2>2, <2>3, Shrinks
<1>6. CASE m[1] # "request"
  BY <1>1, <1>2, <1>3, <1>5, <1>6, KeptCopies
<1>7. CASE m[1] = "request"
  <2> DEFINE d == m[2]
             got == session[s].got
  <2>1. /\ d \in 1..Calls /\ executed' = [executed EXCEPT ![d] = executed[d] + 1]
        /\ Len(got) >= 1 /\ got[1] = First(d)
    BY <1>3, <1>7
  <2> HIDE DEF d
  <2>2. Filled /\ Filled' /\ got \in Seq(Cell) /\ Len(got) \in Nat /\ 1 \in 1..Len(got)
    BY <1>1, <2>1, FilledBoth, SessionType, LenProperties
  <2>3. Got(s) \in DOMAIN Streams /\ Streams[Got(s)] = got
    BY <2>2, PlacesFacts DEF Filled
  <2>4. ~ Absent(Streams, First(d))
    BY <2>1, <2>2, <2>3 DEF Absent
  <2>5. executed[d] = 0 /\ ~(d > call)
    BY <1>1, <2>1, <2>4 DEF OneCopy
  \* The only copy was in what the session has read.
  <2>6. Absent(Streams', First(d))
    <3>1. \A k \in DOMAIN Streams : \A i \in 1..Len(Streams[k]) : Streams[k][i] = First(d) => k = Got(s)
      BY <1>1, <2>1, <2>2, <2>3 DEF OneCopy, Single
    <3>2. \A k \in Places \ {Got(s)} : Streams'[k] = Streams[k]
      BY <1>2, <1>4, <2>2, SamePlaces
    <3>3. Streams'[Got(s)] = <<>> /\ Len(<<>>) = 0
      BY <1>4, <2>2 DEF Filled
    <3>4. DOMAIN Streams = Places /\ DOMAIN Streams' = Places
      BY <2>2 DEF Filled
    <3>5. SUFFICES ASSUME NEW k \in Places, NEW i \in 1..Len(Streams'[k]) PROVE Streams'[k][i] # First(d)
      BY <3>4 DEF Absent
    <3>6. CASE k = Got(s)
      BY <3>3, <3>6
    <3>7. CASE k # Got(s)
      BY <3>1, <3>2, <3>4, <3>7
    <3> QED BY <3>6, <3>7
  <2>7. ASSUME NEW c \in 1..Calls
        PROVE  /\ Single(Streams', First(c)) /\ executed'[c] \in {0, 1}
               /\ executed'[c] = 1 \/ c > call => Absent(Streams', First(c))
               /\ c > call => executed'[c] = 0
    <3>1. Single(Streams', First(c))
      BY <1>1, <1>5 DEF OneCopy, StreamsKept, Keeps
    <3>2. CASE c = d
      <4>1. executed'[d] = 1
        BY <1>1, <2>1, <2>5 DEF TypeOK
      <4> QED BY <2>5, <2>6, <3>1, <3>2, <4>1
    <3>3. CASE c # d
      <4>1. executed'[c] = executed[c]
        BY <1>1, <2>1, <3>3 DEF TypeOK
      <4> QED BY <1>1, <1>5, <3>1, <4>1 DEF OneCopy, StreamsKept, Keeps
    <3> QED BY <3>2, <3>3
  <2> QED BY <1>2, <2>7 DEF OneCopy
<1> QED BY <1>6, <1>7

LEMMA WriteCopies ==
  ASSUME CopyInv, TypeOK', NEW s \in 1..Sessions, Write(s)
  PROVE  OneCopy'
<1>1. TypeOK /\ Unused /\ OneCopy /\ session[s].got = <<>>
  BY DEF CopyInv, Write, Unused
<1>2. UNCHANGED <<call, buffer, up, executed>>
  BY DEF Write, client
<1>3. \A t \in 1..Sessions : session'[t].got = session[t].got
  <2>1. session' = [session EXCEPT ![s] = Fresh] \/ session' = [session EXCEPT ![s] = Reading]
    BY DEF Write
  <2> QED BY <1>1, <2>1, SessionType, FreshType
<1>4. CASE down' = [down EXCEPT ![s] = down[s] \o Cells(session[s].answer)]
  <2> DEFINE cells == Cells(session[s].answer)
             b == Down(s)
  <2>1. session[s].answer \in Answers /\ cells \in Seq(Cell) /\ Len(cells) = Size(session[s].answer)
    BY <1>1, SessionType, AnswerFacts, CellsFacts
  <2>2. down'[s] = down[s] \o cells /\ \A t \in 1..Sessions : t # s => down'[t] = down[t]
    BY <1>1, <1>4 DEF TypeOK
  <2>3. Filled /\ Filled'
    BY <1>1, FilledBoth
  <2>4. /\ Streams \in [Places -> Seq(Cell)] /\ Streams' \in [Places -> Seq(Cell)] /\ b \in Places
        /\ Streams'[b] = Streams[b] \o cells
    BY <2>2, <2>3, PlacesFacts DEF Filled
  <2>5. \A k \in Places \ {b} : Streams'[k] = Streams[k]
    BY <1>2, <1>3, <2>2, <2>3, SamePlaces
  <2>6. \A c \in 1..Calls : \A i \in 1..Len(cells) : cells[i] # First(c)
    BY <2>1, FirstFacts
  <2> HIDE DEF cells, b
  <2>7. StreamsKept
    BY <2>1, <2>4, <2>5, <2>6, Added DEF StreamsKept
  <2> QED BY <1>1, <1>2, <2>7, KeptCopies
<1>5. CASE UNCHANGED down
  <2>1. Streams' = Streams
    BY <1>1, <1>2, <1>3, <1>5, SameStreams
  <2> QED BY <1>1, <1>2, <2>1 DEF OneCopy
<1> QED BY <1>4, <1>5 DEF Write

LEMMA EndBreakCopies ==
  ASSUME CopyInv, TypeOK', NEW s \in 1..Sessions, End(s) \/ Break(s)
  PROVE  OneCopy'
<1>1. TypeOK /\ Unused /\ OneCopy
  BY DEF CopyInv
<1>2. UNCHANGED <<call, buffer, executed>>
  BY DEF End, Break, client, server
<1>3. \A t \in 1..Sessions : PartOf(session'[t].got, session[t].got)
  <2>1. CASE End(s)
    <3>1. session' = [session EXCEPT ![s] = Fresh]
      BY <2>1 DEF End
    <3>2. \A t \in 1..Sessions : session'[t].got \in {<<>>, session[t].got}
      BY <1>1, <3>1, SessionType, FreshType
    <3> QED BY <1>1, <3>2, SessionType, PartFacts
  <2>2. CASE Break(s)
    BY <1>1, <2>2, SessionType, PartFacts DEF Break, server
  <2> QED BY <2>1, <2>2
<1>4. \A t \in 1..Sessions : PartOf(up'[t], up[t]) /\ PartOf(down'[t], down[t])
  <2>1. CASE End(s)
    BY <1>1, <2>1, SessionType, PartFacts DEF End
  <2>2. CASE Break(s)
    <3>1. PICK n \in 0..Len(up[s]), k \in 0..Len(down[s]) :
            up' = [up EXCEPT ![s] = SubSeq(up[s], 1, n)] /\ down' = [down EXCEPT ![s] = SubSeq(down[s], 1, k)]
      BY <2>2 DEF Break
    <3>2. /\ up'[s] = SubSeq(up[s], 1, n) /\ down'[s] = SubSeq(down[s], 1, k)
          /\ \A t \in 1..Sessions : t # s => up'[t] = up[t] /\ down'[t] = down[t]
      BY <1>1, <3>1 DEF TypeOK
    <3> QED BY <1>1, <3>2, SessionType, PartFacts
  <2> QED BY <2>1, <2>2
<1>5. PartOf(buffer', buffer)
  BY <1>1, <1>2, PartFacts DEF TypeOK
<1>6. StreamsKept
  BY <1>1, <1>3, <1>4, <1>5, Shrinks
<1> QED BY <1>1, <1>2, <1>6, KeptCopies

LEMMA CopyInit == Init => CopyInv
<1> SUFFICES ASSUME Init PROVE CopyInv
  OBVIOUS
<1>1. TypeOK /\ Unused /\ InCall /\ Filled
  BY TypeInit, UnusedInit, StreamsFacts DEF Init, InCall
<1>2. \A k \in DOMAIN Streams : Streams[k] = <<>>
  <2>1. buffer = <<>> /\ \A s \in 1..Sessions : up[s] = <<>> /\ down[s] = <<>> /\ session[s].got = <<>>
    BY FreshType DEF Init
  <2>2. DOMAIN Streams = Places
    BY <1>1 DEF Filled
  <2>3. SUFFICES ASSUME NEW k \in Places PROVE Streams[k] = <<>>
    BY <2>2
  <2>4. CASE k = Buffer
    BY <1>1, <2>1, <2>4 DEF Filled
  <2>5. ASSUME NEW s \in 1..Sessions, k \in {Up(s), Down(s), Got(s)} PROVE Streams[k] = <<>>
    BY <1>1, <2>1, <2>5 DEF Filled
  <2> QED BY <2>4, <2>5, PlacesFacts
<1>3. \A k \in DOMAIN Streams : \A i \in 1..Len(Streams[k]) : FALSE
  BY <1>2
<1>4. \A c \in 1..Calls : executed[c] = 0
  BY DEF Init
<1>5. OneCopy
  BY <1>3, <1>4 DEF OneCopy, Single, Absent
<1> QED BY <1>1, <1>5 DEF CopyInv

LEMMA CopyStep == CopyInv /\ [Next]_vars => CopyInv'
<1> SUFFICES ASSUME CopyInv, [Next]_vars PROVE CopyInv'
  OBVIOUS
<1>1. TypeOK' /\ InCall' /\ Unused'
  BY TypeStep, UnusedStep DEF CopyInv
<1>2. CASE Client
  BY <1>1, <1>2, BeginCopies, ReopenCopies, SendCopies, ReceiveCopies, ReceiveFailsCopies DEF Client, CopyInv
<1>3. ASSUME NEW s \in 1..Sessions, Serve(s) \/ Break(s) PROVE CopyInv'
  BY <1>1, <1>3, ReadCopies, MoreCopies, ProcessCopies, WriteCopies, EndBreakCopies DEF Serve, CopyInv
<1>4. CASE UNCHANGED vars
  <2>1. OneCopy'
    <3>1. /\ UNCHANGED <<buffer, up, down, session, executed, call>>
      BY <1>4 DEF vars, client, server
    <3>2. Streams' = Streams
      BY <1>1, <3>1, SameStreams DEF CopyInv
    <3> QED BY <3>1, <3>2 DEF CopyInv, OneCopy
  <2> QED BY <1>1, <2>1 DEF CopyInv
<1> QED BY <1>2, <1>3, <1>4 DEF Next, Done

\* No request is executed twice, for any number of calls, sizes, sessions and breaks,
\* though a send that failed is repeated and a session echoes cells to the client,
\* which may send them again: there is one copy of the first cell of a request at most,
\* and execution takes it away (src/src/api/impl/connection.cpp:49-57).
THEOREM RequestsExecutedOnce == Spec => []ExecutedOnce
<1>1. CopyInv => ExecutedOnce
  BY DEF CopyInv, OneCopy, ExecutedOnce
<1> QED BY <1>1, CopyInit, CopyStep, PTL DEF Spec
-----------------------------------------------------------------------------
(***************************************************************************)
(* Replies                                                                 *)
(***************************************************************************)
\* What begins a message announces its size, when it holds the header.
LEMMA BeginsFacts ==
  ASSUME NEW m \in Messages, NEW t \in Seq(Cell), Begins(t, Cells(m))
  PROVE  /\ Len(t) \in Nat /\ Len(t) <= Size(m)
         /\ Len(t) < Header => Announced(t) = {Len(t)}
         /\ Len(t) >= Header => Announced(t) = {Size(m)} /\ Aligned(t)
         /\ Len(t) > 0 => t[1] = <<m, 1>>
<1>1. Len(t) \in Nat /\ Size(m) \in Nat /\ Len(t) <= Size(m) /\ Header \in Nat /\ Header > 0
  BY LenProperties, SizeFacts, CellsFacts DEF Begins
<1>2. \A i \in 1..Len(t) : t[i] = <<m, i>>
  BY <1>1, CellsFacts DEF Begins
<1>3. Len(t) < Header => Announced(t) = {Len(t)}
  BY DEF Announced
<1>4. Len(t) > 0 => t[1] = <<m, 1>>
  BY <1>1, <1>2
<1>5. ASSUME Len(t) >= Header PROVE Announced(t) = {Size(m)} /\ Aligned(t)
  <2>1. t[1][1] = m
    BY <1>1, <1>4, <1>5
  <2>2. Aligned(t)
    BY <1>1, <1>2, <1>5, <2>1 DEF Aligned
  <2>3. ~(Len(t) < Header)
    BY <1>1, <1>5
  <2> QED BY <2>1, <2>2, <2>3 DEF Announced
<1> QED BY <1>1, <1>3, <1>4, <1>5

\* All of a message is read as the message.
LEMMA WholeMessage ==
  ASSUME NEW m \in Messages, NEW t \in Seq(Cell), Begins(t, Cells(m)), Len(t) >= Size(m)
  PROVE  t = Cells(m) /\ Document(t, Size(m)) = {m} /\ Len(t) = Size(m)
<1>1. Len(t) = Size(m) /\ Len(t) \in Nat /\ Size(m) \in Nat /\ Size(m) > 0
  BY BeginsFacts, SizeFacts
<1>2. Cells(m) \in Seq(Cell) /\ Len(Cells(m)) = Size(m)
  BY CellsFacts
<1>3. t = Cells(m)
  BY <1>1, <1>2, SeqEqual DEF Begins
<1>4. t[1][1] = m
  BY <1>1, BeginsFacts
<1>5. SubSeq(t, 1, Size(m)) = Cells(t[1][1])
  BY <1>1, <1>3, <1>4, SubSeqFull
<1>6. Size(m) <= Len(t)
  BY <1>1
<1> QED BY <1>1, <1>3, <1>4, <1>5, <1>6 DEF Document

\* Less than the header of a message is no document.
LEMMA NoHeader ==
  ASSUME NEW m \in Messages, NEW t \in Seq(Cell), Begins(t, Cells(m)), Len(t) < Header
  PROVE  Document(t, Len(t)) = {Invalid}
<1>1. Len(t) \in Nat /\ Size(m) \in Nat /\ Size(m) >= Header /\ Header \in Nat
  BY BeginsFacts, SizeFacts
<1>2. ~(Len(t) > Len(t))
  BY <1>1
<1>3. ASSUME Len(t) > 0, SubSeq(t, 1, Len(t)) = Cells(t[1][1]) PROVE FALSE
  <2>1. t[1][1] = m
    BY <1>3, BeginsFacts
  <2>2. t = Cells(m)
    BY <1>3, <2>1, SubSeqFull
  <2>3. Len(t) = Size(m)
    BY <2>2, CellsFacts
  <2> QED BY <1>1, <2>3
<1> QED BY <1>2, <1>3 DEF Document

LEMMA CellsBegin ==
  ASSUME NEW m \in Messages
  PROVE  Begins(Cells(m), Cells(m))
<1>1. Len(Cells(m)) \in Nat
  BY CellsFacts, SizeFacts
<1> QED BY <1>1 DEF Begins

LEMMA PrefixBegins ==
  ASSUME NEW s \in Seq(Cell), NEW t \in Seq(Cell), NEW all, Begins(s \o t, all), Len(all) \in Nat
  PROVE  Begins(s, all)
<1>1. /\ Len(s \o t) = Len(s) + Len(t) /\ Len(s) \in Nat /\ Len(t) \in Nat
      /\ \A i \in 1..Len(s) : (s \o t)[i] = s[i]
  BY Joined, LenProperties
<1> QED BY <1>1 DEF Begins

LEMMA Associates ==
  ASSUME NEW s \in Seq(Cell), NEW t \in Seq(Cell), NEW u \in Seq(Cell)
  PROVE  (s \o t) \o u = s \o (t \o u)
BY ConcatAssociative

LEMMA PieceBegins ==
  ASSUME NEW s \in Seq(Cell), NEW t \in Seq(Cell), NEW n \in 0..Len(t), NEW m \in Messages,
         Begins(s \o t, Cells(m))
  PROVE  /\ Begins(s \o SubSeq(t, 1, n), Cells(m))
         /\ (s \o SubSeq(t, 1, n)) \o After(t, n) = s \o t
<1>1. /\ SubSeq(t, 1, n) \in Seq(Cell) /\ After(t, n) \in Seq(Cell)
      /\ SubSeq(t, 1, n) \o After(t, n) = t
  BY Pieced
<1>2. (s \o SubSeq(t, 1, n)) \o After(t, n) = s \o t
  <2> DEFINE u == SubSeq(t, 1, n)
             v == After(t, n)
  <2> HIDE DEF u, v
  <2>1. u \in Seq(Cell) /\ v \in Seq(Cell) /\ u \o v = t
    BY <1>1 DEF u, v
  <2>2. (s \o u) \o v = s \o (u \o v)
    BY <2>1, Associates
  <2> QED BY <2>1, <2>2 DEF u, v
<1>3. s \o SubSeq(t, 1, n) \in Seq(Cell) /\ Len(Cells(m)) \in Nat
  BY <1>1, Joined, CellsFacts, SizeFacts
<1>4. Begins((s \o SubSeq(t, 1, n)) \o After(t, n), Cells(m))
  BY <1>2
<1>5. Begins(s \o SubSeq(t, 1, n), Cells(m))
  BY <1>1, <1>3, <1>4, PrefixBegins
<1> QED BY <1>2, <1>5

\* The session that the socket is connected to does not change.
Untouched ==
  sock # 0 => /\ up'[sock] = up[sock] /\ down'[sock] = down[sock]
              /\ session'[sock] = session[sock] /\ alive'[sock] = alive[sock]

\* What was executed was executed once, and stays so.
LEMMA ExecutedStays ==
  ASSUME CopyInv, CopyInv', [Next]_vars
  PROVE  \A c \in 1..Calls : executed[c] = 1 => executed'[c] = 1
<1>1. executed' = executed \/ \E d \in 1..Calls : executed' = [executed EXCEPT ![d] = executed[d] + 1]
  <2>1. CASE Client
    BY <2>1 DEF Client, Begin, Reopen, Send, Receive, ReceiveFails, server
  <2>2. ASSUME NEW s \in 1..Sessions, Process(s)
        PROVE  executed' = executed \/ \E d \in 1..Calls : executed' = [executed EXCEPT ![d] = executed[d] + 1]
    BY <2>2, ProcessDoes DEF CopyInv
  <2>3. ASSUME NEW s \in 1..Sessions, Read(s) \/ More(s) \/ Write(s) \/ End(s) \/ Break(s)
        PROVE  executed' = executed
    BY <2>3 DEF Read, More, Write, End, Break, server
  <2>4. CASE UNCHANGED vars
    BY <2>4 DEF vars, server
  <2> QED BY <2>1, <2>2, <2>3, <2>4 DEF Next, Serve, Done
<1>2. executed \in [1..Calls -> Nat] /\ \A c \in 1..Calls : executed'[c] \in {0, 1}
  BY DEF CopyInv, TypeOK, OneCopy
<1>3. CASE executed' = executed
  BY <1>3
<1>4. ASSUME NEW d \in 1..Calls, executed' = [executed EXCEPT ![d] = executed[d] + 1],
             NEW c \in 1..Calls, executed[c] = 1
      PROVE  executed'[c] = 1
  <2>1. CASE c = d
    <3>1. executed'[c] = 2
      BY <1>2, <1>4, <2>1
    <3> QED BY <1>2, <3>1
  <2>2. CASE c # d
    BY <1>2, <1>4, <2>2
  <2> QED BY <2>1, <2>2
<1> QED BY <1>1, <1>3, <1>4

\* The client and its session do not move.
LEMMA FrameCourse ==
  ASSUME Inv, CopyInv', [Next]_vars, UNCHANGED <<pc, call, valid, sock, buffer>>,
         dirty => dirty', Untouched
  PROVE  InStep'
<1> SUFFICES ASSUME valid, ~ dirty PROVE Course'
  BY DEF InStep
<1>1. Course /\ TypeOK /\ InCall
  BY DEF Inv, InStep, CopyInv
<1>2. ASSUME sock # 0, AtRest(sock) PROVE AtRest(sock)'
  BY <1>2 DEF AtRest, Untouched
<1>3. CASE pc \in {"idle", "send", "resend"}
  BY <1>1, <1>2, <1>3 DEF Course
<1>4. CASE pc \in {"receive", "rest"}
  <2>1. sock # 0 /\ call \in 1..Calls
    BY <1>1, <1>4 DEF TypeOK, InCall
  <2>2. executed[call] = 1 => executed'[call] = 1
    BY <2>1, ExecutedStays DEF Inv
  <2>3. Waiting(sock, call) => Waiting(sock, call)'
    BY <2>1, <2>2 DEF Waiting, Carried, Untouched
  <2>4. Answered(sock, call) => Answered(sock, call)'
    BY <2>1, <2>2 DEF Answered, Untouched
  <2> QED BY <1>1, <1>4, <2>3, <2>4 DEF Course
<1> QED BY <1>1, <1>3, <1>4 DEF TypeOK

\* No call returns.
LEMMA FrameReplies ==
  ASSUME Inv, CopyInv', [Next]_vars, UNCHANGED <<outcome, tainted>>
  PROVE  RepliesMatch'
<1>1. \A c \in 1..Calls : executed[c] = 1 => executed'[c] = 1
  BY ExecutedStays DEF Inv
<1> QED BY <1>1 DEF Inv, RepliesMatch

\* A call returns.
LEMMA EndReplies ==
  ASSUME Inv, CopyInv', [Next]_vars, NEW r, NEW c \in 1..Calls,
         outcome' = [outcome EXCEPT ![c] = r], tainted \subseteq tainted',
         \/ r \in NoDocument
         \/ c \in tainted'
         \/ r = Reply(c) /\ executed'[c] = 1
  PROVE  RepliesMatch'
<1>1. \A d \in 1..Calls : executed[d] = 1 => executed'[d] = 1
  BY ExecutedStays DEF Inv
<1>2. outcome \in [1..Calls -> Messages \union NoDocument]
  BY DEF Inv, CopyInv, TypeOK
<1>3. SUFFICES ASSUME NEW d \in 1..Calls, d \notin tainted', outcome'[d] \notin NoDocument
               PROVE  outcome'[d] = Reply(d) /\ executed'[d] = 1
  BY DEF RepliesMatch
<1>4. CASE d = c
  BY <1>2, <1>3, <1>4
<1>5. CASE d # c
  BY <1>1, <1>2, <1>3, <1>5 DEF Inv, RepliesMatch
<1> QED BY <1>4, <1>5

LEMMA NewSession ==
  ASSUME CopyInv, Connected, UNCHANGED <<up, down>>
  PROVE  sock' # 0 /\ AtRest(sock)'
<1>1. /\ sessions' = sessions + 1 /\ sessions' \in 1..Sessions /\ sock' = sessions'
      /\ session' = [session EXCEPT ![sessions'] = Reading]
  BY ConnectedType DEF CopyInv
<1>2. sessions \in Nat /\ session \in [1..Sessions -> SessionRecord]
  BY Consts DEF CopyInv, TypeOK, SessionRecord
<1>3. up[sessions'] = <<>> /\ down[sessions'] = <<>>
  <2>1. sessions' > sessions
    BY <1>1, <1>2
  <2> QED BY <1>1, <2>1 DEF CopyInv, Unused
<1>4. session'[sessions'].at = "read"
  BY <1>1, <1>2, FreshType
<1> QED BY <1>1, <1>3, <1>4 DEF AtRest

LEMMA BeginInv == Inv /\ CopyInv' /\ Begin => Inv'
<1> SUFFICES ASSUME Inv, CopyInv', Begin PROVE Inv'
  OBVIOUS
<1>1. /\ pc = "idle" /\ call' = call + 1 /\ call' \in 1..Calls
      /\ UNCHANGED <<up, down, executed>> /\ CopyInv /\ InStep /\ TypeOK /\ [Next]_vars
  <2>1. CopyInv /\ InStep /\ TypeOK /\ [Next]_vars
    BY DEF Inv, CopyInv, Next, Client
  <2>2. pc = "idle" /\ call' = call + 1 /\ call < Calls /\ UNCHANGED <<up, down, executed>>
    BY DEF Begin
  <2>3. call' \in 1..Calls
    BY <2>1, <2>2, Consts DEF TypeOK
  <2> QED BY <2>1, <2>2, <2>3
<1>2. Cells(Request(call')) \in Seq(Cell)
  BY <1>1, MessageFacts, CellsFacts
<1>3. CASE /\ valid /\ pc' = "send" /\ buffer' = buffer \o Cells(Request(call'))
           /\ UNCHANGED <<valid, sock, outcome, alive, session, sessions, dirty, tainted>>
  <2>1. ASSUME ~ dirty PROVE Course'
    <3>1. sock # 0 /\ buffer = <<>> /\ AtRest(sock)
      BY <1>1, <1>3, <2>1 DEF InStep, Course
    <3>2. buffer' = Cells(Request(call'))
      BY <1>2, <1>3, <3>1, ConcatEmptySeq
    <3>3. AtRest(sock)'
      BY <1>1, <1>3, <3>1 DEF AtRest
    <3> QED BY <1>3, <3>2, <3>3 DEF Course
  <2>2. RepliesMatch'
    BY <1>1, <1>3, FrameReplies
  <2> QED BY <1>3, <2>1, <2>2 DEF Inv, InStep
<1>4. CASE /\ ~ valid /\ pc' = "send" /\ valid' = TRUE /\ Connected /\ dirty' = FALSE
           /\ buffer' = Cells(Request(call')) /\ UNCHANGED <<outcome, tainted>>
  <2>1. sock' # 0 /\ AtRest(sock)'
    BY <1>1, <1>4, NewSession
  <2>2. Course'
    BY <1>4, <2>1 DEF Course
  <2>3. RepliesMatch'
    BY <1>1, <1>4, FrameReplies
  <2> QED BY <2>2, <2>3 DEF Inv, InStep
<1>5. CASE /\ ~ valid /\ outcome' = [outcome EXCEPT ![call'] = Thrown]
           /\ UNCHANGED <<pc, valid, sock, buffer, alive, session, sessions, dirty, tainted>>
  <2>1. InStep'
    BY <1>5 DEF InStep
  <2>2. Thrown \in NoDocument
    BY DEF NoDocument
  <2>3. RepliesMatch'
    <3> DEFINE c == call'
    <3>1. c \in 1..Calls /\ outcome' = [outcome EXCEPT ![c] = Thrown] /\ tainted \subseteq tainted'
      BY <1>1, <1>5
    <3> HIDE DEF c
    <3> QED BY <1>1, <2>2, <3>1, EndReplies
  <2> QED BY <2>1, <2>3 DEF Inv
<1> QED BY <1>3, <1>4, <1>5 DEF Begin

LEMMA ReopenInv == Inv /\ CopyInv' /\ Reopen => Inv'
<1> SUFFICES ASSUME Inv, CopyInv', Reopen PROVE Inv'
  OBVIOUS
<1>1. /\ pc \in {"send", "resend"} /\ sock = 0 /\ call \in 1..Calls /\ CopyInv /\ InStep /\ TypeOK
      /\ UNCHANGED <<call, valid, buffer, up, down, executed>> /\ [Next]_vars
  BY DEF Reopen, Inv, CopyInv, InCall, Next, Client
<1>2. CASE Connected /\ UNCHANGED <<pc, outcome, dirty, tainted>>
  <2>1. sock' # 0 /\ AtRest(sock)'
    BY <1>1, <1>2, NewSession
  <2>2. ASSUME valid, ~ dirty PROVE Course'
    BY <1>1, <1>2, <2>1, <2>2 DEF InStep, Course
  <2>3. RepliesMatch'
    BY <1>1, <1>2, FrameReplies
  <2> QED BY <1>1, <1>2, <2>2, <2>3 DEF Inv, InStep
<1>3. CASE dirty' = TRUE /\ Ends(Thrown) /\ UNCHANGED <<sock, alive, session, sessions>>
  <2>1. /\ outcome' = [outcome EXCEPT ![call] = Thrown] /\ tainted \subseteq tainted'
        /\ Thrown \in NoDocument
    BY <1>1, <1>3, EndsType DEF NoDocument
  <2>2. RepliesMatch'
    BY <1>1, <2>1, EndReplies
  <2> QED BY <1>3, <2>2 DEF Inv, InStep
<1> QED BY <1>2, <1>3 DEF Reopen

LEMMA SendInv == Inv /\ CopyInv' /\ Send => Inv'
<1> SUFFICES ASSUME Inv, CopyInv', Send PROVE Inv'
  OBVIOUS
<1>1. /\ pc \in {"send", "resend"} /\ sock # 0 /\ sock \in 1..Sessions /\ CopyInv /\ InStep /\ TypeOK
      /\ UNCHANGED <<call, valid, outcome, session, executed, dirty, tainted>> /\ [Next]_vars
  BY SockType DEF Send, Inv, CopyInv, Next, Client, server
<1>2. RepliesMatch'
  BY <1>1, FrameReplies
<1>3. SUFFICES ASSUME valid, ~ dirty PROVE Course'
  BY <1>1, <1>2 DEF Inv, InStep
<1>4. /\ buffer = Cells(Request(call)) /\ up[sock] = <<>> /\ down[sock] = <<>>
      /\ session[sock].at = "read" \/ ~ alive[sock]
  BY <1>1, <1>3 DEF InStep, Course, AtRest
<1>5. CASE /\ buffer' = <<>> /\ pc' = "receive"
           /\ up' = IF alive[sock] THEN [up EXCEPT ![sock] = @ \o buffer] ELSE up
           /\ UNCHANGED <<sock, alive, down>>
  <2>1. ASSUME alive[sock] PROVE up'[sock] = Cells(Request(call)) /\ session[sock].at = "read"
    <3>1. up'[sock] = <<>> \o buffer
      BY <1>1, <1>4, <1>5, <2>1 DEF TypeOK
    <3>2. buffer \in Seq(Cell)
      BY <1>1 DEF TypeOK
    <3> QED BY <1>4, <2>1, <3>1, <3>2, ConcatEmptySeq
  <2>2. Waiting(sock, call)'
    BY <1>1, <1>4, <1>5, <2>1 DEF Waiting, Carried
  <2> QED BY <1>5, <2>2 DEF Course
<1>6. CASE pc' = "resend" /\ Closed /\ UNCHANGED <<buffer, up>>
  <2>1. sock' = 0
    BY <1>6 DEF Closed
  <2> QED BY <1>1, <1>4, <1>6, <2>1 DEF Course
<1>7. CASE ~ alive[sock] /\ pc' = "receive" /\ UNCHANGED <<sock, buffer, alive, up, down>>
  <2>1. Waiting(sock, call)'
    BY <1>4, <1>7 DEF Waiting
  <2> QED BY <1>7, <2>1 DEF Course
<1> QED BY <1>5, <1>6, <1>7 DEF Send

LEMMA ReceiveInv == Inv /\ CopyInv' /\ Receive => Inv'
<1> SUFFICES ASSUME Inv, CopyInv', Receive PROVE Inv'
  OBVIOUS
<1>1. /\ pc \in {"receive", "rest"} /\ UNCHANGED <<call, up, session, executed, sessions, dirty>>
      /\ call \in 1..Calls /\ valid /\ CopyInv /\ InStep /\ TypeOK /\ InCall /\ [Next]_vars
  BY DEF Receive, server, Inv, CopyInv, InCall, Next, Client
<1>2. PICK n \in Pieces(down[sock], ClientBuf) :
        LET got == buffer \o SubSeq(down[sock], 1, n) IN
        /\ down' = [down EXCEPT ![sock] = After(@, n)]
        /\ \E size \in Announced(got) :
             IF Len(got) >= size
             THEN Return(got, size)
             ELSE /\ pc' = "rest" /\ buffer' = got
                  /\ UNCHANGED <<valid, sock, outcome, alive, tainted>>
  BY DEF Receive
<1> DEFINE got == buffer \o SubSeq(down[sock], 1, n)
           m == Reply(call)
<1>3. /\ got \in Seq(Cell) /\ sock \in 1..Sessions /\ n \in 0..Len(down[sock])
      /\ After(down[sock], n) \in Seq(Cell) /\ buffer \in Seq(Cell) /\ down[sock] \in Seq(Cell)
      /\ down[sock] # <<>> /\ m \in Messages /\ m # Invalid
  BY <1>1, GotFacts, MessageFacts, Distinct
<1>4. down'[sock] = After(down[sock], n)
  BY <1>1, <1>2, <1>3 DEF TypeOK
<1>5. PICK size \in Announced(got) :
        IF Len(got) >= size
        THEN Return(got, size)
        ELSE /\ pc' = "rest" /\ buffer' = got
             /\ UNCHANGED <<valid, sock, outcome, alive, tainted>>
  BY <1>2
<1>6. size \in Nat
  BY <1>3, <1>5, AnnouncedType
\* What there is begins the reply.
<1>7. ASSUME ~ dirty
      PROVE  /\ up[sock] = <<>> /\ executed[call] = 1
             /\ session[sock].at = "read" \/ ~ alive[sock]
             /\ Begins(got, Cells(m)) /\ Begins(got \o After(down[sock], n), Cells(m))
  <2>1. Answered(sock, call)
    BY <1>1, <1>3, <1>7 DEF InStep, Course, Waiting
  <2>2. Begins(buffer \o down[sock], Cells(m))
    BY <2>1 DEF Answered
  <2>3. Begins(got, Cells(m)) /\ got \o After(down[sock], n) = buffer \o down[sock]
    BY <1>3, <2>2, PieceBegins
  <2> QED BY <2>1, <2>2, <2>3 DEF Answered
<1> HIDE DEF got, m
<1>8. CASE Len(got) >= size
  <2>1. Return(got, size)
    BY <1>5, <1>8
  <2>2. /\ pc' = "idle" /\ buffer' = <<>> /\ tainted \subseteq tainted' /\ (dirty' => call \in tainted')
        /\ \E x \in Document(got, size) :
              \/ x = Invalid /\ ~ valid' /\ outcome' = [outcome EXCEPT ![call] = Failed]
              \/ x # Invalid /\ UNCHANGED <<valid, sock, alive>> /\ outcome' = [outcome EXCEPT ![call] = x]
    BY <1>1, <1>3, <1>6, <2>1, ReturnType
  <2>3. PICK x \in Document(got, size) :
              \/ x = Invalid /\ ~ valid' /\ outcome' = [outcome EXCEPT ![call] = Failed]
              \/ x # Invalid /\ UNCHANGED <<valid, sock, alive>> /\ outcome' = [outcome EXCEPT ![call] = x]
    BY <2>2
  <2>4. CASE x = Invalid
    <3>1. ~ valid' /\ outcome' = [outcome EXCEPT ![call] = Failed] /\ Failed \in NoDocument
      BY <2>3, <2>4 DEF NoDocument
    <3>2. RepliesMatch'
      BY <1>1, <2>2, <3>1, EndReplies
    <3> QED BY <3>1, <3>2 DEF Inv, InStep
  <2>5. CASE x # Invalid /\ dirty
    <3>1. outcome' = [outcome EXCEPT ![call] = x] /\ call \in tainted' /\ dirty'
      BY <1>1, <2>2, <2>3, <2>5
    <3>2. RepliesMatch'
      BY <1>1, <2>2, <3>1, EndReplies
    <3> QED BY <3>1, <3>2 DEF Inv, InStep
  <2>6. CASE x # Invalid /\ ~ dirty
    <3>1. UNCHANGED <<valid, sock, alive>> /\ outcome' = [outcome EXCEPT ![call] = x]
      BY <2>3, <2>6
    <3>2. Begins(got, Cells(m)) /\ Len(got) \in Nat /\ Header \in Nat
      BY <1>3, <1>7, <2>6, BeginsFacts, SizeFacts
    <3>3. Len(got) >= Header /\ size = Size(m)
      <4>1. CASE Len(got) < Header
        <5>1. size = Len(got)
          BY <1>3, <1>5, <3>2, <4>1, BeginsFacts
        <5>2. Document(got, size) = {Invalid}
          BY <1>3, <3>2, <4>1, <5>1, NoHeader
        <5> QED BY <2>6, <5>2
      <4>2. CASE ~(Len(got) < Header)
        <5>1. Len(got) >= Header
          BY <3>2, <4>2
        <5>2. Announced(got) = {Size(m)}
          BY <1>3, <3>2, <5>1, BeginsFacts
        <5> QED BY <1>5, <5>1, <5>2
      <4> QED BY <4>1, <4>2
    <3>4. got = Cells(m) /\ Document(got, size) = {m} /\ Len(got) = Size(m)
      BY <1>3, <1>8, <3>2, <3>3, WholeMessage
    <3>5. x = m
      BY <2>3, <3>4
    <3>6. RepliesMatch'
      <4>1. executed'[call] = 1 /\ x = Reply(call)
        BY <1>1, <1>7, <2>6, <3>5 DEF m
      <4> QED BY <1>1, <2>2, <3>1, <4>1, EndReplies
    <3>7. down'[sock] = <<>>
      <4> DEFINE rest == After(down[sock], n)
      <4>1. rest \in Seq(Cell) /\ Begins(got \o rest, Cells(m))
        BY <1>3, <1>7, <2>6
      <4> HIDE DEF rest
      <4>2. /\ Len(got \o rest) = Len(got) + Len(rest) /\ Len(rest) \in Nat
            /\ Len(got \o rest) <= Size(m) /\ Size(m) \in Nat
        BY <1>3, <4>1, Joined, LenProperties, CellsFacts, SizeFacts DEF Begins
      <4>3. Len(rest) = 0
        BY <3>2, <3>4, <4>2
      <4>4. rest = <<>>
        BY <4>1, <4>3, EmptySeq
      <4> QED BY <1>4, <4>4 DEF rest
    <3>8. AtRest(sock)'
      BY <1>1, <1>7, <2>6, <3>1, <3>7 DEF AtRest
    <3>9. Course'
      BY <1>1, <1>3, <2>2, <3>1, <3>8, SizeFacts DEF Course
    <3> QED BY <3>6, <3>9 DEF Inv, InStep
  <2> QED BY <2>4, <2>5, <2>6
<1>9. CASE ~(Len(got) >= size)
  <2>1. pc' = "rest" /\ buffer' = got /\ UNCHANGED <<valid, sock, outcome, alive, tainted>>
    BY <1>5, <1>9
  <2>2. RepliesMatch'
    BY <1>1, <2>1, FrameReplies
  <2>3. ASSUME ~ dirty PROVE Course'
    <3>1. Begins(got \o After(down[sock], n), Cells(Reply(call)))
      BY <1>7, <2>3 DEF m
    <3>2. Begins(buffer' \o down'[sock], Cells(Reply(call)))
      BY <1>4, <2>1, <3>1
    <3>3. Answered(sock, call)'
      BY <1>1, <1>7, <2>1, <2>3, <3>2 DEF Answered
    <3> QED BY <2>1, <3>3 DEF Course
  <2> QED BY <1>1, <2>2, <2>3 DEF Inv, InStep
<1> QED BY <1>8, <1>9

LEMMA ReceiveFailsInv == Inv /\ CopyInv' /\ ReceiveFails => Inv'
<1> SUFFICES ASSUME Inv, CopyInv', ReceiveFails PROVE Inv'
  OBVIOUS
<1>1. /\ call \in 1..Calls /\ call' = call /\ CopyInv /\ TypeOK /\ [Next]_vars
      /\ Failed \in NoDocument /\ Thrown \in NoDocument
  BY DEF ReceiveFails, Inv, CopyInv, InCall, Next, Client, NoDocument
<1>2. CASE GivesUp
  <2>1. valid' = FALSE /\ Ends(Failed) /\ dirty' \in BOOLEAN
    BY <1>1, <1>2 DEF GivesUp, TypeOK
  <2>2. outcome' = [outcome EXCEPT ![call] = Failed] /\ tainted \subseteq tainted'
    BY <1>1, <2>1, EndsType
  <2>3. RepliesMatch'
    BY <1>1, <2>2, EndReplies
  <2> QED BY <2>1, <2>3 DEF Inv, InStep
<1>3. CASE dirty' = TRUE /\ Ends(Thrown)
  <2>1. outcome' = [outcome EXCEPT ![call] = Thrown] /\ tainted \subseteq tainted'
    BY <1>1, <1>3, EndsType
  <2>2. RepliesMatch'
    BY <1>1, <2>1, EndReplies
  <2> QED BY <1>3, <2>2 DEF Inv, InStep
<1> QED BY <1>2, <1>3 DEF ReceiveFails

\* What the session that serves the client does to the course of the call.
LEMMA ServedFacts ==
  ASSUME Inv, NEW s \in 1..Sessions, s = sock, Serve(s), valid, ~ dirty'
  PROVE  /\ Course /\ TypeOK /\ ~ dirty /\ sock # 0
         /\ UNCHANGED <<pc, call, valid, sock, buffer, alive>>
         /\ pc \in {"receive", "rest"} => call \in 1..Calls
         /\ up[s] # <<>> => pc \in {"receive", "rest"} /\ Waiting(s, call)
         /\ up[s] \in Seq(Cell) /\ down[s] \in Seq(Cell) /\ session[s].got \in Seq(Cell)
<1>1. TypeOK /\ InCall
  BY DEF Inv, CopyInv
<1>2. UNCHANGED <<pc, call, valid, sock, buffer, alive>> /\ ~ dirty
  BY <1>1, ServeType DEF client
<1>3. Course /\ sock # 0
  BY <1>2 DEF Inv, InStep
<1>4. up[s] # <<>> => pc \in {"receive", "rest"} /\ Waiting(s, call)
  BY <1>1, <1>3 DEF Course, AtRest, Answered, TypeOK
<1>5. up[s] \in Seq(Cell) /\ down[s] \in Seq(Cell) /\ session[s].got \in Seq(Cell)
  BY <1>1, SessionType DEF TypeOK, SessionRecord
<1> QED BY <1>1, <1>2, <1>3, <1>4, <1>5 DEF InCall

LEMMA WaitingCourse ==
  ASSUME pc' \in {"receive", "rest"}, Waiting(sock, call)'
  PROVE  Course'
BY DEF Course

\* The rest of a sequence of which all was taken.
LEMMA NoRest ==
  ASSUME NEW t \in Seq(Cell), NEW n \in 0..Len(t), Len(t) <= n
  PROVE  After(t, n) = <<>>
<1>1. After(t, n) \in Seq(Cell) /\ Len(After(t, n)) = Len(t) - n /\ Len(t) \in Nat
  BY Pieced, LenProperties
<1> QED BY <1>1, EmptySeq

LEMMA ReadCourse ==
  ASSUME Inv, CopyInv', NEW s \in 1..Sessions, s = sock, Read(s), valid, ~ dirty'
  PROVE  Course'
<1>1. /\ TypeOK /\ ~ dirty /\ UNCHANGED <<pc, call, valid, sock, buffer, alive>>
      /\ up[s] # <<>> => pc \in {"receive", "rest"} /\ call \in 1..Calls /\ Waiting(s, call)
      /\ up[s] \in Seq(Cell) /\ down[s] \in Seq(Cell)
  BY ServedFacts DEF Serve
<1>2. PICK n \in Pieces(up[s], ServerBuf) :
        \E size \in Announced(SubSeq(up[s], 1, n)) : ReadEffect(s, n, size)
  BY <1>1, ReadDoes
<1> DEFINE got == SubSeq(up[s], 1, n)
           m == Request(call)
<1>3. PICK size \in Announced(got) : ReadEffect(s, n, size)
  BY <1>2
<1>4. /\ n \in 0..Len(up[s]) /\ n \in 1..Len(up[s]) /\ Len(up[s]) \in Nat /\ up[s] # <<>>
      /\ got \in Seq(Cell) /\ Len(got) = n /\ \A i \in 1..n : got[i] = up[s][i]
      /\ After(up[s], n) \in Seq(Cell) /\ got \o After(up[s], n) = up[s]
  BY <1>1, PieceFacts
<1>5. pc \in {"receive", "rest"} /\ call \in 1..Calls /\ Waiting(s, call) /\ session[s].at = "read"
  BY <1>1, <1>4 DEF Read
<1>6. SUFFICES Waiting(s, call)'
  BY <1>1, <1>5, WaitingCourse
<1>7. CASE ~ alive[s]
  <2>1. down' = down
    BY <1>3, <1>7 DEF ReadEffect
  <2> QED BY <1>1, <1>5, <1>7, <2>1 DEF Waiting
<1>8. CASE alive[s]
  <2>1. down[s] = <<>> /\ buffer = <<>> /\ up[s] = Cells(m)
    BY <1>5, <1>8 DEF Waiting, Carried
  <2>2. /\ m \in Messages /\ Len(Cells(m)) = Size(m) /\ Size(m) \in Nat /\ Size(m) = RequestSize[call]
        /\ Header \in Nat /\ ServerBuf \in Nat /\ Size(m) >= Header
    BY <1>5, MessageFacts, CellsFacts, SizeFacts
  <2>3. Begins(got, Cells(m))
    BY <1>4, <2>1, <2>2 DEF Begins
  <2>4. ~ Torn(got, size) /\ up' = [up EXCEPT ![s] = After(up[s], n)]
    BY <1>3 DEF ReadEffect
  <2>5. Aligned(got) /\ (size <= ServerBuf => ~(Len(got) < size))
    BY <2>4 DEF Torn
  <2> HIDE DEF got, m
  <2>6. Len(got) >= Header
    BY <2>5 DEF Aligned
  <2>7. size = Size(m)
    BY <1>3, <1>4, <2>2, <2>3, <2>6, BeginsFacts
  <2>8. PICK r \in SessionRecord :
          /\ session' = [session EXCEPT ![s] = r]
          /\ r.got = SubSeq(up[s], 1, n) /\ r.need = size
          /\ r.at = (IF size <= ServerBuf THEN "process" ELSE "more")
    <3>1. ~(size < Header)
      BY <2>2, <2>7
    <3> QED BY <1>3, <3>1 DEF ReadEffect
  <2>9. down' = down
    <3>1. ~(size < Header)
      BY <2>2, <2>7
    <3> QED BY <1>3, <3>1 DEF ReadEffect
  <2>10. session'[s] = r /\ up'[s] = After(up[s], n)
    BY <1>1, <2>4, <2>8 DEF TypeOK
  <2>11. CASE size <= ServerBuf
    <3>1. Len(got) >= Size(m)
      BY <1>4, <2>2, <2>5, <2>7, <2>11
    <3>2. got = Cells(m) /\ Len(got) = Size(m)
      BY <1>4, <2>2, <2>3, <3>1, WholeMessage
    <3>3. up'[s] = <<>>
      BY <1>1, <1>4, <2>1, <2>2, <2>10, <3>2, NoRest
    <3>4. Carried(s, call)'
      BY <1>1, <2>2, <2>7, <2>8, <2>10, <2>11, <3>2, <3>3 DEF Carried, got, m
    <3> QED BY <1>1, <2>1, <2>9, <3>4 DEF Waiting
  <2>12. CASE ~(size <= ServerBuf)
    <3>1. session'[s].got \o up'[s] = Cells(m)
      BY <1>4, <2>1, <2>8, <2>10 DEF got
    <3>2. Carried(s, call)'
      BY <1>1, <2>2, <2>7, <2>8, <2>10, <2>12, <3>1 DEF Carried, m
    <3> QED BY <1>1, <2>1, <2>9, <3>2 DEF Waiting
  <2> QED BY <2>11, <2>12
<1> QED BY <1>7, <1>8

LEMMA MoreCourse ==
  ASSUME Inv, CopyInv', NEW s \in 1..Sessions, s = sock, More(s), valid, ~ dirty'
  PROVE  Course'
<1>1. /\ TypeOK /\ ~ dirty /\ UNCHANGED <<pc, call, valid, sock, buffer, alive>>
      /\ up[s] # <<>> => pc \in {"receive", "rest"} /\ call \in 1..Calls /\ Waiting(s, call)
      /\ up[s] \in Seq(Cell) /\ down[s] \in Seq(Cell) /\ session[s].got \in Seq(Cell)
  BY ServedFacts DEF Serve
<1>2. PICK n \in Pieces(up[s], ServerBuf), r \in SessionRecord :
        /\ up' = [up EXCEPT ![s] = After(up[s], n)] /\ session' = [session EXCEPT ![s] = r]
        /\ r.got = session[s].got \o SubSeq(up[s], 1, n) /\ r.need = session[s].need
        /\ r.at = (IF Len(r.got) = r.need THEN "process" ELSE "more")
  BY <1>1, MoreDoes
<1> DEFINE piece == SubSeq(up[s], 1, n)
           rest == After(up[s], n)
           m == Request(call)
<1>3. /\ up[s] # <<>> /\ piece \in Seq(Cell) /\ rest \in Seq(Cell) /\ piece \o rest = up[s]
  BY <1>1, <1>2, PieceFacts
<1>4. /\ pc \in {"receive", "rest"} /\ call \in 1..Calls /\ Waiting(s, call) /\ session[s].at = "more"
      /\ down' = down
  BY <1>1, <1>3 DEF More
<1>5. SUFFICES Waiting(s, call)'
  BY <1>1, <1>4, WaitingCourse
<1>6. CASE ~ alive[s]
  BY <1>1, <1>4, <1>6 DEF Waiting
<1>7. CASE alive[s]
  <2>1. /\ down[s] = <<>> /\ buffer = <<>> /\ session[s].need = RequestSize[call]
        /\ session[s].got \o up[s] = Cells(m)
    BY <1>4, <1>7 DEF Waiting, Carried
  <2>2. m \in Messages /\ Len(Cells(m)) = Size(m) /\ Size(m) \in Nat /\ Size(m) = RequestSize[call]
    BY <1>4, MessageFacts, CellsFacts, SizeFacts
  <2>3. session'[s] = r /\ up'[s] = rest
    BY <1>1, <1>2 DEF TypeOK
  <2> HIDE DEF piece, rest, m
  <2>4. r.got = session[s].got \o piece /\ r.got \in Seq(Cell)
    BY <1>1, <1>2, <1>3, Joined DEF piece
  <2>5. r.got \o rest = Cells(m)
    <3> DEFINE g == session[s].got
    <3>1. g \in Seq(Cell) /\ g \o up[s] = Cells(m) /\ r.got = g \o piece
      BY <1>1, <2>1, <2>4
    <3> HIDE DEF g
    <3>2. (g \o piece) \o rest = g \o (piece \o rest)
      BY <1>3, <3>1, Associates
    <3> QED BY <1>3, <3>1, <3>2
  <2>6. CASE Len(r.got) = r.need
    <3>1. Len(r.got \o rest) = Len(r.got) + Len(rest) /\ Len(rest) \in Nat /\ Len(r.got) = Size(m)
      BY <1>2, <1>3, <2>1, <2>2, <2>4, <2>6, Joined, LenProperties
    <3>2. Len(rest) = 0
      BY <2>2, <2>5, <3>1
    <3>3. rest = <<>>
      BY <1>3, <3>2, EmptySeq
    <3>4. r.got = Cells(m)
      BY <2>4, <2>5, <3>3, ConcatEmptySeq
    <3>5. Carried(s, call)'
      BY <1>1, <1>2, <2>1, <2>3, <2>6, <3>3, <3>4 DEF Carried, m
    <3> QED BY <1>1, <1>4, <2>1, <3>5 DEF Waiting
  <2>7. CASE Len(r.got) # r.need
    <3>1. Carried(s, call)'
      BY <1>1, <1>2, <2>1, <2>3, <2>5, <2>7 DEF Carried, m
    <3> QED BY <1>1, <1>4, <2>1, <3>1 DEF Waiting
  <2> QED BY <2>6, <2>7
<1> QED BY <1>6, <1>7

LEMMA ProcessCourse ==
  ASSUME Inv, CopyInv', [Next]_vars, NEW s \in 1..Sessions, s = sock, Process(s), valid, ~ dirty'
  PROVE  Course'
<1>1. /\ TypeOK /\ Course /\ UNCHANGED <<pc, call, valid, sock, buffer, alive>> /\ sock # 0
      /\ pc \in {"receive", "rest"} => call \in 1..Calls
  BY ServedFacts DEF Serve
<1>2. UNCHANGED <<up, down>> /\ session[s].at = "process"
  BY DEF Process
<1>3. \A c \in 1..Calls : /\ executed[c] = 1 => executed'[c] = 1
                          /\ executed[c] \in {0, 1} /\ executed'[c] \in {0, 1}
  BY ExecutedStays DEF Inv, CopyInv, OneCopy
<1>4. CASE ~ alive[s]
  <2>1. AtRest(s) => AtRest(s)'
    BY <1>1, <1>2, <1>4 DEF AtRest
  <2>2. ASSUME call \in 1..Calls PROVE (Waiting(s, call) \/ Answered(s, call)) => (Waiting(s, call) \/ Answered(s, call))'
    BY <1>1, <1>2, <1>3, <1>4, <2>2 DEF Waiting, Answered
  <2> QED BY <1>1, <2>1, <2>2 DEF Course
<1>5. CASE alive[s]
  <2>1. /\ pc \in {"receive", "rest"} /\ call \in 1..Calls /\ Waiting(s, call)
    BY <1>1, <1>2, <1>5 DEF Course, AtRest, Answered, TypeOK
  <2> DEFINE m == Request(call)
  <2>2. /\ down[s] = <<>> /\ buffer = <<>> /\ up[s] = <<>>
        /\ session[s].need = RequestSize[call] /\ session[s].got = Cells(m)
    BY <1>2, <1>5, <2>1 DEF Waiting, Carried
  <2>3. /\ m \in Messages /\ Cells(m) \in Seq(Cell) /\ Len(Cells(m)) = Size(m) /\ Size(m) = RequestSize[call]
        /\ Size(m) \in Nat /\ Begins(Cells(m), Cells(m))
    BY <2>1, MessageFacts, CellsFacts, SizeFacts, CellsBegin
  <2>4. m[1] = "request" /\ m[2] = call
    BY DEF Request
  <2> HIDE DEF m
  <2>5. Document(session[s].got, session[s].need) = {m}
    <3>1. Len(Cells(m)) >= Size(m)
      BY <2>3
    <3>2. Document(Cells(m), Size(m)) = {m}
      BY <2>3, <3>1, WholeMessage
    <3> QED BY <2>2, <2>3, <3>2
  <2>6. \E answer \in Answers :
          /\ answer = Reply(call)
          /\ executed' = [executed EXCEPT ![call] = executed[call] + 1]
          /\ \E r \in SessionRecord : /\ session' = [session EXCEPT ![s] = r]
                                      /\ r.at = "write" /\ r.got = <<>> /\ r.answer = answer
    BY <1>1, <2>4, <2>5, ProcessDoes
  <2>7. PICK r \in SessionRecord : /\ session' = [session EXCEPT ![s] = r]
                                   /\ r.at = "write" /\ r.answer = Reply(call)
    BY <2>6
  <2>8. session'[s] = r
    BY <1>1, <2>7 DEF TypeOK
  <2>9. executed'[call] = 1
    <3>1. executed'[call] = executed[call] + 1
      BY <1>1, <2>1, <2>6 DEF TypeOK
    <3> QED BY <1>3, <2>1, <3>1
  <2>10. Carried(s, call)'
    BY <1>1, <1>2, <2>2, <2>7, <2>8, <2>9 DEF Carried
  <2>11. Waiting(s, call)'
    BY <1>1, <1>2, <2>2, <2>10 DEF Waiting
  <2> QED BY <1>1, <2>1, <2>11, WaitingCourse
<1> QED BY <1>4, <1>5

LEMMA WriteCourse ==
  ASSUME Inv, CopyInv', NEW s \in 1..Sessions, s = sock, Write(s), valid, ~ dirty'
  PROVE  Course'
<1>1. /\ TypeOK /\ Course /\ UNCHANGED <<pc, call, valid, sock, buffer, alive>> /\ sock # 0
      /\ pc \in {"receive", "rest"} => call \in 1..Calls
  BY ServedFacts DEF Serve
<1>2. UNCHANGED <<up, executed>> /\ session[s].at = "write"
  BY DEF Write
<1>3. CASE ~ alive[s]
  <2>1. down' = down
    BY <1>3 DEF Write
  <2>2. AtRest(s) => AtRest(s)'
    BY <1>1, <1>2, <1>3, <2>1 DEF AtRest
  <2>3. (Waiting(s, call) \/ Answered(s, call)) => (Waiting(s, call) \/ Answered(s, call))'
    BY <1>1, <1>2, <1>3, <2>1 DEF Waiting, Answered
  <2> QED BY <1>1, <2>2, <2>3 DEF Course
<1>4. CASE alive[s]
  <2>1. pc \in {"receive", "rest"} /\ call \in 1..Calls /\ Waiting(s, call)
    BY <1>1, <1>2, <1>4 DEF Course, AtRest, Answered, TypeOK
  <2> DEFINE m == Reply(call)
  <2>2. /\ down[s] = <<>> /\ buffer = <<>> /\ up[s] = <<>>
        /\ session[s].answer = m /\ executed[call] = 1
    BY <1>2, <1>4, <2>1 DEF Waiting, Carried
  <2>3. m \in Messages /\ Cells(m) \in Seq(Cell) /\ Begins(Cells(m), Cells(m))
    BY <2>1, MessageFacts, CellsFacts, CellsBegin
  <2> HIDE DEF m
  <2>4. down'[s] = Cells(m) /\ session'[s].at = "read"
    <3>1. down' = [down EXCEPT ![s] = down[s] \o Cells(m)] /\ session' = [session EXCEPT ![s] = Reading]
      BY <1>4, <2>2 DEF Write
    <3>2. down'[s] = <<>> \o Cells(m) /\ session'[s] = Reading
      BY <1>1, <2>2, <3>1 DEF TypeOK
    <3> QED BY <2>3, <3>2, FreshType, ConcatEmptySeq
  <2>5. Begins(buffer' \o down'[s], Cells(m))
    <3>1. buffer' \o down'[s] = <<>> \o Cells(m)
      BY <1>1, <2>2, <2>4
    <3>2. buffer' \o down'[s] = Cells(m)
      BY <2>3, <3>1, ConcatEmptySeq
    <3> QED BY <2>3, <3>2
  <2>6. Answered(s, call)'
    BY <1>1, <1>2, <2>2, <2>4, <2>5 DEF Answered, m
  <2> QED BY <1>1, <2>1, <2>6 DEF Course
<1> QED BY <1>3, <1>4

LEMMA EndCourse ==
  ASSUME Inv, CopyInv', NEW s \in 1..Sessions, s = sock, End(s), valid, ~ dirty'
  PROVE  Course'
<1>1. /\ Course /\ UNCHANGED <<pc, call, valid, sock, buffer, alive>> /\ sock # 0
  BY ServedFacts DEF Serve
<1>2. UNCHANGED <<up, down, executed>> /\ ~ alive[s]
  BY DEF End
<1>3. AtRest(s) => AtRest(s)'
  BY <1>1, <1>2 DEF AtRest
<1>4. (Waiting(s, call) \/ Answered(s, call)) => (Waiting(s, call) \/ Answered(s, call))'
  BY <1>1, <1>2 DEF Waiting, Answered
<1> QED BY <1>1, <1>3, <1>4 DEF Course

\* The end of what is on its way to the client is lost: the rest still begins the reply.
LEMMA BreakCourse ==
  ASSUME Inv, CopyInv', NEW s \in 1..Sessions, s = sock, Break(s), valid, ~ dirty'
  PROVE  Course'
<1>1. /\ TypeOK /\ InCall /\ UNCHANGED <<pc, call, valid, sock, buffer, session, executed, dirty>>
  BY DEF Break, client, server, Inv, CopyInv
<1>2. Course /\ sock # 0
  BY <1>1 DEF Inv, InStep
<1>3. PICK n \in 0..Len(up[s]), k \in 0..Len(down[s]) :
        /\ up' = [up EXCEPT ![s] = SubSeq(up[s], 1, n)]
        /\ down' = [down EXCEPT ![s] = SubSeq(down[s], 1, k)]
  BY DEF Break
<1>4. /\ up'[s] = SubSeq(up[s], 1, n) /\ down'[s] = SubSeq(down[s], 1, k) /\ ~ alive'[s]
      /\ up[s] \in Seq(Cell) /\ down[s] \in Seq(Cell) /\ buffer \in Seq(Cell)
  BY <1>1, <1>3 DEF Break, TypeOK
<1>5. up[s] = <<>> => up'[s] = <<>>
  <2>1. SubSeq(up[s], 1, n) \in Seq(Cell) /\ Len(SubSeq(up[s], 1, n)) = n
    BY <1>4, Pieced
  <2> QED BY <1>4, <2>1, EmptySeq
<1>6. down[s] = <<>> => down'[s] = <<>>
  <2>1. SubSeq(down[s], 1, k) \in Seq(Cell) /\ Len(SubSeq(down[s], 1, k)) = k
    BY <1>4, Pieced
  <2> QED BY <1>4, <2>1, EmptySeq
<1>7. AtRest(s) => AtRest(s)'
  BY <1>1, <1>4, <1>5, <1>6 DEF AtRest
<1>8. Waiting(s, call) => Waiting(s, call)'
  BY <1>1, <1>4, <1>6 DEF Waiting
<1>9. ASSUME call \in 1..Calls, Answered(s, call) PROVE Answered(s, call)'
  <2>1. Begins(buffer \o down[s], Cells(Reply(call))) /\ Reply(call) \in Messages
    BY <1>9, MessageFacts DEF Answered
  <2>2. Begins(buffer \o SubSeq(down[s], 1, k), Cells(Reply(call)))
    BY <1>3, <1>4, <2>1, PieceBegins
  <2>3. Begins(buffer' \o down'[s], Cells(Reply(call)))
    BY <1>1, <1>4, <2>2
  <2> QED BY <1>1, <1>4, <1>5, <1>9, <2>3 DEF Answered
<1> QED BY <1>1, <1>2, <1>7, <1>8, <1>9 DEF Course, InCall

LEMMA ServerInv ==
  ASSUME Inv, CopyInv', NEW s \in 1..Sessions, Serve(s) \/ Break(s)
  PROVE  Inv'
<1>1. /\ UNCHANGED <<pc, call, valid, sock, buffer, outcome, tainted>> /\ (dirty => dirty')
      /\ TypeOK /\ [Next]_vars
  BY ServeType, BreakType DEF Inv, CopyInv, client, Next
<1>2. RepliesMatch'
  BY <1>1, FrameReplies
<1>3. CASE s # sock
  <2>1. Untouched
    <3>1. \A x \in 1..Sessions \ {s} : /\ up'[x] = up[x] /\ down'[x] = down[x]
                                       /\ session'[x] = session[x] /\ alive'[x] = alive[x]
      <4>1. /\ up \in [1..Sessions -> Seq(Cell)] /\ down \in [1..Sessions -> Seq(Cell)]
            /\ session \in [1..Sessions -> SessionRecord] /\ alive \in [1..Sessions -> BOOLEAN]
        BY <1>1 DEF TypeOK, SessionRecord
      <4>2. CASE Read(s)
        <5>1. PICK n \in Pieces(up[s], ServerBuf) :
                \E size \in Announced(SubSeq(up[s], 1, n)) : ReadEffect(s, n, size)
          BY <1>1, <4>2, ReadDoes
        <5>2. alive' = alive
          BY <4>2 DEF Read
        <5> QED BY <4>1, <5>1, <5>2 DEF ReadEffect
      <4>3. CASE More(s)
        <5>1. alive' = alive /\ down' = down
          BY <4>3 DEF More
        <5> QED BY <1>1, <4>1, <4>3, <5>1, MoreDoes
      <4>4. CASE Process(s) \/ Write(s) \/ End(s)
        BY <4>1, <4>4 DEF Process, Write, End
      <4>5. CASE Break(s)
        BY <4>1, <4>5 DEF Break, server
      <4> QED BY <4>2, <4>3, <4>4, <4>5 DEF Serve
    <3>2. sock # 0 => sock \in 1..Sessions \ {s}
      BY <1>1, <1>3, SockType
    <3> QED BY <3>1, <3>2 DEF Untouched
  <2>2. InStep'
    BY <1>1, <2>1, FrameCourse
  <2> QED BY <1>2, <2>2 DEF Inv
<1>4. CASE s = sock
  <2>1. ASSUME valid, ~ dirty' PROVE Course'
    BY <1>1, <1>4, <2>1, ReadCourse, MoreCourse, ProcessCourse, WriteCourse, EndCourse, BreakCourse DEF Serve
  <2> QED BY <1>1, <1>2, <2>1 DEF Inv, InStep
<1> QED BY <1>3, <1>4

LEMMA InvInit == Init => Inv
<1> SUFFICES ASSUME Init PROVE Inv
  OBVIOUS
<1>1. ~ valid
  BY DEF Init
<1>2. \A c \in 1..Calls : outcome[c] \in NoDocument
  BY DEF Init, NoDocument
<1> QED BY <1>1, <1>2, CopyInit DEF Inv, InStep, RepliesMatch

LEMMA InvStep == Inv /\ [Next]_vars => Inv'
<1> SUFFICES ASSUME Inv, [Next]_vars PROVE Inv'
  OBVIOUS
<1>1. CopyInv'
  BY CopyStep DEF Inv
<1>2. CASE Client
  BY <1>1, <1>2, BeginInv, ReopenInv, SendInv, ReceiveInv, ReceiveFailsInv DEF Client
<1>3. ASSUME NEW s \in 1..Sessions, Serve(s) \/ Break(s) PROVE Inv'
  BY <1>1, <1>3, ServerInv
<1>4. CASE UNCHANGED vars
  <2>1. /\ UNCHANGED <<pc, call, valid, sock, buffer, outcome, alive, up, down, session, executed, dirty, tainted>>
    BY <1>4 DEF vars, client, server
  <2>2. Untouched
    BY <2>1 DEF Untouched
  <2>3. InStep'
    BY <1>1, <2>1, <2>2, FrameCourse
  <2>4. RepliesMatch'
    BY <1>1, <2>1, FrameReplies
  <2> QED BY <1>1, <2>3, <2>4 DEF Inv
<1> QED BY <1>2, <1>3, <1>4 DEF Next, Done

\* A call that returns a document on a connection that is not dirty has had its request
\* executed, once, and returns the reply to it, however the streams are cut into pieces
\* and wherever a connection breaks (src/src/api/impl/connection.cpp:44-95,
\* src/src/service/server/service.cpp:36-115).
THEOREM RepliesBelong == Spec => []RepliesMatch
<1>1. Inv => RepliesMatch
  BY DEF Inv
<1> QED BY <1>1, InvInit, InvStep, PTL DEF Spec

\* Between calls such a connection holds no cell of an earlier call, neither in the
\* client's buffer nor on the way, and its session waits for a request.
THEOREM QuietWhenClean == Spec => []QuietBetweenCalls
<1>1. Inv => QuietBetweenCalls
  BY DEF Inv, InStep, Course, AtRest, QuietBetweenCalls
<1> QED BY <1>1, InvInit, InvStep, PTL DEF Spec
=============================================================================
