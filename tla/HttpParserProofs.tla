-------------------------- MODULE HttpParserProofs --------------------------
(***************************************************************************)
(* Proofs about HttpParser, for any requests and any pieces in which they  *)
(* arrive: what is stored is a text that was sent; the parser never waits  *)
(* for more than a request has; a request that an idle connection reads in *)
(* one piece is served for what it is.                                     *)
(***************************************************************************)
EXTENDS HttpParser, LeastNatural, SequenceTheorems

-----------------------------------------------------------------------------
(* What is in a stream of tokens.                                          *)

\* The marks at i and j are the first two after place s.
NextMarks(u, s, i, j) ==
    /\ s < i /\ i < j /\ u[i] = "^" /\ u[j] = "^"
    /\ \A k \in 1..Len(u) : s < k /\ k < j /\ u[k] = "^" => k = i

(* After the end of any line, the next two marks enclose what may be       *)
(* stored.                                                                 *)
Framed(u) ==
    \A s, i, j \in 1..Len(u) :
        u[s] = "LF" /\ NextMarks(u, s, i, j) =>
            \E t \in Texts : SubSeq(u, i + 1, j - 1) = UpToMark(t)

(* A mark after the end of a line is not the last one.                     *)
Paired(u) ==
    \A s, i \in 1..Len(u) :
        u[s] = "LF" /\ s < i /\ u[i] = "^" =>
            \E j, k \in 1..Len(u) : s < j /\ j < k /\ u[j] = "^" /\ u[k] = "^"

Unread == buf \o wire

(* The inductive invariant.                                                *)
ParserInv ==
    /\ buf \in Seq(Words) /\ wire \in Seq(Words)
    /\ hState \in HStates \ {"endlf"} /\ keepHeader \in BOOLEAN
    /\ Framed(Unread) /\ Paired(Unread)
    /\ StoredAsSent

-----------------------------------------------------------------------------
(* Parts of a stream.                                                      *)

(* The places of a part.                                                   *)
LEMMA CutIs ==
  ASSUME NEW S, NEW u \in Seq(S), NEW a \in 1..Len(u) + 1, NEW c \in 0..Len(u), a <= c + 1
  PROVE  /\ SubSeq(u, a, c) \in Seq(S) /\ Len(SubSeq(u, a, c)) = c - a + 1
         /\ \A x \in 1..c - a + 1 : SubSeq(u, a, c)[x] = u[x + a - 1]
OBVIOUS

(* A part of a part.                                                       *)
LEMMA CutOfCut ==
  ASSUME NEW S, NEW u \in Seq(S), NEW a \in 1..Len(u) + 1, NEW c \in 0..Len(u), a <= c + 1,
         NEW i \in 1..c - a + 2, NEW j \in 0..c - a + 1, i <= j + 1
  PROVE  SubSeq(SubSeq(u, a, c), i, j) = SubSeq(u, i + a - 1, j + a - 1)
<1> DEFINE v == SubSeq(u, a, c)
           w == SubSeq(v, i, j)
           z == SubSeq(u, i + a - 1, j + a - 1)
<1>1. /\ v \in Seq(S) /\ Len(v) = c - a + 1 /\ \A x \in 1..c - a + 1 : v[x] = u[x + a - 1]
  BY CutIs
<1> HIDE DEF v
<1>2. /\ w \in Seq(S) /\ Len(w) = j - i + 1 /\ \A x \in 1..j - i + 1 : w[x] = v[x + i - 1]
  BY <1>1, CutIs
<1>3. /\ z \in Seq(S) /\ Len(z) = j - i + 1 /\ \A x \in 1..j - i + 1 : z[x] = u[x + i + a - 2]
  BY CutIs
<1> HIDE DEF w, z
<1>4. \A x \in 1..j - i + 1 : w[x] = z[x]
  BY <1>1, <1>2, <1>3
<1>5. w = z
  BY <1>2, <1>3, <1>4, SeqEqual
<1> QED BY <1>5 DEF w, z, v

(* Parts of streams that begin alike.                                      *)
LEMMA SameCut ==
  ASSUME NEW S, NEW u \in Seq(S), NEW w \in Seq(S), Len(u) <= Len(w),
         \A x \in 1..Len(u) : w[x] = u[x],
         NEW i \in 1..Len(u), NEW j \in 1..Len(u), i < j
  PROVE  SubSeq(w, i + 1, j - 1) = SubSeq(u, i + 1, j - 1)
<1> DEFINE a == i + 1
           c == j - 1
           v == SubSeq(u, a, c)
           z == SubSeq(w, a, c)
<1>1. /\ a \in 1..Len(u) + 1 /\ c \in 0..Len(u) /\ a <= c + 1
      /\ a \in 1..Len(w) + 1 /\ c \in 0..Len(w)
  OBVIOUS
<1> HIDE DEF a, c
<1>2. v \in Seq(S) /\ Len(v) = c - a + 1 /\ \A x \in 1..c - a + 1 : v[x] = u[x + a - 1]
  BY <1>1, CutIs
<1>3. z \in Seq(S) /\ Len(z) = c - a + 1 /\ \A x \in 1..c - a + 1 : z[x] = w[x + a - 1]
  BY <1>1, CutIs
<1> HIDE DEF v, z
<1>4. \A x \in 1..c - a + 1 : x + a - 1 \in 1..Len(u)
  BY <1>1
<1>5. v = z
  BY <1>2, <1>3, <1>4, SeqEqual
<1> QED BY <1>5 DEF v, z, a, c

(* A part of a framed stream is framed, and an end of a paired one paired. *)
LEMMA CutKeeps ==
  ASSUME NEW u \in Seq(Words), NEW a \in 1..Len(u) + 1, NEW c \in 0..Len(u), a <= c + 1
  PROVE  /\ Framed(u) => Framed(SubSeq(u, a, c))
         /\ Paired(u) /\ c = Len(u) => Paired(SubSeq(u, a, c))
<1> DEFINE v == SubSeq(u, a, c)
           d == a - 1
<1>1. /\ v \in Seq(Words) /\ Len(v) = c - d /\ d \in Nat /\ d <= c /\ c \in Nat
      /\ \A x \in 1..c - d : v[x] = u[x + d]
  <2>1. \A x \in 1..c - a + 1 : v[x] = u[x + a - 1]
    BY CutIs
  <2>2. \A x \in 1..c - d : x \in 1..c - a + 1 /\ x + a - 1 = x + d
    OBVIOUS
  <2>3. v \in Seq(Words) /\ Len(v) = c - a + 1
    BY CutIs
  <2> QED BY <2>1, <2>2, <2>3
<1>2. \A i \in 1..c - d + 1, j \in 0..c - d :
        i <= j + 1 => SubSeq(v, i, j) = SubSeq(u, i + d, j + d)
  <2>1. SUFFICES ASSUME NEW i \in 1..c - d + 1, NEW j \in 0..c - d, i <= j + 1
                 PROVE  SubSeq(v, i, j) = SubSeq(u, i + d, j + d)
    OBVIOUS
  <2>2. i + a - 1 = i + d /\ j + a - 1 = j + d /\ i \in 1..c - a + 2 /\ j \in 0..c - a + 1
    OBVIOUS
  <2> QED BY <2>1, <2>2, CutOfCut
<1> HIDE DEF v, d
<1>3. ASSUME Framed(u), NEW s \in 1..Len(v), NEW i \in 1..Len(v), NEW j \in 1..Len(v),
             v[s] = "LF", NextMarks(v, s, i, j)
      PROVE  \E t \in Texts : SubSeq(v, i + 1, j - 1) = UpToMark(t)
  <2>1. /\ s + d \in 1..Len(u) /\ i + d \in 1..Len(u) /\ j + d \in 1..Len(u)
        /\ u[s + d] = "LF" /\ u[i + d] = "^" /\ u[j + d] = "^" /\ s < i /\ i < j
    <3>1. s < i /\ i < j /\ v[i] = "^" /\ v[j] = "^"
      BY <1>3 DEF NextMarks
    <3> QED BY <1>1, <1>3, <3>1
  <2>2. ASSUME NEW k \in 1..Len(u), s + d < k, k < j + d, u[k] = "^" PROVE k = i + d
    <3>1. k - d \in 1..Len(v) /\ v[k - d] = "^" /\ s < k - d /\ k - d < j
      BY <1>1, <2>1, <2>2
    <3>2. k - d = i
      BY <1>3, <3>1 DEF NextMarks
    <3> QED BY <1>1, <2>1, <3>2
  <2>3. NextMarks(u, s + d, i + d, j + d)
    BY <1>1, <2>1, <2>2 DEF NextMarks
  <2>4. \E t \in Texts : SubSeq(u, (i + d) + 1, (j + d) - 1) = UpToMark(t)
    <3> DEFINE x == s + d
               y == i + d
               z == j + d
    <3>1. x \in 1..Len(u) /\ y \in 1..Len(u) /\ z \in 1..Len(u) /\ u[x] = "LF" /\ NextMarks(u, x, y, z)
      BY <2>1, <2>3
    <3> HIDE DEF x, y, z
    <3>2. \E t \in Texts : SubSeq(u, y + 1, z - 1) = UpToMark(t)
      BY <1>3, <3>1 DEF Framed
    <3> QED BY <3>2 DEF y, z
  <2>5. SubSeq(v, i + 1, j - 1) = SubSeq(u, (i + 1) + d, (j - 1) + d)
    BY <1>1, <1>2, <2>1
  <2>6. (i + 1) + d = (i + d) + 1 /\ (j - 1) + d = (j + d) - 1
    BY <1>1, <2>1
  <2> QED BY <2>4, <2>5, <2>6
<1>4. ASSUME Paired(u), c = Len(u), NEW s \in 1..Len(v), NEW i \in 1..Len(v),
             v[s] = "LF", s < i, v[i] = "^"
      PROVE  \E j, k \in 1..Len(v) : s < j /\ j < k /\ v[j] = "^" /\ v[k] = "^"
  <2>1. /\ s + d \in 1..Len(u) /\ i + d \in 1..Len(u) /\ d \in Nat
        /\ u[s + d] = "LF" /\ u[i + d] = "^" /\ s + d < i + d
    BY <1>1, <1>4
  <2>2. PICK j \in 1..Len(u), k \in 1..Len(u) : s + d < j /\ j < k /\ u[j] = "^" /\ u[k] = "^"
    BY <1>4, <2>1 DEF Paired
  <2>3. /\ j - d \in 1..Len(v) /\ k - d \in 1..Len(v) /\ s < j - d /\ j - d < k - d
        /\ v[j - d] = "^" /\ v[k - d] = "^"
    <3>1. j \in Nat /\ k \in Nat /\ j - d \in 1..Len(v) /\ k - d \in 1..Len(v) /\ s < j - d /\ j - d < k - d
      BY <1>1, <1>4, <2>1, <2>2
    <3>2. (j - d) + d = j /\ (k - d) + d = k
      <4>1. j \in Int /\ k \in Int /\ d \in Int
        BY <2>1
      <4> QED BY ONLY <4>1
    <3>3. ASSUME NEW x \in 1..Len(v) PROVE v[x] = u[x + d]
      BY <1>1, <3>1
    <3>4. v[j - d] = u[(j - d) + d] /\ v[k - d] = u[(k - d) + d]
      BY <3>1, <3>3, Zenon
    <3> QED BY <2>2, <3>1, <3>2, <3>4
  <2> QED BY <2>3
<1> QED BY <1>3, <1>4 DEF Framed, Paired, v

(* The first of some places.                                               *)
LEMMA FirstIs ==
  ASSUME NEW S \in SUBSET Nat, S # {}
  PROVE  First(S) \in S /\ \A j \in S : First(S) <= j
<1> QED BY LeastExists DEF First

-----------------------------------------------------------------------------
(* What the client adds to a stream.                                       *)

(* The places of a stream with another behind it.                          *)
LEMMA JoinIs ==
  ASSUME NEW S, NEW u \in Seq(S), NEW v \in Seq(S)
  PROVE  /\ u \o v \in Seq(S) /\ Len(u) \in Nat /\ Len(v) \in Nat
         /\ Len(u \o v) = Len(u) + Len(v)
         /\ \A x \in 1..Len(u) : (u \o v)[x] = u[x]
         /\ \A x \in Len(u) + 1..Len(u) + Len(v) : (u \o v)[x] = v[x - Len(u)]
         /\ \A x \in 1..Len(v) : (u \o v)[Len(u) + x] = v[x]
<1>1. \A x \in 1..Len(v) : Len(u) + x \in Len(u) + 1..Len(u) + Len(v) /\ (Len(u) + x) - Len(u) = x
  OBVIOUS
<1>2. /\ u \o v \in Seq(S) /\ Len(u) \in Nat /\ Len(v) \in Nat
      /\ Len(u \o v) = Len(u) + Len(v)
      /\ \A x \in 1..Len(u) : (u \o v)[x] = u[x]
      /\ \A x \in Len(u) + 1..Len(u) + Len(v) : (u \o v)[x] = v[x - Len(u)]
  OBVIOUS
<1>3. ASSUME NEW x \in 1..Len(v) PROVE (u \o v)[Len(u) + x] = v[x]
  BY <1>1, <1>2
<1> QED BY <1>2, <1>3

\* The tokens that are no marks.
Plains == Words \ {"^"}

\* The request line and the headers, and the rest of a POST.
Heads(q) ==
    <<q.method, q.path, "HTTP/1.1", "CR", "LF">>
    \o HeaderLine("Host", "address") \o HeaderLine("Connection", "Keep-Alive")
    \o <<"CR", "LF">>
Frame(t) == <<"^">> \o t \o <<"^">>

(* Short streams.                                                          *)
LEMMA TwoAre ==
  ASSUME NEW S, NEW a \in S, NEW b \in S
  PROVE  <<a, b>> \in Seq(S)
OBVIOUS

LEMMA FiveAre ==
  ASSUME NEW S, NEW a \in S, NEW b \in S, NEW c \in S, NEW d \in S, NEW e \in S
  PROVE  <<a, b, c, d, e>> \in Seq(S)
OBVIOUS

LEMMA SixAre ==
  ASSUME NEW S, NEW a \in S, NEW b \in S, NEW c \in S, NEW d \in S, NEW e \in S, NEW f \in S
  PROVE  <<a, b, c, d, e, f>> \in Seq(S)
OBVIOUS

(* The line and the headers have no mark.                                  *)
LEMMA HeadsPlain ==
  ASSUME NEW q \in Requests
  PROVE  Heads(q) \in Seq(Plains)
<1>1. q.method \in Plains /\ q.path \in Plains
  <2>1. q.method \in {"GET", "HEAD", "POST"} /\ q.path # "^"
    BY ParserAssumption
  <2> QED BY <2>1 DEF Plains, Words
<1>2. /\ ":" \in Plains /\ " " \in Plains /\ "CR" \in Plains /\ "LF" \in Plains
      /\ "HTTP/1.1" \in Plains /\ "Host" \in Plains /\ "address" \in Plains
      /\ "Connection" \in Plains /\ "Keep-Alive" \in Plains
  BY DEF Plains, Words
<1>3. <<q.method, q.path, "HTTP/1.1", "CR", "LF">> \in Seq(Plains)
  BY <1>1, <1>2, FiveAre, Zenon
<1>4. ASSUME NEW a \in Plains, NEW b \in Plains
      PROVE  HeaderLine(a, b) \in Seq(Plains)
  BY <1>2, SixAre, Zenon DEF HeaderLine
<1>5. HeaderLine("Host", "address") \in Seq(Plains)
      /\ HeaderLine("Connection", "Keep-Alive") \in Seq(Plains)
  BY <1>2, <1>4, Zenon
<1>6. <<"CR", "LF">> \in Seq(Plains)
  BY <1>2, TwoAre, Zenon
<1> QED BY <1>3, <1>5, <1>6, JoinIs, Zenon DEF Heads

(* One more token.                                                         *)
LEMMA AddedIs ==
  ASSUME NEW S, NEW v \in Seq(S), NEW z \in S
  PROVE  /\ v \o <<z>> \in Seq(S) /\ Len(v \o <<z>>) = Len(v) + 1
         /\ \A x \in 1..Len(v) : (v \o <<z>>)[x] = v[x]
         /\ (v \o <<z>>)[Len(v) + 1] = z
OBVIOUS

(* The text of a POST and its marks, place by place.                       *)
LEMMA FrameIs ==
  ASSUME NEW t \in Seq(Words), "LF" \notin ToSet(t)
  PROVE  LET m == Frame(t) IN
         /\ m \in Seq(Words) /\ Len(t) \in Nat /\ Len(m) = Len(t) + 2
         /\ m[1] = "^" /\ m[Len(t) + 2] = "^"
         /\ \A x \in 1..Len(t) : m[x + 1] = t[x]
         /\ \A x \in 1..Len(m) : m[x] # "LF"
<1> DEFINE a == <<"^">>
           v == a \o t
           m == v \o a
<1>1. a \in Seq(Words) /\ Len(a) = 1 /\ a[1] = "^"
  <2>1. "^" \in Words
    BY DEF Words
  <2> QED BY <2>1
<1> HIDE DEF a
<1>2. /\ v \in Seq(Words) /\ Len(t) \in Nat /\ Len(v) = 1 + Len(t)
      /\ v[1] = "^" /\ \A x \in 1..Len(t) : v[1 + x] = t[x]
  <2>1. a \in Seq(Words) /\ t \in Seq(Words)
    BY <1>1
  <2>2. /\ a \o t \in Seq(Words) /\ Len(a) \in Nat /\ Len(t) \in Nat
        /\ Len(a \o t) = Len(a) + Len(t)
        /\ \A x \in 1..Len(a) : (a \o t)[x] = a[x]
        /\ \A x \in 1..Len(t) : (a \o t)[Len(a) + x] = t[x]
    BY ONLY <2>1, JoinIs
  <2> QED BY <1>1, <2>2
<1> HIDE DEF v
<1>3. /\ m \in Seq(Words) /\ Len(m) = Len(t) + 2
      /\ \A x \in 1..Len(t) + 1 : m[x] = v[x]
      /\ m[Len(t) + 2] = "^"
  <2>1. "^" \in Words /\ m = v \o <<"^">>
    BY DEF Words, a
  <2> HIDE DEF m
  <2>2. /\ v \o <<"^">> \in Seq(Words) /\ Len(v \o <<"^">>) = Len(v) + 1
        /\ \A x \in 1..Len(v) : (v \o <<"^">>)[x] = v[x]
        /\ (v \o <<"^">>)[Len(v) + 1] = "^"
    <3>1. v \in Seq(Words) /\ "^" \in Words
      BY <1>2, <2>1
    <3> QED BY ONLY <3>1, AddedIs
  <2>3. /\ m \in Seq(Words) /\ Len(m) = Len(v) + 1
        /\ \A x \in 1..Len(v) : m[x] = v[x]
        /\ m[Len(v) + 1] = "^"
    BY <2>1, <2>2, Zenon
  <2> QED BY <1>2, <2>3
<1> HIDE DEF m
<1>4. m[1] = "^" /\ \A x \in 1..Len(t) : m[x + 1] = t[x]
  BY <1>2, <1>3
<1>5. ASSUME NEW x \in 1..Len(m), m[x] = "LF" PROVE FALSE
  <2>1. x # 1 /\ x # Len(t) + 2
    BY <1>3, <1>4, <1>5
  <2>2. x - 1 \in 1..Len(t) /\ (x - 1) + 1 = x
    BY <1>2, <1>3, <2>1
  <2>3. t[x - 1] = "LF"
    BY <1>4, <1>5, <2>2
  <2> QED BY <2>2, <2>3 DEF ToSet
<1>6. Frame(t) = m
  BY DEF Frame, m, v, a
<1> QED BY <1>2, <1>3, <1>4, <1>5, <1>6

(* Tokens that are no marks do not matter.                                 *)
LEMMA PlainsJoin ==
  ASSUME NEW u \in Seq(Words), NEW v \in Seq(Plains), Framed(u), Paired(u)
  PROVE  u \o v \in Seq(Words) /\ Framed(u \o v) /\ Paired(u \o v)
<1> DEFINE w == u \o v
<1>1. v \in Seq(Words) /\ Len(v) \in Nat /\ \A x \in 1..Len(v) : v[x] # "^"
  <2>1. Plains \subseteq Words /\ "^" \notin Plains
    BY DEF Plains
  <2>2. \A x \in 1..Len(v) : v[x] \in Plains
    OBVIOUS
  <2>3. v \in Seq(Words)
    BY <2>1
  <2> QED BY <2>1, <2>2, <2>3
<1>2. /\ w \in Seq(Words) /\ Len(u) \in Nat /\ Len(w) = Len(u) + Len(v)
      /\ \A x \in 1..Len(u) : w[x] = u[x]
      /\ \A x \in Len(u) + 1..Len(w) : w[x] # "^"
  <2>1. /\ w \in Seq(Words) /\ Len(u) \in Nat /\ Len(w) = Len(u) + Len(v)
        /\ \A x \in 1..Len(u) : w[x] = u[x]
        /\ \A x \in Len(u) + 1..Len(u) + Len(v) : w[x] = v[x - Len(u)]
    BY <1>1, JoinIs
  <2>2. \A x \in Len(u) + 1..Len(u) + Len(v) : x - Len(u) \in 1..Len(v)
    BY <1>1, <2>1
  <2> QED BY <1>1, <2>1, <2>2
<1> HIDE DEF w
<1>3. \A i \in 1..Len(w) : w[i] = "^" => i \in 1..Len(u)
  BY <1>1, <1>2
<1>4. ASSUME NEW s \in 1..Len(w), NEW i \in 1..Len(w), NEW j \in 1..Len(w),
             w[s] = "LF", NextMarks(w, s, i, j)
      PROVE  \E t \in Texts : SubSeq(w, i + 1, j - 1) = UpToMark(t)
  <2>1. s < i /\ i < j /\ w[i] = "^" /\ w[j] = "^"
    BY <1>4 DEF NextMarks
  <2>2. i \in 1..Len(u) /\ j \in 1..Len(u) /\ s \in 1..Len(u)
    BY <1>2, <1>3, <2>1
  <2>3. NextMarks(u, s, i, j) /\ u[s] = "LF"
    <3>1. \A k \in 1..Len(u) : k \in 1..Len(w) /\ u[k] = w[k]
      BY <1>1, <1>2
    <3> QED BY <1>4, <2>2, <3>1 DEF NextMarks
  <2>4. PICK t \in Texts : SubSeq(u, i + 1, j - 1) = UpToMark(t)
    BY <2>2, <2>3 DEF Framed
  <2>5. SubSeq(w, i + 1, j - 1) = SubSeq(u, i + 1, j - 1)
    <3>1. Len(u) <= Len(w)
      BY <1>1, <1>2
    <3> QED BY <1>2, <2>1, <2>2, <3>1, SameCut
  <2> QED BY <2>4, <2>5
<1>5. ASSUME NEW s \in 1..Len(w), NEW i \in 1..Len(w), w[s] = "LF", s < i, w[i] = "^"
      PROVE  \E j, k \in 1..Len(w) : s < j /\ j < k /\ w[j] = "^" /\ w[k] = "^"
  <2>1. s \in 1..Len(u) /\ i \in 1..Len(u) /\ u[s] = "LF" /\ u[i] = "^"
    BY <1>2, <1>3, <1>5
  <2>2. PICK j \in 1..Len(u), k \in 1..Len(u) : s < j /\ j < k /\ u[j] = "^" /\ u[k] = "^"
    BY <1>5, <2>1 DEF Paired
  <2> QED BY <1>1, <1>2, <2>2
<1> QED BY <1>2, <1>4, <1>5 DEF Framed, Paired, w

(* What may be stored of a text: it, or what is before its first mark.     *)
LEMMA UpToMarkIs ==
  ASSUME NEW t \in Seq(Words), NEW y \in 1..Len(t) + 1,
         y <= Len(t) => t[y] = "^", \A x \in 1..y - 1 : t[x] # "^"
  PROVE  UpToMark(t) = SubSeq(t, 1, y - 1)
<1>1. Len(t) \in Nat /\ y \in Nat /\ Places(t, "^") \subseteq Nat
  BY DEF Places
<1>2. CASE y = Len(t) + 1
  <2>1. Places(t, "^") = {}
    BY <1>1, <1>2 DEF Places
  <2>2. SubSeq(t, 1, y - 1) = t
    BY <1>1, <1>2
  <2> QED BY <2>1, <2>2 DEF UpToMark
<1>3. CASE y <= Len(t)
  <2>1. y \in Places(t, "^")
    BY <1>1, <1>3 DEF Places
  <2>2. First(Places(t, "^")) \in Places(t, "^") /\ First(Places(t, "^")) <= y
    BY <1>1, <2>1, FirstIs
  <2>3. First(Places(t, "^")) \in 1..Len(t) /\ t[First(Places(t, "^"))] = "^"
    BY <2>2 DEF Places
  <2>4. First(Places(t, "^")) = y
    BY <1>1, <2>2, <2>3
  <2> QED BY <2>1, <2>4 DEF UpToMark
<1> QED BY <1>1, <1>2, <1>3

(* A text between marks is what may be stored.                             *)
LEMMA FrameJoins ==
  ASSUME NEW u \in Seq(Words), Framed(u), Paired(u),
         NEW t \in Texts, t \in Seq(Words), "LF" \notin ToSet(t)
  PROVE  u \o Frame(t) \in Seq(Words) /\ Framed(u \o Frame(t)) /\ Paired(u \o Frame(t))
<1> DEFINE m == Frame(t)
           w == u \o m
           n == Len(u)
           l == Len(t)
<1>0. n = Len(u) /\ l = Len(t) /\ n \in Nat
  OBVIOUS
<1>1. /\ m \in Seq(Words) /\ l \in Nat /\ Len(m) = l + 2
      /\ m[1] = "^" /\ m[l + 2] = "^"
      /\ \A x \in 1..l : m[x + 1] = t[x]
      /\ \A x \in 1..Len(m) : m[x] # "LF"
  BY FrameIs
<1> HIDE DEF m, n, l
<1>2. /\ w \in Seq(Words) /\ n \in Nat /\ Len(w) = n + l + 2
      /\ \A x \in 1..n : w[x] = u[x]
      /\ w[n + 1] = "^" /\ w[n + l + 2] = "^"
      /\ \A x \in 1..l : w[n + 1 + x] = t[x]
      /\ \A x \in n + 1..n + l + 2 : w[x] # "LF"
  <2>1. /\ w \in Seq(Words) /\ n \in Nat /\ Len(w) = n + Len(m)
        /\ \A x \in 1..n : w[x] = u[x]
        /\ \A x \in n + 1..n + Len(m) : w[x] = m[x - n]
        /\ \A x \in 1..Len(m) : w[n + x] = m[x]
    <3>1. /\ w \in Seq(Words) /\ Len(w) = Len(u) + Len(m)
          /\ \A x \in 1..Len(u) : w[x] = u[x]
          /\ \A x \in Len(u) + 1..Len(u) + Len(m) : w[x] = m[x - Len(u)]
          /\ \A x \in 1..Len(m) : w[Len(u) + x] = m[x]
      <4>1. u \in Seq(Words) /\ m \in Seq(Words)
        BY <1>1
      <4> QED BY ONLY <4>1, JoinIs
    <3> HIDE DEF w
    <3> QED BY <1>0, <3>1
  <2> HIDE DEF w
  <2>2. w[n + 1] = "^" /\ w[n + (l + 2)] = "^" /\ n + (l + 2) = n + l + 2
    BY <1>1, <2>1
  <2>3. ASSUME NEW x \in 1..l PROVE w[n + 1 + x] = t[x]
    <3>1. x + 1 \in 1..Len(m) /\ n + (x + 1) = n + 1 + x
      BY <1>1, <2>1
    <3>2. w[n + (x + 1)] = m[x + 1]
      BY <2>1, <3>1
    <3> QED BY <1>1, <3>1, <3>2
  <2>4. ASSUME NEW x \in n + 1..n + l + 2 PROVE w[x] # "LF"
    <3>1. x - n \in 1..Len(m)
      BY <1>1, <2>1
    <3> QED BY <1>1, <2>1, <3>1
  <2> QED BY <1>1, <2>1, <2>2, <2>3, <2>4
<1> HIDE DEF w
<1>3. ASSUME NEW s \in 1..Len(w), NEW i \in 1..Len(w), NEW j \in 1..Len(w),
             w[s] = "LF", NextMarks(w, s, i, j)
      PROVE  \E x \in Texts : SubSeq(w, i + 1, j - 1) = UpToMark(x)
  <2>1. /\ s < i /\ i < j /\ w[i] = "^" /\ w[j] = "^" /\ s \in 1..n /\ u[s] = "LF"
        /\ \A k \in 1..Len(w) : s < k /\ k < j /\ w[k] = "^" => k = i
    BY <1>1, <1>2, <1>3 DEF NextMarks
  <2>2. CASE j <= n
    <3>1. i \in 1..n /\ j \in 1..n /\ \A k \in 1..n : k \in 1..Len(w) /\ u[k] = w[k]
      BY <1>1, <1>2, <2>1, <2>2
    <3>2. NextMarks(u, s, i, j)
      BY <1>0, <2>1, <3>1 DEF NextMarks
    <3>3. PICK x \in Texts : SubSeq(u, i + 1, j - 1) = UpToMark(x)
      BY <1>0, <2>1, <3>1, <3>2 DEF Framed
    <3>4. SubSeq(w, i + 1, j - 1) = SubSeq(u, i + 1, j - 1)
      <4>1. Len(u) <= Len(w) /\ i \in 1..Len(u) /\ j \in 1..Len(u) /\ \A k \in 1..Len(u) : w[k] = u[k]
        BY <1>0, <1>1, <1>2, <3>1
      <4> HIDE DEF n
      <4>2. i < j /\ w \in Seq(Words)
        BY <1>2, <2>1
      <4> QED BY <4>1, <4>2, SameCut
    <3> QED BY <3>3, <3>4
  <2>3. CASE i <= n /\ n < j
    <3>1. i \in 1..n /\ u[i] = "^"
      BY <1>2, <2>1, <2>3
    <3>2. PICK k \in 1..n, h \in 1..n : s < k /\ k < h /\ u[k] = "^" /\ u[h] = "^"
      BY <1>0, <2>1, <3>1 DEF Paired
    <3>3. k \in 1..Len(w) /\ h \in 1..Len(w) /\ k < j /\ h < j /\ w[k] = "^" /\ w[h] = "^" /\ s < h
      BY <1>1, <1>2, <2>1, <2>3, <3>2
    <3>4. k = i /\ h = i
      BY <2>1, <3>2, <3>3
    <3> QED BY <3>2, <3>4
  <2>4. CASE n < i
    <3>1. i = n + 1
      <4>1. n + 1 \in 1..Len(w) /\ s < n + 1 /\ n + 1 < j
        BY <1>1, <1>2, <2>1, <2>4
      <4> QED BY <1>2, <2>1, <4>1
    <3> DEFINE y == j - (n + 1)
    <3>2. y \in 1..l + 1 /\ n + 1 + y = j /\ y \in Nat
      BY <1>1, <1>2, <2>1, <3>1
    <3>3. ASSUME y <= l PROVE t[y] = "^"
      <4>1. y \in 1..l
        BY <1>1, <3>2, <3>3
      <4> QED BY <1>2, <2>1, <3>2, <4>1
    <3>4. ASSUME NEW x \in 1..y - 1, t[x] = "^" PROVE FALSE
      <4>1. x \in 1..l /\ n + 1 + x \in 1..Len(w) /\ s < n + 1 + x /\ n + 1 + x < j /\ n + 1 + x # i
        BY <1>1, <1>2, <2>1, <3>1, <3>2
      <4>2. w[n + 1 + x] = "^"
        BY <1>2, <3>4, <4>1
      <4> QED BY <2>1, <4>1, <4>2
    <3> HIDE DEF y
    <3>5. UpToMark(t) = SubSeq(t, 1, y - 1)
      BY <1>0, <3>2, <3>3, <3>4, UpToMarkIs
    <3>6. SubSeq(w, i + 1, j - 1) = SubSeq(t, 1, y - 1)
      <4>1. /\ i + 1 \in 1..Len(w) + 1 /\ j - 1 \in 0..Len(w) /\ i + 1 <= (j - 1) + 1
            /\ (j - 1) - (i + 1) + 1 = y - 1 /\ y - 1 \in 0..l
        BY <1>1, <1>2, <2>1, <3>1, <3>2
      <4> DEFINE c == SubSeq(w, i + 1, j - 1)
                 d == SubSeq(t, 1, y - 1)
      <4>2. /\ c \in Seq(Words) /\ Len(c) = y - 1
            /\ \A x \in 1..y - 1 : c[x] = w[x + (i + 1) - 1]
        BY <1>2, <4>1, CutIs
      <4>3. d \in Seq(Words) /\ Len(d) = y - 1 /\ \A x \in 1..y - 1 : d[x] = t[x]
        BY <1>0, <4>1
      <4> HIDE DEF c, d
      <4>4. ASSUME NEW x \in 1..y - 1 PROVE c[x] = d[x]
        <5>1. x + (i + 1) - 1 = n + 1 + x /\ x \in 1..l
          BY <1>1, <1>2, <3>1, <3>2
        <5> QED BY <1>2, <4>2, <4>3, <5>1
      <4>5. c = d
        BY <4>2, <4>3, <4>4, SeqEqual
      <4> QED BY <4>5 DEF c, d
    <3> QED BY <3>5, <3>6
  <2> QED BY <1>0, <2>2, <2>3, <2>4
<1>4. ASSUME NEW s \in 1..Len(w), NEW i \in 1..Len(w), w[s] = "LF", s < i, w[i] = "^"
      PROVE  \E j, k \in 1..Len(w) : s < j /\ j < k /\ w[j] = "^" /\ w[k] = "^"
  <2>1. n + 1 \in 1..Len(w) /\ n + l + 2 \in 1..Len(w) /\ s < n + 1 /\ n + 1 < n + l + 2
    BY <1>1, <1>2, <1>4
  <2> QED BY <1>2, <2>1
<1> QED BY <1>2, <1>3, <1>4 DEF Framed, Paired, w, m

(* What a text is made of.                                                 *)
LEMMA TextIs ==
  ASSUME NEW q \in Requests
  PROVE  q.text \in Seq(Words) /\ "LF" \notin ToSet(q.text)
<1>1. q.text \in Seq(STRING) /\ "LF" \notin ToSet(q.text)
  BY ParserAssumption
<1>2. \A x \in 1..Len(q.text) : q.text[x] \in Words
  <2>1. \A x \in 1..Len(q.text) : q.text[x] \in ToSet(q.text)
    BY <1>1 DEF ToSet
  <2> QED BY <2>1 DEF Words
<1>3. Len(q.text) \in Nat /\ q.text = [x \in 1..Len(q.text) |-> q.text[x]]
  BY <1>1
<1> QED BY <1>1, <1>2, <1>3, IsASeq

(* The client's request keeps a stream framed and paired.                  *)
LEMMA EncodeJoins ==
  ASSUME NEW u \in Seq(Words), Framed(u), Paired(u), NEW q \in Requests
  PROVE  /\ Encode(q) \in Seq(Words) /\ u \o Encode(q) \in Seq(Words)
         /\ Framed(u \o Encode(q)) /\ Paired(u \o Encode(q))
<1> DEFINE h == Heads(q)
           f == IF q.method = "POST" THEN Frame(q.text) ELSE <<>>
<1>1. h \in Seq(Plains) /\ h \in Seq(Words)
  <2>1. h \in Seq(Plains)
    BY HeadsPlain
  <2>2. Plains \subseteq Words
    BY DEF Plains
  <2> HIDE DEF h
  <2> QED BY <2>1, <2>2
<1>2. Encode(q) = h \o f
  BY DEF Encode, Heads, Frame
<1>3. q.text \in Seq(Words) /\ "LF" \notin ToSet(q.text)
  BY TextIs
<1>4. f \in Seq(Words)
  BY <1>3, FrameIs
<1> HIDE DEF h
<1>5. u \o h \in Seq(Words) /\ Framed(u \o h) /\ Paired(u \o h)
  BY <1>1, PlainsJoin
<1>6. CASE q.method = "POST"
  <2>1. q.text \in Texts
    BY <1>6 DEF Texts
  <2>2. f = Frame(q.text)
    BY <1>6
  <2>3. (u \o h) \o f \in Seq(Words) /\ Framed((u \o h) \o f) /\ Paired((u \o h) \o f)
    BY <1>3, <1>5, <2>1, <2>2, FrameJoins
  <2> HIDE DEF f
  <2>4. (u \o h) \o f = u \o Encode(q) /\ Encode(q) \in Seq(Words)
    BY <1>1, <1>2, <1>4
  <2> QED BY <2>3, <2>4
<1>7. CASE q.method # "POST"
  <2>1. Encode(q) = h
    BY <1>1, <1>2, <1>7
  <2> QED BY <1>1, <1>5, <2>1
<1> QED BY <1>6, <1>7

-----------------------------------------------------------------------------
(* The loop of parseHeaders.                                               *)

LoopStates == [h : HStates, i : Nat, line : Nat, name : Seq(Words), keep : BOOLEAN,
               end : {"no", "error", "body"}]

LoopStart(h) ==
    [h |-> h, i |-> 1, line |-> 1, name |-> <<>>, keep |-> keepHeader, end |-> "no"]

LoopStep(s, tok) == IF s.end = "no" THEN Round(s, tok) ELSE s

(* After k rounds: when the headers have ended, the end of a line was the  *)
(* last token, or the one before.                                          *)
LoopInv(b, k, s) ==
    /\ s \in LoopStates
    /\ s.line \in 1..k + 1
    /\ s.end = "no" =>
         /\ s.i = k + 1
         /\ s.h = "endlf" => k >= 1 /\ b[k] = "LF"
    /\ s.end = "body" => s.i - 2 \in 1..k /\ s.i <= k + 1 /\ b[s.i - 2] = "LF"

(* The recursive function of the loop has a value.                         *)
LEMMA LoopExists ==
  ASSUME NEW b \in Seq(Words), NEW h
  PROVE  \E f : f = [k \in 0..Len(b) |-> IF k = 0 THEN LoopStart(h)
                                         ELSE LoopStep(f[k - 1], b[k])]
<1> DEFINE e(f, k) == IF k = 0 THEN LoopStart(h) ELSE LoopStep(f[k - 1], b[k])
           P(n) == \E f : f = [k \in 0..n |-> e(f, k)]
           Bad == {n \in 0..Len(b) : ~P(n)}
<1>1. SUFFICES ASSUME Bad # {} PROVE FALSE
  OBVIOUS
<1>2. PICK n \in Bad : \A x \in Bad : n <= x
  <2>1. Bad \subseteq Nat
    OBVIOUS
  <2> HIDE DEF Bad
  <2> QED BY <1>1, <2>1, LeastExists
<1>3. n \in 0..Len(b) /\ ~P(n) /\ Len(b) \in Nat /\ n \in Nat
  OBVIOUS
<1>4. CASE n = 0
  <2> DEFINE f == [k \in {0} |-> LoopStart(h)]
  <2>1. 0..0 = {0}
    OBVIOUS
  <2>2. f = [k \in 0..0 |-> e(f, k)]
    BY <2>1
  <2> QED BY <1>3, <1>4, <2>2
<1>5. CASE n # 0
  <2>1. n - 1 \in 0..Len(b) /\ n - 1 \notin Bad
    <3>1. n - 1 \in 0..Len(b) /\ ~(n <= n - 1)
      BY <1>3, <1>5
    <3> HIDE DEF Bad
    <3> QED BY <1>2, <3>1
  <2>2. PICK f : f = [k \in 0..n - 1 |-> e(f, k)]
    BY <2>1
  <2> DEFINE g == [k \in 0..n |-> IF k = n THEN LoopStep(f[n - 1], b[n]) ELSE f[k]]
  <2>3. ASSUME NEW k \in 0..n PROVE g[k] = e(g, k)
    <3>1. CASE k = n
      <4>1. g[k - 1] = f[k - 1]
        BY <1>3, <1>5, <3>1
      <4> QED BY <1>5, <3>1, <4>1
    <3>2. CASE k # n
      <4>1. k \in 0..n - 1 /\ g[k] = f[k] /\ f[k] = e(f, k)
        BY <1>3, <2>2, <3>2
      <4>2. k # 0 => g[k - 1] = f[k - 1]
        BY <1>3, <3>2
      <4> QED BY <4>1, <4>2
    <3> QED BY <3>1, <3>2
  <2>4. g = [k \in 0..n |-> e(g, k)]
    BY <2>3
  <2> QED BY <1>3, <2>4
<1> QED BY <1>4, <1>5

\* What a round makes of a state in which the headers have not ended.
Becomes(s, tok, r) ==
    /\ r \in LoopStates /\ r.line \in {s.line, s.i} /\ r.i \in {s.i, s.i + 1}
    /\ r.end = "no" => r.i = s.i + 1
    /\ r.end = "no" /\ r.h = "endlf" => tok = "LF"
    /\ r.end = "body" => s.h = "endlf" /\ r.i = s.i + 1

(* Each way a round can end.                                               *)
LEMMA RoundBecomes ==
  ASSUME NEW s \in LoopStates, s.end = "no", NEW tok \in Words
  PROVE  Becomes(s, tok, Round(s, tok))
<1> DEFINE at(h) == [s EXCEPT !.h = h, !.i = @ + 1]
           named(n) == [at("key") EXCEPT !.name = n]
           begun == [at("key") EXCEPT !.name = <<tok>>, !.line = s.i]
           ended == [at("lf") EXCEPT !.keep = @ \/ s.name = <<"Connection">>,
                                     !.name = <<>>, !.line = s.i]
           body == [at("endlf") EXCEPT !.end = "body"]
           bad == [s EXCEPT !.end = "error"]
           newline == tok \in {"CR", "LF"}
           key == IF s.name = <<>> THEN s.name ELSE Append(s.name, tok)
<1>1. /\ s.h \in HStates /\ s.i \in Nat /\ s.line \in Nat /\ s.name \in Seq(Words)
      /\ s.keep \in BOOLEAN /\ <<tok>> \in Seq(Words) /\ <<>> \in Seq(Words)
      /\ key \in Seq(Words)
  BY DEF LoopStates
<1>2. ASSUME NEW h \in HStates
      PROVE  /\ at(h) \in LoopStates
             /\ at(h).h = h /\ at(h).i = s.i + 1 /\ at(h).line = s.line
             /\ at(h).keep = s.keep /\ at(h).end = "no"
  <2> DEFINE j == s.i + 1
  <2>1. j \in Nat
    BY <1>1
  <2>2. at(h) = [s EXCEPT !.h = h, !.i = j]
    OBVIOUS
  <2> HIDE DEF j, at
  <2>3. at(h) \in LoopStates /\ at(h).h = h /\ at(h).i = j
    BY <2>1, <2>2 DEF LoopStates
  <2>4. at(h).line = s.line /\ at(h).keep = s.keep /\ at(h).end = "no"
    BY <2>2 DEF LoopStates
  <2> QED BY <2>3, <2>4 DEF j
<1>3. ASSUME NEW n \in Seq(Words)
      PROVE  /\ named(n) \in LoopStates
             /\ named(n).h = "key" /\ named(n).i = s.i + 1 /\ named(n).line = s.line
             /\ named(n).end = "no"
  <2> DEFINE a == at("key")
  <2>1. a \in LoopStates /\ a.h = "key" /\ a.i = s.i + 1 /\ a.line = s.line /\ a.end = "no"
    BY <1>2 DEF HStates
  <2> HIDE DEF at
  <2> QED BY <2>1 DEF LoopStates
<1>4. /\ begun \in LoopStates
      /\ begun.h = "key" /\ begun.i = s.i + 1 /\ begun.line = s.i /\ begun.end = "no"
  <2> DEFINE a == at("key")
  <2>1. a \in LoopStates /\ a.h = "key" /\ a.i = s.i + 1 /\ a.end = "no"
    BY <1>2 DEF HStates
  <2> HIDE DEF at
  <2> QED BY <1>1, <2>1 DEF LoopStates
<1>5. /\ ended \in LoopStates
      /\ ended.h = "lf" /\ ended.i = s.i + 1 /\ ended.line = s.i /\ ended.end = "no"
  <2> DEFINE a == at("lf")
             k == a.keep \/ s.name = <<"Connection">>
  <2>1. a \in LoopStates /\ a.h = "lf" /\ a.i = s.i + 1 /\ a.end = "no" /\ k \in BOOLEAN
    BY <1>2 DEF HStates
  <2>2. ended = [a EXCEPT !.keep = k, !.name = <<>>, !.line = s.i]
    OBVIOUS
  <2> HIDE DEF at, k, ended
  <2> QED BY <1>1, <2>1, <2>2 DEF LoopStates
<1>6. body \in LoopStates /\ body.i = s.i + 1 /\ body.line = s.line /\ body.end = "body"
  <2> DEFINE a == at("endlf")
  <2>1. a \in LoopStates /\ a.i = s.i + 1 /\ a.line = s.line
    BY <1>2 DEF HStates
  <2> HIDE DEF at
  <2> QED BY <2>1 DEF LoopStates
<1>7. bad \in LoopStates /\ bad.i = s.i /\ bad.line = s.line /\ bad.end = "error"
  BY DEF LoopStates
<1> HIDE DEF at, named, begun, ended, body, bad, key
<1>9. ASSUME NEW h \in HStates, h = "endlf" => tok = "LF" PROVE Becomes(s, tok, at(h))
  BY <1>2, <1>9 DEF Becomes
<1>10. ASSUME NEW n \in Seq(Words) PROVE Becomes(s, tok, named(n))
  BY <1>3 DEF Becomes
<1>11. Becomes(s, tok, begun) /\ Becomes(s, tok, ended)
  BY <1>4, <1>5 DEF Becomes
<1>12. Becomes(s, tok, bad) /\ (s.h = "endlf" => Becomes(s, tok, body))
  BY <1>6, <1>7 DEF Becomes
<1>13. CASE s.h = "start"
  <2>1. Round(s, tok) = IF newline THEN at("start") ELSE begun
    BY <1>13 DEF Round, at, begun
  <2> QED BY <1>9, <1>11, <2>1 DEF HStates
<1>14. CASE s.h = "key"
  <2>1. Round(s, tok) = IF tok = ":" THEN at("colon") ELSE IF newline THEN bad ELSE named(key)
    BY <1>14 DEF Round, at, bad, named, key
  <2> QED BY <1>1, <1>9, <1>10, <1>12, <2>1 DEF HStates
<1>15. CASE s.h = "colon"
  <2>1. Round(s, tok) = IF tok = " " THEN at("space") ELSE bad
    BY <1>15 DEF Round, at, bad
  <2> QED BY <1>9, <1>12, <2>1 DEF HStates
<1>16. CASE s.h = "space"
  <2>1. Round(s, tok) = at("value")
    BY <1>16 DEF Round, at
  <2> QED BY <1>9, <2>1 DEF HStates
<1>17. CASE s.h = "value"
  <2>1. Round(s, tok) = IF tok = "CR" THEN at("cr") ELSE at("value")
    BY <1>17 DEF Round, at
  <2> QED BY <1>9, <2>1 DEF HStates
<1>18. CASE s.h = "cr"
  <2>1. Round(s, tok) = IF tok = "LF" THEN ended ELSE bad
    BY <1>18 DEF Round, at, ended, bad
  <2> QED BY <1>11, <1>12, <2>1
<1>19. CASE s.h = "lf"
  <2>1. Round(s, tok) = IF tok = "CR" THEN at("endcr") ELSE named(<<tok>>)
    BY <1>19 DEF Round, at, named
  <2> QED BY <1>1, <1>9, <1>10, <2>1 DEF HStates
<1>20. CASE s.h = "endcr"
  <2>1. Round(s, tok) = IF tok = "LF" THEN at("endlf") ELSE bad
    BY <1>20 DEF Round, at, bad
  <2> QED BY <1>9, <1>12, <2>1 DEF HStates
<1>21. CASE s.h = "endlf"
  <2>1. Round(s, tok) = body
    BY <1>21 DEF Round, at, body
  <2> QED BY <1>12, <1>21, <2>1
<1> QED BY <1>1, <1>13, <1>14, <1>15, <1>16, <1>17, <1>18, <1>19, <1>20, <1>21 DEF HStates

(* A round keeps the invariant.                                            *)
LEMMA RoundKeeps ==
  ASSUME NEW b \in Seq(Words), NEW k \in 1..Len(b), NEW s, LoopInv(b, k - 1, s)
  PROVE  LoopInv(b, k, LoopStep(s, b[k]))
<1> DEFINE tok == b[k]
           r == Round(s, tok)
<1>1. s \in LoopStates /\ s.i \in Nat /\ s.line \in 1..k /\ tok \in Words /\ k \in Nat
  BY DEF LoopInv, LoopStates
<1>2. CASE s.end # "no"
  <2>1. LoopStep(s, tok) = s
    BY <1>2 DEF LoopStep
  <2> QED BY <1>1, <1>2, <2>1 DEF LoopInv
<1>3. CASE s.end = "no"
  <2>1. s.i = k /\ LoopStep(s, tok) = r /\ (s.h = "endlf" => k - 1 >= 1 /\ b[k - 1] = "LF")
    BY <1>1, <1>3 DEF LoopInv, LoopStep
  <2> HIDE DEF r
  <2>2. Becomes(s, tok, r)
    BY <1>1, <1>3, RoundBecomes DEF r
  <2>3. r \in LoopStates /\ r.i \in Nat /\ r.line \in 1..k + 1
    BY <1>1, <2>1, <2>2 DEF Becomes
  <2>4. r.end = "no" => r.i = k + 1 /\ (r.h = "endlf" => k >= 1 /\ b[k] = "LF")
    BY <1>1, <2>1, <2>2 DEF Becomes
  <2>5. r.end = "body" => r.i - 2 \in 1..k /\ r.i <= k + 1 /\ b[r.i - 2] = "LF"
    <3>1. SUFFICES ASSUME r.end = "body" PROVE r.i = k + 1 /\ k - 1 >= 1 /\ b[k - 1] = "LF"
      BY <1>1, <2>3
    <3> QED BY <2>1, <2>2, <3>1 DEF Becomes
  <2> QED BY <2>1, <2>3, <2>4, <2>5 DEF LoopInv
<1> QED BY <1>2, <1>3

(* The loop, round by round.                                               *)
LEMMA LoopIs ==
  ASSUME NEW b \in Seq(Words), NEW h \in HStates \ {"endlf"}, keepHeader \in BOOLEAN
  PROVE  \E f : /\ Loop(b, h) = f[Len(b)] /\ f[0] = LoopStart(h)
                /\ \A k \in 1..Len(b) : f[k] = LoopStep(f[k - 1], b[k])
                /\ \A k \in 0..Len(b) : LoopInv(b, k, f[k])
<1> DEFINE E(f) == f = [k \in 0..Len(b) |-> IF k = 0 THEN LoopStart(h) ELSE LoopStep(f[k - 1], b[k])]
           f == CHOOSE g : E(g)
<1>1. Loop(b, h) = f[Len(b)]
  BY DEF Loop, LoopStart, LoopStep
<1>2. E(f)
  <2>1. \E g : E(g)
    BY LoopExists
  <2> HIDE DEF E
  <2> QED BY <2>1
<1> HIDE DEF f
<1>3. Len(b) \in Nat /\ f[0] = LoopStart(h)
      /\ \A k \in 1..Len(b) : f[k] = LoopStep(f[k - 1], b[k])
  BY <1>2
<1> HIDE DEF E
<1>4. \A k \in 0..Len(b) : LoopInv(b, k, f[k])
  <2> DEFINE G == {k \in 0..Len(b) : LoopInv(b, k, f[k])}
  <2>1. 0 \in G
    <3>1. LoopStart(h) \in LoopStates
      BY DEF LoopStart, LoopStates
    <3>2. LoopInv(b, 0, LoopStart(h))
      BY <3>1 DEF LoopInv, LoopStart
    <3> QED BY <1>3, <3>2
  <2>2. ASSUME NEW k \in 1..Len(b), k - 1 \in G PROVE k \in G
    <3>1. LoopInv(b, k - 1, f[k - 1]) /\ k \in 0..Len(b)
      BY <1>3, <2>2
    <3>2. LoopInv(b, k, LoopStep(f[k - 1], b[k]))
      BY <3>1, RoundKeeps
    <3> QED BY <1>3, <3>1, <3>2
  <2> HIDE DEF G
  <2>3. \A k \in 0..Len(b) : k \in G
    BY <1>3, <2>1, <2>2, NumberInduction
  <2> QED BY <2>3 DEF G
<1> QED BY <1>1, <1>3, <1>4

(* So that the invariant holds at the end of the loop.                     *)
LEMMA LoopEnds ==
  ASSUME NEW b \in Seq(Words), NEW h \in HStates \ {"endlf"}, keepHeader \in BOOLEAN
  PROVE  LoopInv(b, Len(b), Loop(b, h))
<1>1. Len(b) \in 0..Len(b)
  OBVIOUS
<1> QED BY <1>1, LoopIs

-----------------------------------------------------------------------------
(* What handleRead takes of the stream.                                    *)

(* What was read is the front of the stream; the rest stays.               *)
LEMMA TakenIs ==
  ASSUME buf \in Seq(Words), wire \in Seq(Words), NEW n \in 1..Len(wire)
  PROVE  /\ Unread \in Seq(Words) /\ Len(buf) \in Nat /\ Len(Unread) = Len(buf) + Len(wire)
         /\ Taken(n) = SubSeq(Unread, 1, Len(buf) + n)
         /\ \A a \in 1..Len(buf) + n + 1 :
              SubSeq(Unread, a, Len(buf) + n) \o SubSeq(wire, n + 1, Len(wire))
                = SubSeq(Unread, a, Len(Unread))
<1> DEFINE m == Len(buf)
           l == Len(wire)
           u == Unread
           c == m + n
<1>1. /\ u \in Seq(Words) /\ m \in Nat /\ l \in Nat /\ Len(u) = m + l /\ n \in 1..l
      /\ \A x \in 1..m : u[x] = buf[x]
      /\ \A x \in m + 1..m + l : u[x] = wire[x - m]
  BY JoinIs DEF Unread
<1>2. Taken(n) = SubSeq(u, 1, c)
  <2> DEFINE v == SubSeq(wire, 1, n)
             t == buf \o v
             z == SubSeq(u, 1, c)
  <2>1. v \in Seq(Words) /\ Len(v) = n /\ \A x \in 1..n : v[x] = wire[x]
    OBVIOUS
  <2> HIDE DEF v
  <2>2. /\ t \in Seq(Words) /\ Len(t) = c /\ \A x \in 1..m : t[x] = buf[x]
        /\ \A x \in m + 1..c : t[x] = v[x - m]
    <3>1. buf \in Seq(Words) /\ v \in Seq(Words)
      BY <2>1
    <3>2. /\ t \in Seq(Words) /\ Len(t) = Len(buf) + Len(v) /\ \A x \in 1..Len(buf) : t[x] = buf[x]
          /\ \A x \in Len(buf) + 1..Len(buf) + Len(v) : t[x] = v[x - Len(buf)]
      BY ONLY <3>1, JoinIs
    <3> HIDE DEF t
    <3> QED BY <2>1, <3>2
  <2>3. z \in Seq(Words) /\ Len(z) = c /\ \A x \in 1..c : z[x] = u[x]
    BY <1>1
  <2> HIDE DEF t, z, u, l
  <2>4. ASSUME NEW x \in 1..c PROVE t[x] = z[x]
    <3>1. CASE x \in 1..m
      BY <1>1, <2>2, <2>3, <3>1
    <3>2. CASE x \in m + 1..c
      <4>1. x - m \in 1..n /\ x \in m + 1..m + l
        BY <1>1, <3>2
      <4> QED BY <1>1, <2>1, <2>2, <2>3, <3>2, <4>1
    <3> QED BY <1>1, <3>1, <3>2
  <2>5. t = z
    BY <2>2, <2>3, <2>4, SeqEqual
  <2> QED BY <2>5 DEF Taken, t, z, v
<1>3. ASSUME NEW a \in 1..c + 1
      PROVE  SubSeq(u, a, c) \o SubSeq(wire, n + 1, l) = SubSeq(u, a, Len(u))
  <2> DEFINE v == SubSeq(u, a, c)
             w == SubSeq(wire, n + 1, l)
             t == v \o w
             z == SubSeq(u, a, Len(u))
  <2>0. /\ u \in Seq(Words) /\ a \in 1..Len(u) + 1 /\ c \in 0..Len(u) /\ a <= c + 1
        /\ Len(u) \in 0..Len(u) /\ a <= Len(u) + 1
    <3> HIDE DEF u
    <3> QED BY <1>1
  <2>1. v \in Seq(Words) /\ Len(v) = c - a + 1 /\ \A x \in 1..c - a + 1 : v[x] = u[x + a - 1]
    BY ONLY <2>0, CutIs
  <2>2. w \in Seq(Words) /\ Len(w) = l - n /\ \A x \in 1..l - n : w[x] = wire[x + n]
    <3>1. /\ w \in Seq(Words) /\ Len(w) = l - (n + 1) + 1
          /\ \A x \in 1..l - (n + 1) + 1 : w[x] = wire[x + (n + 1) - 1]
      BY <1>1, CutIs
    <3>2. l - (n + 1) + 1 = l - n /\ \A x \in 1..l - n : x + (n + 1) - 1 = x + n
      BY <1>1
    <3> QED BY <3>1, <3>2
  <2>3. /\ z \in Seq(Words) /\ Len(z) = m + l - a + 1
        /\ \A x \in 1..m + l - a + 1 : z[x] = u[x + a - 1]
    <3>1. /\ z \in Seq(Words) /\ Len(z) = Len(u) - a + 1
          /\ \A x \in 1..Len(u) - a + 1 : z[x] = u[x + a - 1]
      BY ONLY <2>0, CutIs
    <3> HIDE DEF z, u, l, m
    <3> QED BY <1>1, <3>1
  <2> HIDE DEF v, w, u, l
  <2>4. /\ t \in Seq(Words) /\ Len(t) = m + l - a + 1
        /\ \A x \in 1..c - a + 1 : t[x] = v[x]
        /\ \A x \in c - a + 2..m + l - a + 1 : t[x] = w[x - (c - a + 1)]
    <3>1. /\ t \in Seq(Words) /\ Len(t) = Len(v) + Len(w)
          /\ \A x \in 1..Len(v) : t[x] = v[x]
          /\ \A x \in Len(v) + 1..Len(v) + Len(w) : t[x] = w[x - Len(v)]
      <4>1. v \in Seq(Words) /\ w \in Seq(Words)
        BY <2>1, <2>2
      <4> QED BY ONLY <4>1, JoinIs
    <3> HIDE DEF t
    <3>2. Len(v) = c - a + 1 /\ Len(v) + 1 = c - a + 2 /\ Len(v) + Len(w) = m + l - a + 1
      BY <1>1, <2>1, <2>2
    <3> QED BY <3>1, <3>2
  <2> HIDE DEF t, z
  <2>5. ASSUME NEW x \in 1..m + l - a + 1 PROVE t[x] = z[x]
    <3>1. CASE x \in 1..c - a + 1
      BY <1>1, <2>1, <2>3, <2>4, <3>1
    <3>2. CASE x \in c - a + 2..m + l - a + 1
      <4>1. /\ x - (c - a + 1) \in 1..l - n
            /\ (x - (c - a + 1)) + n = (x + a - 1) - m
            /\ x + a - 1 \in m + 1..m + l
        BY <1>1, <3>2
      <4>2. t[x] = wire[(x - (c - a + 1)) + n]
        BY <2>2, <2>4, <3>2, <4>1
      <4>3. z[x] = wire[(x + a - 1) - m]
        BY <1>1, <2>3, <4>1
      <4> QED BY <4>1, <4>2, <4>3
    <3> QED BY <1>1, <3>1, <3>2
  <2>6. t = z
    BY <2>3, <2>4, <2>5, SeqEqual
  <2> QED BY <2>6 DEF t, z, v, w
<1> QED BY <1>1, <1>2, <1>3

(* The text behind the request line begins in front of its line feed.      *)
LEMMA AfterLineIs ==
  ASSUME NEW b \in Seq(Words)
  PROVE  \E a \in 1..Len(b) + 1 :
           /\ AfterLine(b) = SubSeq(b, a, Len(b))
           /\ a = 1 \/ (a - 1 \in LineEnds(b) /\ \A x \in LineEnds(b) : a - 1 <= x)
<1>1. CASE LineEnds(b) = {}
  <2>1. 1 \in 1..Len(b) + 1 /\ SubSeq(b, 1, Len(b)) = b
    OBVIOUS
  <2> QED BY <1>1, <2>1 DEF AfterLine
<1>2. CASE LineEnds(b) # {}
  <2> DEFINE m == First(LineEnds(b))
             a == m + 1
  <2>1. LineEnds(b) \subseteq 1..Len(b) - 1 /\ Len(b) \in Nat
    BY DEF LineEnds
  <2>2. m \in LineEnds(b) /\ \A x \in LineEnds(b) : m <= x
    BY <1>2, <2>1, FirstIs
  <2>3. AfterLine(b) = SubSeq(b, a, Len(b))
    BY <1>2 DEF AfterLine
  <2> HIDE DEF m
  <2>4. a \in 1..Len(b) + 1 /\ a - 1 = m
    BY <2>1, <2>2
  <2> QED BY <2>2, <2>3, <2>4
<1> QED BY <1>1, <1>2

(* The text that parseHeaders gets is the stream from some place on: from  *)
(* the start, or from the line feed of the first line.                     *)
LEMMA RestIs ==
  ASSUME ParserInv, NEW n \in 1..Len(wire)
  PROVE  LET c == Len(buf) + n IN
         /\ c \in 0..Len(Unread) /\ Unread \in Seq(Words) /\ Rest(n) \in Seq(Words)
         /\ \E a \in 1..c + 1 :
              /\ Rest(n) = SubSeq(Unread, a, c) /\ Len(Rest(n)) = c - a + 1
              /\ a = 1 \/ (/\ NoLine /\ a - 1 \in LineEnds(Taken(n))
                           /\ \A x \in LineEnds(Taken(n)) : a - 1 <= x)
<1> DEFINE c == Len(buf) + n
           b == Taken(n)
<1>1. /\ Unread \in Seq(Words) /\ c \in 0..Len(Unread) /\ c \in Nat /\ Len(Unread) \in Nat
      /\ b = SubSeq(Unread, 1, c)
  <2>1. buf \in Seq(Words) /\ wire \in Seq(Words)
    BY DEF ParserInv
  <2>2. /\ Unread \in Seq(Words) /\ Len(buf) \in Nat /\ Len(Unread) = Len(buf) + Len(wire)
        /\ Taken(n) = SubSeq(Unread, 1, Len(buf) + n)
    BY <2>1, TakenIs
  <2>3. Len(wire) \in Nat
    BY <2>1
  <2> QED BY <2>2, <2>3
<1> HIDE DEF c
<1>2. b \in Seq(Words) /\ Len(b) = c
  BY <1>1
<1> HIDE DEF b
<1>3. PICK d \in 1..c + 1 :
        /\ Rest(n) = SubSeq(b, d, c)
        /\ d = 1 \/ (NoLine /\ d - 1 \in LineEnds(b) /\ \A x \in LineEnds(b) : d - 1 <= x)
  <2>1. CASE NoLine
    <3>1. Rest(n) = AfterLine(b)
      BY <2>1 DEF Rest, b
    <3> QED BY <1>2, <2>1, <3>1, AfterLineIs
  <2>2. CASE ~NoLine
    <3>1. 1 \in 1..c + 1 /\ SubSeq(b, 1, c) = b
      BY <1>1, <1>2
    <3> QED BY <2>2, <3>1 DEF Rest, b
  <2> QED BY <2>1, <2>2
<1>4. SubSeq(b, d, c) = SubSeq(Unread, d, c)
  <2>1. SubSeq(SubSeq(Unread, 1, c), d, c) = SubSeq(Unread, d + 1 - 1, c + 1 - 1)
    <3>1. /\ 1 \in 1..Len(Unread) + 1 /\ 1 <= c + 1
          /\ d \in 1..c - 1 + 2 /\ c \in 0..c - 1 + 1 /\ d <= c + 1
      BY <1>1
    <3> QED BY <1>1, <3>1, CutOfCut
  <2>2. d + 1 - 1 = d /\ c + 1 - 1 = c
    BY <1>1
  <2> QED BY <1>1, <2>1, <2>2
<1>5. Rest(n) \in Seq(Words) /\ Len(Rest(n)) = c - d + 1
  BY <1>1, <1>3, <1>4, CutIs
<1> QED BY <1>1, <1>3, <1>4, <1>5 DEF c, b

(* What is stored of a body is what was sent, since the body begins at the *)
(* end of a line or behind it.                                             *)
LEMMA EnclosedIs ==
  ASSUME NEW b \in Seq(Words), Framed(b), NEW s, LoopInv(b, Len(b), s),
         s.h = "endlf", s.end # "error", TextOK(SubSeq(b, s.i - 1, Len(b)))
  PROVE  \E t \in Texts : Enclosed(SubSeq(b, s.i - 1, Len(b))) = UpToMark(t)
<1> DEFINE e == s.i - 1
           d == e - 1
           l == Len(b)
           v == SubSeq(b, e, l)
           marks == Places(v, "^")
           one == First(marks)
           rest == marks \ {one}
           two == First(rest)
<1>1. PICK z \in 1..l : b[z] = "LF" /\ e \in {z, z + 1} /\ e \in 1..l
  <2>1. s.end \in {"no", "error", "body"} /\ s.i \in Nat /\ l \in Nat
    BY DEF LoopInv, LoopStates
  <2>2. CASE s.end = "no"
    <3>1. e = l /\ l \in 1..l /\ b[l] = "LF"
      BY <2>1, <2>2 DEF LoopInv
    <3> QED BY <3>1
  <2>3. CASE s.end = "body"
    <3>1. s.i - 2 \in 1..l /\ s.i <= l + 1 /\ b[s.i - 2] = "LF"
      BY <2>1, <2>3 DEF LoopInv
    <3>2. e = (s.i - 2) + 1 /\ e \in 1..l
      BY <2>1, <3>1
    <3> QED BY <3>1, <3>2
  <2> QED BY <2>1, <2>2, <2>3
<1>2. l \in Nat /\ l = Len(b) /\ e \in 1..l /\ d \in Nat /\ e = d + 1
  BY <1>1
<1> HIDE DEF e, d, l
<1>3. /\ v \in Seq(Words) /\ Len(v) = l - d /\ \A x \in 1..l - d : v[x] = b[x + d]
  <2>1. e \in 1..Len(b) + 1 /\ l \in 0..Len(b) /\ e <= l + 1
    BY <1>2
  <2>2. v \in Seq(Words) /\ Len(v) = l - e + 1 /\ \A x \in 1..l - e + 1 : v[x] = b[x + e - 1]
    BY <2>1, CutIs
  <2>3. l - e + 1 = l - d /\ \A x \in 1..l - d : x + e - 1 = x + d
    BY <1>2
  <2> QED BY <2>2, <2>3
<1>4. TextOK(v) /\ Enclosed(v) = SubSeq(v, one + 1, two - 1)
  BY DEF Enclosed, e, l
<1>5. ASSUME NEW i \in 1..l - d, NEW j \in 0..l - d, i <= j + 1
      PROVE  SubSeq(v, i, j) = SubSeq(b, i + d, j + d)
  <2>1. /\ e \in 1..Len(b) + 1 /\ l \in 0..Len(b) /\ e <= l + 1
        /\ i \in 1..l - e + 2 /\ j \in 0..l - e + 1
    BY <1>2
  <2>2. SubSeq(v, i, j) = SubSeq(b, i + e - 1, j + e - 1)
    BY <1>5, <2>1, CutOfCut
  <2>3. i + e - 1 = i + d /\ j + e - 1 = j + d
    BY <1>2
  <2> QED BY <2>2, <2>3
<1> HIDE DEF v
<1>6. /\ one \in 1..l - d /\ two \in 1..l - d /\ one < two /\ v[one] = "^" /\ v[two] = "^"
      /\ \A x \in 1..l - d : x < two /\ v[x] = "^" => x = one
  <2>1. marks \subseteq Nat /\ \A x : x \in marks <=> x \in 1..l - d /\ v[x] = "^"
    BY <1>2, <1>3 DEF Places
  <2>2. \E i, j \in marks : i # j
    BY <1>4 DEF TextOK
  <2> HIDE DEF marks
  <2>3. one \in marks /\ \A x \in marks : one <= x
    BY <2>1, <2>2, FirstIs
  <2> HIDE DEF one
  <2>4. rest \subseteq Nat /\ rest # {}
    BY <2>1, <2>2
  <2>5. two \in rest /\ \A x \in rest : two <= x
    BY <2>4, FirstIs
  <2> HIDE DEF two
  <2>6. \A x \in 1..l - d : x < two /\ v[x] = "^" => x = one
    <3>1. SUFFICES ASSUME NEW x \in 1..l - d, x < two, v[x] = "^", x # one PROVE FALSE
      OBVIOUS
    <3>2. x \in rest
      BY <2>1, <3>1
    <3> QED BY <1>2, <2>1, <2>4, <2>5, <3>1, <3>2
  <2> QED BY <1>2, <2>1, <2>3, <2>4, <2>5, <2>6
<1> HIDE DEF one, two
<1> DEFINE i == one + d
           j == two + d
<1>7. /\ i \in 1..Len(b) /\ j \in 1..Len(b) /\ z \in 1..Len(b) /\ i < j
      /\ b[i] = "^" /\ b[j] = "^"
  BY <1>1, <1>2, <1>3, <1>6
<1>8. z < i
  <2>1. CASE one = 1
    <3>1. b[1 + d] = "^"
      BY <1>2, <1>3, <1>6, <2>1
    <3>2. z # e
      BY <1>1, <1>2, <3>1
    <3> QED BY <1>1, <1>2, <2>1, <3>2
  <2>2. CASE one # 1
    BY <1>1, <1>2, <1>6, <2>2
  <2> QED BY <2>1, <2>2
<1>9. ASSUME NEW k \in 1..Len(b), z < k, k < j, b[k] = "^" PROVE k = i
  <2>1. k - d \in 1..l - d /\ (k - d) + d = k /\ k - d < two
    BY <1>1, <1>2, <1>6, <1>9
  <2>2. v[k - d] = "^"
    BY <1>3, <1>9, <2>1
  <2>3. k - d = one
    BY <1>6, <2>1, <2>2
  <2> QED BY <2>1, <2>3
<1> HIDE DEF i, j
<1>10. NextMarks(b, z, i, j)
  BY <1>7, <1>8, <1>9 DEF NextMarks
<1>11. PICK t \in Texts : SubSeq(b, i + 1, j - 1) = UpToMark(t)
  BY <1>1, <1>7, <1>10 DEF Framed
<1>12. SubSeq(v, one + 1, two - 1) = SubSeq(b, i + 1, j - 1)
  <2>1. one + 1 \in 1..l - d /\ two - 1 \in 0..l - d /\ one + 1 <= (two - 1) + 1
    BY <1>2, <1>6
  <2>2. (one + 1) + d = i + 1 /\ (two - 1) + d = j - 1
    BY <1>2, <1>6 DEF i, j
  <2> QED BY <1>5, <2>1, <2>2
<1>13. Enclosed(v) = UpToMark(t)
  BY <1>4, <1>11, <1>12
<1> QED BY <1>13 DEF v, e, l

(* The text that is parsed is framed, and the loop ends in the invariant.  *)
LEMMA ParsedIs ==
  ASSUME ParserInv, NEW n \in 1..Len(wire), ~Parsed(n).bad
  PROVE  LET p == Parsed(n) IN
         /\ p.n = n /\ p.rest = Rest(n)
         /\ Rest(n) \in Seq(Words) /\ Framed(Rest(n))
         /\ LoopInv(Rest(n), Len(Rest(n)), p.heads)
<1>1. /\ Parsed(n).n = n /\ Parsed(n).rest = Rest(n)
      /\ Parsed(n).heads = Loop(Rest(n), hState)
  BY DEF Parsed, ParsedHeaders
<1>2. Rest(n) \in Seq(Words) /\ Framed(Rest(n))
  <2> DEFINE c == Len(buf) + n
  <2>1. c \in 0..Len(Unread) /\ Unread \in Seq(Words) /\ Rest(n) \in Seq(Words)
    BY RestIs
  <2>2. PICK a \in 1..c + 1 : Rest(n) = SubSeq(Unread, a, c)
    BY RestIs
  <2> HIDE DEF c
  <2>3. a \in 1..Len(Unread) + 1 /\ a <= c + 1
    BY <2>1
  <2> QED BY <2>1, <2>2, <2>3, CutKeeps DEF ParserInv
<1>3. LoopInv(Rest(n), Len(Rest(n)), Loop(Rest(n), hState))
  BY <1>2, LoopEnds DEF ParserInv
<1> QED BY <1>1, <1>2, <1>3

(* What remains of the stream.                                             *)
LEMMA EndKeeps ==
  ASSUME ParserInv, NEW n \in 1..Len(wire), NEW a \in 1..Len(buf) + n + 1
  PROVE  LET u == SubSeq(Unread, a, Len(buf) + n) \o SubSeq(wire, n + 1, Len(wire)) IN
         Framed(u) /\ Paired(u)
<1>1. /\ buf \in Seq(Words) /\ wire \in Seq(Words) /\ Framed(Unread) /\ Paired(Unread)
  BY DEF ParserInv
<1>2. /\ Unread \in Seq(Words) /\ Len(buf) \in Nat /\ Len(wire) \in Nat
      /\ Len(Unread) = Len(buf) + Len(wire)
      /\ SubSeq(Unread, a, Len(buf) + n) \o SubSeq(wire, n + 1, Len(wire))
           = SubSeq(Unread, a, Len(Unread))
  <2>1. Len(wire) \in Nat
    BY <1>1
  <2>2. /\ Unread \in Seq(Words) /\ Len(buf) \in Nat /\ Len(Unread) = Len(buf) + Len(wire)
        /\ \A x \in 1..Len(buf) + n + 1 :
             SubSeq(Unread, x, Len(buf) + n) \o SubSeq(wire, n + 1, Len(wire))
               = SubSeq(Unread, x, Len(Unread))
    BY <1>1, TakenIs
  <2> QED BY <2>1, <2>2, Zenon
<1>3. a \in 1..Len(Unread) + 1 /\ Len(Unread) \in 0..Len(Unread) /\ a <= Len(Unread) + 1
  BY <1>2
<1> QED BY <1>1, <1>2, <1>3, CutKeeps

(* After reset the stream is what was not read, or nothing.                *)
LEMMA ResetKeeps ==
  ASSUME ParserInv, NEW n \in 1..Len(wire), NEW go, Reset, ReadThen(n, go)
  PROVE  /\ buf' \in Seq(Words) /\ wire' \in Seq(Words)
         /\ hState' \in HStates \ {"endlf"} /\ keepHeader' \in BOOLEAN
         /\ Framed(Unread') /\ Paired(Unread')
<1>1. wire \in Seq(Words) /\ buf \in Seq(Words) /\ Unread \in Seq(Words)
      /\ Len(buf) \in Nat /\ Len(wire) \in Nat
  <2>1. wire \in Seq(Words) /\ buf \in Seq(Words)
    BY DEF ParserInv
  <2>2. Unread \in Seq(Words)
    BY <2>1, TakenIs
  <2> QED BY <2>1, <2>2
<1>2. buf' = <<>> /\ hState' = "start" /\ keepHeader' = FALSE
      /\ wire' = IF go THEN SubSeq(wire, n + 1, Len(wire)) ELSE <<>>
  BY DEF Reset, ReadThen
<1>3. buf' \in Seq(Words) /\ wire' \in Seq(Words)
  <2>1. SubSeq(wire, n + 1, Len(wire)) \in Seq(Words)
    BY <1>1, CutIs
  <2> QED BY <1>2, <2>1
<1>4. CASE go
  <2> DEFINE c == Len(buf) + n
  <2>1. c + 1 \in 1..c + 1 /\ SubSeq(Unread, c + 1, c) = <<>>
    BY <1>1
  <2>2. Unread' = SubSeq(Unread, c + 1, c) \o SubSeq(wire, n + 1, Len(wire))
    BY <1>2, <1>4, <2>1 DEF Unread
  <2> QED BY <1>2, <1>3, <2>1, <2>2, EndKeeps DEF HStates
<1>5. CASE ~go
  <2>1. Unread' = <<>>
    BY <1>2, <1>5 DEF Unread
  <2>2. Len(<<>>) = 0 /\ 1..0 = {}
    OBVIOUS
  <2>3. Framed(<<>>) /\ Paired(<<>>)
    BY <2>2, Zenon DEF Framed, Paired
  <2> QED BY <1>2, <1>3, <2>1, <2>3 DEF HStates
<1> QED BY <1>4, <1>5

-----------------------------------------------------------------------------
(* The steps.                                                              *)

(* At first nothing was sent.                                              *)
LEMMA InitEstablishes == ASSUME Init PROVE ParserInv
<1>1. buf = <<>> /\ wire = <<>> /\ hState = "start" /\ keepHeader = FALSE /\ stored = {}
  BY DEF Init
<1>2. Unread = <<>> /\ Len(<<>>) = 0 /\ 1..0 = {}
  BY <1>1 DEF Unread
<1>3. Framed(<<>>) /\ Paired(<<>>)
  BY <1>2, Zenon DEF Framed, Paired
<1>4. Framed(Unread) /\ Paired(Unread)
  BY <1>2, <1>3
<1>5. buf \in Seq(Words) /\ wire \in Seq(Words)
  BY <1>1
<1>6. hState \in HStates \ {"endlf"} /\ keepHeader \in BOOLEAN
  BY <1>1 DEF HStates
<1>7. StoredAsSent
  BY <1>1 DEF StoredAsSent
<1> QED BY <1>4, <1>5, <1>6, <1>7 DEF ParserInv

(* The step that sends a request.                                          *)
LEMMA SendKeeps ==
  ASSUME ParserInv, NEW q \in Requests, Send(q)
  PROVE  ParserInv'
<1>1. /\ UNCHANGED <<buf, hState, keepHeader, stored>>
      /\ wire' = IF open THEN wire \o Encode(q) ELSE wire
  BY DEF Send, parser
<1>2. /\ buf \in Seq(Words) /\ wire \in Seq(Words) /\ hState \in HStates \ {"endlf"}
      /\ keepHeader \in BOOLEAN /\ Framed(Unread) /\ Paired(Unread) /\ StoredAsSent
  BY DEF ParserInv
<1>3. Unread \in Seq(Words)
  BY <1>2 DEF Unread
<1>4. StoredAsSent'
  BY <1>1, <1>2 DEF StoredAsSent
<1>5. CASE open
  <2>1. Encode(q) \in Seq(Words) /\ Framed(Unread \o Encode(q)) /\ Paired(Unread \o Encode(q))
    BY <1>2, <1>3, EncodeJoins
  <2>2. (buf \o wire) \o Encode(q) = buf \o (wire \o Encode(q)) /\ wire \o Encode(q) \in Seq(Words)
    BY <1>2, <2>1, ConcatAssociative
  <2>3. Unread' = Unread \o Encode(q) /\ wire' \in Seq(Words)
    BY <1>1, <1>5, <2>2 DEF Unread
  <2> QED BY <1>1, <1>2, <1>4, <2>1, <2>3 DEF ParserInv
<1>6. CASE ~open
  BY <1>1, <1>2, <1>4, <1>6 DEF ParserInv, Unread
<1> QED BY <1>5, <1>6

(* What waiting for the rest leaves.                                       *)
LEMMA AwaitIs ==
  ASSUME ParserInv, NEW n \in 1..Len(wire), Await(Parsed(n)), keepAlive
  PROVE  LET c == Len(buf) + n
             b == Rest(n)
             s == Loop(b, hState)
         IN
         /\ LoopInv(b, Len(b), s) /\ s.line \in 1..Len(b) + 1
         /\ s.end = "no" /\ s.h # "endlf"
         /\ buf' = SubSeq(b, s.line, Len(b)) /\ wire' = SubSeq(wire, n + 1, Len(wire))
         /\ state' = "headers" /\ hState' = s.h /\ keepHeader' = s.keep
         /\ \E a \in 1..c + 1 :
              /\ b = SubSeq(Unread, a, c) /\ Len(b) = c - a + 1
              /\ a = 1 \/ (/\ NoLine /\ a - 1 \in LineEnds(Taken(n))
                           /\ \A x \in LineEnds(Taken(n)) : a - 1 <= x)
              /\ s.line + a - 1 \in 1..c + 1
              /\ Unread' = SubSeq(Unread, s.line + a - 1, c) \o SubSeq(wire, n + 1, Len(wire))
<1> DEFINE p == Parsed(n)
           c == Len(buf) + n
           b == Rest(n)
           s == Loop(b, hState)
<1>1. /\ ~p.bad /\ p.heads.end = "no" /\ p.heads.h # "endlf"
      /\ buf' = SubSeq(p.rest, p.heads.line, Len(p.rest))
      /\ state' = "headers" /\ hState' = p.heads.h /\ keepHeader' = p.heads.keep
      /\ ReadThen(p.n, keepAlive)
  BY DEF Await
<1>2. p.n = n /\ p.rest = b /\ p.heads = s /\ b \in Seq(Words) /\ LoopInv(b, Len(b), s)
  <2>1. p.n = n /\ p.rest = b /\ b \in Seq(Words) /\ LoopInv(b, Len(b), p.heads)
    BY <1>1, ParsedIs
  <2>2. p.heads = s
    BY <1>1 DEF Parsed, ParsedHeaders
  <2> QED BY <2>1, <2>2
<1> HIDE DEF p
<1>3. /\ s.end = "no" /\ s.h # "endlf" /\ buf' = SubSeq(b, s.line, Len(b))
      /\ state' = "headers" /\ hState' = s.h /\ keepHeader' = s.keep
      /\ wire' = SubSeq(wire, n + 1, Len(wire))
  BY <1>1, <1>2 DEF ReadThen
<1>4. s.line \in 1..Len(b) + 1
  BY <1>2 DEF LoopInv
<1>5. c \in 0..Len(Unread) /\ Unread \in Seq(Words)
  BY RestIs
<1>6. c \in Nat /\ Len(Unread) \in Nat
  BY <1>5
<1>7. PICK a \in 1..c + 1 :
        /\ b = SubSeq(Unread, a, c) /\ Len(b) = c - a + 1
        /\ a = 1 \/ (/\ NoLine /\ a - 1 \in LineEnds(Taken(n))
                     /\ \A x \in LineEnds(Taken(n)) : a - 1 <= x)
  BY RestIs
<1> HIDE DEF c, b, s
<1> DEFINE l == s.line
           d == l + a - 1
           r == Len(b)
<1>8. /\ a \in 1..Len(Unread) + 1 /\ a <= c + 1 /\ r \in 0..c - a + 1 /\ r = c - a + 1
      /\ l \in 1..c - a + 2 /\ l <= r + 1
  BY <1>4, <1>5, <1>6, <1>7
<1> HIDE DEF r, l
<1>9. SubSeq(SubSeq(Unread, a, c), l, r) = SubSeq(Unread, l + a - 1, r + a - 1)
  BY <1>5, <1>8, CutOfCut
<1>10. r + a - 1 = c /\ d \in 1..c + 1
  BY <1>6, <1>8
<1>11. buf' = SubSeq(Unread, d, c)
  BY <1>3, <1>7, <1>9, <1>10 DEF r, l
<1>12. Unread' = SubSeq(Unread, d, c) \o SubSeq(wire, n + 1, Len(wire))
  BY <1>3, <1>11 DEF Unread
<1> QED BY <1>2, <1>3, <1>4, <1>7, <1>10, <1>12 DEF c, b, s, l

(* The step that waits for the rest of the headers.                        *)
LEMMA AwaitKeeps ==
  ASSUME ParserInv, NEW n \in 1..Len(wire), Await(Parsed(n))
  PROVE  ParserInv'
<1> DEFINE c == Len(buf) + n
           b == Rest(n)
           s == Loop(b, hState)
<1>1. StoredAsSent'
  BY DEF Await, ParserInv, StoredAsSent
<1>2. CASE ~keepAlive
  <2>1. Reset /\ ReadThen(n, keepAlive)
    BY <1>2 DEF Await, Parsed
  <2> QED BY <1>1, <2>1, ResetKeeps DEF ParserInv
<1>3. CASE keepAlive
  <2>1. /\ LoopInv(b, Len(b), s) /\ s.line \in 1..Len(b) + 1
        /\ s.end = "no" /\ s.h # "endlf"
        /\ buf' = SubSeq(b, s.line, Len(b)) /\ wire' = SubSeq(wire, n + 1, Len(wire))
        /\ hState' = s.h /\ keepHeader' = s.keep
    BY <1>3, AwaitIs
  <2>2. PICK a \in 1..c + 1 :
          /\ s.line + a - 1 \in 1..c + 1
          /\ Unread' = SubSeq(Unread, s.line + a - 1, c) \o SubSeq(wire, n + 1, Len(wire))
    BY <1>3, AwaitIs
  <2>3. b \in Seq(Words)
    BY RestIs
  <2> HIDE DEF b, s
  <2> DEFINE d == s.line + a - 1
  <2>4. d \in 1..c + 1 /\ Unread' = SubSeq(Unread, d, c) \o SubSeq(wire, n + 1, Len(wire))
    BY <2>2
  <2> HIDE DEF d
  <2>5. Framed(Unread') /\ Paired(Unread')
    BY <2>4, EndKeeps
  <2>6. buf' \in Seq(Words) /\ wire' \in Seq(Words)
    <3>1. wire \in Seq(Words) /\ Len(wire) \in Nat /\ Len(b) \in Nat
      BY <2>3 DEF ParserInv
    <3>2. SubSeq(wire, n + 1, Len(wire)) \in Seq(Words)
      BY <3>1, CutIs
    <3>3. SubSeq(b, s.line, Len(b)) \in Seq(Words)
      <4>1. Len(b) \in 0..Len(b) /\ s.line <= Len(b) + 1
        BY <2>1, <3>1
      <4> QED BY <2>1, <2>3, <4>1, CutIs
    <3> QED BY <2>1, <3>2, <3>3
  <2>7. hState' \in HStates \ {"endlf"} /\ keepHeader' \in BOOLEAN
    BY <2>1 DEF LoopInv, LoopStates
  <2> QED BY <1>1, <2>5, <2>6, <2>7 DEF ParserInv
<1> QED BY <1>2, <1>3

(* Any call of handleRead.                                                 *)
LEMMA ReadKeeps ==
  ASSUME ParserInv, NEW n \in 1..Len(wire), Read(n)
  PROVE  ParserInv'
<1> DEFINE p == Parsed(n)
<1>1. Handle(p)
  BY DEF Read
<1>2. p.n = n
  BY DEF Parsed
<1>3. StoredAsSent
  BY DEF ParserInv
<1>4. ASSUME NEW go, Reset, ReadThen(p.n, go), stored' = stored PROVE ParserInv'
  <2>1. StoredAsSent'
    BY <1>3, <1>4 DEF StoredAsSent
  <2> HIDE DEF p
  <2>2. ReadThen(n, go)
    BY <1>2, <1>4
  <2> QED BY <1>4, <2>1, <2>2, ResetKeeps DEF ParserInv
<1>5. CASE RefuseLine(p) \/ RefuseHeader(p) \/ ServeNothing(p)
  <2>1. Reset /\ ReadThen(p.n, FALSE) /\ stored' = stored
    BY <1>5 DEF RefuseLine, RefuseHeader, ServeNothing, Refuse
  <2> QED BY <1>4, <2>1
<1>6. CASE Await(p)
  BY <1>6, AwaitKeeps
<1>7. CASE ServePost(p)
  <2>1. PICK go : Reset /\ ReadThen(p.n, go)
    BY <1>7 DEF ServePost, Answer
  <2>2. CASE stored' = stored
    BY <1>4, <2>1, <2>2
  <2>3. CASE stored' # stored
    <3>1. /\ ~p.bad /\ p.heads.end # "error" /\ p.heads.h = "endlf"
          /\ TextOK(Body(p)) /\ stored' = stored \cup {Enclosed(Body(p))}
      BY <1>7, <2>3 DEF ServePost, Complete
    <3>2. /\ p.rest = Rest(n) /\ Rest(n) \in Seq(Words) /\ Framed(Rest(n))
          /\ LoopInv(Rest(n), Len(Rest(n)), p.heads)
      BY <3>1, ParsedIs
    <3> HIDE DEF p
    <3>3. Body(p) = SubSeq(Rest(n), p.heads.i - 1, Len(Rest(n)))
      BY <3>2 DEF Body
    <3>4. PICK t \in Texts : Enclosed(Body(p)) = UpToMark(t)
      BY <3>1, <3>2, <3>3, EnclosedIs
    <3>5. StoredAsSent'
      BY <1>3, <3>1, <3>4 DEF StoredAsSent
    <3> QED BY <1>2, <2>1, <3>5, ResetKeeps DEF ParserInv
  <2> QED BY <2>2, <2>3
<1>8. CASE ServeCached(p) \/ ServeGet(p)
  <2>1. PICK go : Reset /\ ReadThen(p.n, go) /\ stored' = stored
    BY <1>8 DEF ServeCached, ServeGet, Answer
  <2> QED BY <1>4, <2>1
<1> QED BY <1>1, <1>5, <1>6, <1>7, <1>8 DEF Handle

(* Any step.                                                               *)
LEMMA StepKeeps ==
  ASSUME ParserInv, [Next]_vars
  PROVE  ParserInv'
<1>1. ASSUME UNCHANGED <<parser, wire, stored>> PROVE ParserInv'
  BY <1>1 DEF ParserInv, parser, Unread, StoredAsSent
<1>2. CASE \E q \in Requests : Send(q)
  BY <1>2, SendKeeps
<1>3. CASE TakeAnswers \/ NoAnswer \/ OthersCache \/ UNCHANGED vars
  BY <1>1, <1>3 DEF TakeAnswers, NoAnswer, OthersCache, vars, parser
<1>4. CASE \E n \in 1..Len(wire) : Read(n)
  BY <1>4, ReadKeeps
<1> QED BY <1>2, <1>3, <1>4 DEF Next

(* However parseHeaders cuts the buffer and reset drops it, what is left   *)
(* to read still has, after the end of any line, the marks around a text   *)
(* in pairs, with nothing but that text between the first two.             *)
THEOREM ParserInvariant == Spec => []ParserInv
<1>1. Init => ParserInv
  BY InitEstablishes
<1>2. ParserInv /\ [Next]_vars => ParserInv'
  BY StepKeeps
<1> QED BY <1>1, <1>2, PTL DEF Spec

(* However requests are cut into pieces, and whatever the parser drops,    *)
(* analysisRequest stores what a client sent as one text.                  *)
THEOREM StoredIsSent == Spec => []StoredAsSent
<1>1. ParserInv => StoredAsSent
  BY DEF ParserInv
<1> QED BY <1>1, ParserInvariant, PTL

-----------------------------------------------------------------------------
(* The loop over the headers of a request: what a round does.              *)

(* What each round does, field by field.                                   *)
Goes(s, r, h, line) ==
    r.end = "no" /\ r.h = h /\ r.i = s.i + 1 /\ r.line = line

LEMMA RoundIs ==
  ASSUME NEW s \in LoopStates, s.end = "no", NEW tok \in Words
  PROVE  LET r == Round(s, tok)
             newline == tok \in {"CR", "LF"}
         IN
         /\ s.h = "start" =>
              IF newline THEN Goes(s, r, "start", s.line) /\ r.name = s.name /\ r.keep = s.keep
              ELSE Goes(s, r, "key", s.i) /\ r.name = <<tok>> /\ r.keep = s.keep
         /\ s.h = "key" =>
              IF tok = ":" THEN Goes(s, r, "colon", s.line) /\ r.name = s.name /\ r.keep = s.keep
              ELSE IF newline THEN r.end = "error" ELSE Goes(s, r, "key", s.line)
         /\ s.h = "colon" =>
              IF tok = " " THEN Goes(s, r, "space", s.line) /\ r.name = s.name /\ r.keep = s.keep
              ELSE r.end = "error"
         /\ s.h = "space" => Goes(s, r, "value", s.line) /\ r.name = s.name /\ r.keep = s.keep
         /\ s.h = "value" =>
              /\ Goes(s, r, IF tok = "CR" THEN "cr" ELSE "value", s.line)
              /\ r.name = s.name /\ r.keep = s.keep
         /\ s.h = "cr" =>
              IF tok = "LF"
              THEN /\ Goes(s, r, "lf", s.i)
                   /\ s.name = <<"Connection">> => r.keep
                   /\ s.name # <<"Connection">> => r.keep = s.keep
              ELSE r.end = "error"
         /\ s.h = "lf" =>
              IF tok = "CR" THEN Goes(s, r, "endcr", s.line) /\ r.keep = s.keep
              ELSE Goes(s, r, "key", s.line) /\ r.name = <<tok>> /\ r.keep = s.keep
         /\ s.h = "endcr" =>
              IF tok = "LF" THEN Goes(s, r, "endlf", s.line) /\ r.keep = s.keep
              ELSE r.end = "error"
         /\ s.h = "endlf" =>
              r.end = "body" /\ r.h = "endlf" /\ r.i = s.i + 1 /\ r.keep = s.keep
<1> DEFINE at(h) == [s EXCEPT !.h = h, !.i = @ + 1]
           r == Round(s, tok)
           newline == tok \in {"CR", "LF"}
<1>1. /\ s.i \in Nat /\ s.line \in Nat /\ s.name \in Seq(Words) /\ s.keep \in BOOLEAN
  BY DEF LoopStates
<1>2. ASSUME NEW h
      PROVE  Goes(s, at(h), h, s.line) /\ at(h).name = s.name /\ at(h).keep = s.keep
  BY DEF LoopStates, Goes
<1>3. LET x == [at("key") EXCEPT !.name = <<tok>>, !.line = s.i] IN
      Goes(s, x, "key", s.i) /\ x.name = <<tok>> /\ x.keep = s.keep
  BY DEF LoopStates, Goes
<1>4. ASSUME NEW n
      PROVE  LET x == [at("key") EXCEPT !.name = n] IN
             Goes(s, x, "key", s.line) /\ x.name = n /\ x.keep = s.keep
  BY DEF LoopStates, Goes
<1>5. LET x == [at("lf") EXCEPT !.keep = @ \/ s.name = <<"Connection">>, !.name = <<>>, !.line = s.i] IN
      /\ Goes(s, x, "lf", s.i)
      /\ s.name = <<"Connection">> => x.keep
      /\ s.name # <<"Connection">> => x.keep = s.keep
  BY <1>1 DEF LoopStates, Goes
<1>6. LET x == [at("endlf") EXCEPT !.end = "body"] IN
      x.end = "body" /\ x.h = "endlf" /\ x.i = s.i + 1 /\ x.keep = s.keep
  BY DEF LoopStates
<1>7. [s EXCEPT !.end = "error"].end = "error"
  BY DEF LoopStates
<1> DEFINE bad == [s EXCEPT !.end = "error"]
           begun == [at("key") EXCEPT !.name = <<tok>>, !.line = s.i]
           named(n) == [at("key") EXCEPT !.name = n]
           ended == [at("lf") EXCEPT !.keep = @ \/ s.name = <<"Connection">>, !.name = <<>>, !.line = s.i]
           body == [at("endlf") EXCEPT !.end = "body"]
<1>8. /\ s.h = "start" => r = IF newline THEN at("start") ELSE begun
      /\ s.h = "key" => r = IF tok = ":" THEN at("colon") ELSE IF newline THEN bad
                           ELSE named(IF at("key").name = <<>> THEN at("key").name ELSE Append(at("key").name, tok))
      /\ s.h = "colon" => r = IF tok = " " THEN at("space") ELSE bad
      /\ s.h = "space" => r = at("value")
  BY DEF Round
<1>9. /\ s.h = "value" => r = IF tok = "CR" THEN at("cr") ELSE at("value")
      /\ s.h = "cr" => r = IF tok = "LF" THEN ended ELSE bad
      /\ s.h = "lf" => r = IF tok = "CR" THEN at("endcr") ELSE named(<<tok>>)
      /\ s.h = "endcr" => r = IF tok = "LF" THEN at("endlf") ELSE bad
      /\ s.h = "endlf" => r = body
  BY DEF Round
<1>10. /\ Goes(s, begun, "key", s.i) /\ begun.name = <<tok>> /\ begun.keep = s.keep
       /\ \A n : Goes(s, named(n), "key", s.line) /\ named(n).name = n /\ named(n).keep = s.keep
       /\ bad.end = "error"
  BY <1>3, <1>4, <1>7
<1> HIDE DEF at, r, begun, named, ended, body, bad
<1>11. CASE s.h = "start"
  BY <1>2, <1>8, <1>10, <1>11, Zenon DEF r
<1>12. CASE s.h = "key"
  BY <1>2, <1>8, <1>10, <1>12, Zenon DEF r
<1>13. CASE s.h = "colon"
  BY <1>2, <1>8, <1>10, <1>13, Zenon DEF r
<1>14. CASE s.h = "space"
  BY <1>2, <1>8, <1>14, Zenon DEF r
<1>15. CASE s.h = "value"
  BY <1>2, <1>9, <1>15, Zenon DEF r
<1>16. CASE s.h = "cr"
  BY <1>5, <1>9, <1>10, <1>16, Zenon DEF r, ended
<1>17. CASE s.h = "lf"
  BY <1>2, <1>9, <1>10, <1>17, Zenon DEF r
<1>18. CASE s.h = "endcr"
  BY <1>2, <1>9, <1>10, <1>18, Zenon DEF r
<1>19. CASE s.h = "endlf"
  BY <1>6, <1>9, <1>19, Zenon DEF r, body
<1>20. s.h \in HStates
  BY DEF LoopStates
<1> QED BY <1>11, <1>12, <1>13, <1>14, <1>15, <1>16, <1>17, <1>18, <1>19, <1>20, Zenon DEF HStates

\* The headers have ended, or there was an error.
Done(s) == s.end # "no" \/ s.h = "endlf"

(* The rounds by the kind of token they meet: a word, or the end of a     *)
(* line.                                                                   *)
Signs == {"CR", "LF", ":", " "}

OnWord(s, r) ==
    \/ r.end # "no"
    \/ s.h \in {"start", "key", "lf"} /\ r.h = "key"
       /\ r.line = IF s.h = "start" THEN s.i ELSE s.line
    \/ s.h \in {"space", "value"} /\ r.h = "value" /\ r.line = s.line

OnReturn(s, r) ==
    \/ r.end # "no"
    \/ s.h = "start" /\ r.h = "start" /\ r.line = s.line
    \/ s.h = "space" /\ r.h = "value" /\ r.line = s.line
    \/ s.h = "value" /\ r.h = "cr" /\ r.line = s.line
    \/ s.h = "lf" /\ r.h = "endcr" /\ r.line = s.line

OnFeed(s, r) ==
    \/ r.end # "no"
    \/ s.h = "start" /\ r.h = "start" /\ r.line = s.line
    \/ s.h \in {"space", "value"} /\ r.h = "value" /\ r.line = s.line
    \/ s.h = "cr" /\ r.h = "lf" /\ r.line = s.i
    \/ s.h = "lf" /\ r.h = "key" /\ r.line = s.line
    \/ s.h = "endcr" /\ r.h = "endlf"

LEMMA WordGoes ==
  ASSUME NEW s \in LoopStates, ~Done(s), NEW tok \in Words \ Signs
  PROVE  OnWord(s, Round(s, tok))
<1> DEFINE r == Round(s, tok)
<1>1. tok \in Words /\ tok # "CR" /\ tok # "LF" /\ tok # ":" /\ tok # " " /\ s.end = "no"
      /\ s.h \in HStates \ {"endlf"}
  BY DEF Done, Signs, LoopStates
<1>2. /\ s.h = "start" => Goes(s, r, "key", s.i)
      /\ s.h = "key" => Goes(s, r, "key", s.line)
      /\ s.h \in {"colon", "cr", "endcr"} => r.end = "error"
      /\ s.h \in {"space", "value"} => Goes(s, r, "value", s.line)
      /\ s.h = "lf" => Goes(s, r, "key", s.line)
  BY <1>1, RoundIs
<1> HIDE DEF r
<1> QED BY <1>1, <1>2 DEF Goes, HStates, OnWord, r

LEMMA ReturnGoes ==
  ASSUME NEW s \in LoopStates, ~Done(s)
  PROVE  OnReturn(s, Round(s, "CR"))
<1> DEFINE r == Round(s, "CR")
<1>1. "CR" \in Words /\ s.end = "no" /\ s.h \in HStates \ {"endlf"}
  BY DEF Done, Words, LoopStates
<1>2. /\ s.h = "start" => Goes(s, r, "start", s.line)
      /\ s.h \in {"key", "colon", "cr", "endcr"} => r.end = "error"
      /\ s.h = "space" => Goes(s, r, "value", s.line)
      /\ s.h = "value" => Goes(s, r, "cr", s.line)
      /\ s.h = "lf" => Goes(s, r, "endcr", s.line)
  BY <1>1, RoundIs
<1> HIDE DEF r
<1> QED BY <1>1, <1>2 DEF Goes, HStates, OnReturn, r

LEMMA FeedGoes ==
  ASSUME NEW s \in LoopStates, ~Done(s)
  PROVE  OnFeed(s, Round(s, "LF"))
<1> DEFINE r == Round(s, "LF")
<1>1. "LF" \in Words /\ s.end = "no" /\ s.h \in HStates \ {"endlf"}
  BY DEF Done, Words, LoopStates
<1>2. /\ s.h = "start" => Goes(s, r, "start", s.line)
      /\ s.h \in {"key", "colon"} => r.end = "error"
      /\ s.h \in {"space", "value"} => Goes(s, r, "value", s.line)
      /\ s.h = "cr" => Goes(s, r, "lf", s.i)
      /\ s.h = "lf" => Goes(s, r, "key", s.line)
      /\ s.h = "endcr" => Goes(s, r, "endlf", s.line)
  BY <1>1, RoundIs
<1> HIDE DEF r
<1> QED BY <1>1, <1>2 DEF Goes, HStates, OnFeed, r

LEMMA ColonGoes ==
  ASSUME NEW s \in LoopStates, ~Done(s), s.h \in {"key", "value"}
  PROVE  LET r == Round(s, ":") IN
         r.line = s.line /\ (IF s.h = "key" THEN r.h = "colon" ELSE r.h = "value")
<1> DEFINE r == Round(s, ":")
<1>1. ":" \in Words /\ s.end = "no"
  BY DEF Done, Words
<1>2. /\ s.h = "key" => Goes(s, r, "colon", s.line)
      /\ s.h = "value" => Goes(s, r, "value", s.line)
  BY <1>1, RoundIs
<1> QED BY <1>1, <1>2 DEF Goes

LEMMA SpaceGoes ==
  ASSUME NEW s \in LoopStates, ~Done(s), s.h \in {"colon", "value"}
  PROVE  LET r == Round(s, " ") IN
         r.line = s.line /\ (IF s.h = "colon" THEN r.h = "space" ELSE r.h = "value")
<1> DEFINE r == Round(s, " ")
<1>1. " " \in Words /\ s.end = "no"
  BY DEF Done, Words
<1>2. /\ s.h = "colon" => Goes(s, r, "space", s.line)
      /\ s.h = "value" => Goes(s, r, "value", s.line)
  BY <1>1, RoundIs
<1> QED BY <1>1, <1>2 DEF Goes

-----------------------------------------------------------------------------
(* Where the loop can be.                                                  *)

(* Where the header loop can be after each token of a request up to the    *)
(* end of its headers ...                                                  *)
After == <<{"key", "value"}, {"key", "value"}, {"key", "value"}, {"cr"},
           {"start", "key", "value", "lf"},
           {"key", "value"}, {"colon", "value"}, {"space", "value"}, {"value"}, {"cr"},
           {"key", "value", "lf"},
           {"key", "value"}, {"colon", "value"}, {"space", "value"}, {"value"}, {"cr"},
           {"key", "lf"}, {"endcr"}>>

(* ... and, where parseHeaders may have cut the buffer, with which state   *)
(* it can begin anew.                                                      *)
Cuts == {4, 5, 10, 16}
Begun(c) ==
    IF c = 16 THEN {"key", "lf", "endcr"}
    ELSE {"key", "colon", "space", "value", "cr", "lf"} \cup (IF c = 10 THEN {} ELSE {"start"})

\* The cut that belongs to a place.
CutAt(p, c) ==
    \/ p <= 4 /\ c <= 0
    \/ p \in 5..10 /\ c \in {4, 5}
    \/ p \in 11..16 /\ c = 10
    \/ p \in 17..18 /\ c = 16

(* p: the place in the request, c: the place where the buffer begins.      *)
InPlace(s, p, c) ==
    \/ Done(s) \/ p <= 0
    \/ p = c /\ c \in Cuts /\ s.h \in Begun(c) /\ s.line = 1
    \/ p \in 1..18 /\ s.h \in After[p] /\ CutAt(p, s.line - 1 + c)

LEMMA AfterIs ==
  /\ After[1] = {"key", "value"} /\ After[2] = {"key", "value"} /\ After[3] = {"key", "value"}
  /\ After[4] = {"cr"} /\ After[5] = {"start", "key", "value", "lf"}
  /\ After[6] = {"key", "value"} /\ After[7] = {"colon", "value"}
  /\ After[8] = {"space", "value"} /\ After[9] = {"value"} /\ After[10] = {"cr"}
  /\ After[11] = {"key", "value", "lf"}
  /\ After[12] = {"key", "value"} /\ After[13] = {"colon", "value"}
  /\ After[14] = {"space", "value"} /\ After[15] = {"value"} /\ After[16] = {"cr"}
  /\ After[17] = {"key", "lf"} /\ After[18] = {"endcr"}
BY DEF After

\* The line and the headers of a request.
Headed(e, q) ==
    /\ e[1] = q.method /\ e[2] = q.path /\ e[3] = "HTTP/1.1" /\ e[4] = "CR" /\ e[5] = "LF"
    /\ e[6] = "Host" /\ e[7] = ":" /\ e[8] = " " /\ e[9] = "address"
    /\ e[10] = "CR" /\ e[11] = "LF"
    /\ e[12] = "Connection" /\ e[13] = ":" /\ e[14] = " " /\ e[15] = "Keep-Alive"
    /\ e[16] = "CR" /\ e[17] = "LF" /\ e[18] = "CR" /\ e[19] = "LF"

(* A stream that begins like a request.                                    *)
LEMMA HeadedAlike ==
  ASSUME NEW e, NEW v, NEW q, Headed(v, q), \A x \in 1..19 : e[x] = v[x]
  PROVE  Headed(e, q)
<1>1. e[1] = v[1] /\ e[2] = v[2] /\ e[3] = v[3] /\ e[4] = v[4] /\ e[5] = v[5]
  OBVIOUS
<1>2. e[6] = v[6] /\ e[7] = v[7] /\ e[8] = v[8] /\ e[9] = v[9] /\ e[10] = v[10] /\ e[11] = v[11]
  OBVIOUS
<1>3. e[12] = v[12] /\ e[13] = v[13] /\ e[14] = v[14] /\ e[15] = v[15] /\ e[16] = v[16]
  OBVIOUS
<1>4. e[17] = v[17] /\ e[18] = v[18] /\ e[19] = v[19]
  OBVIOUS
<1>5. /\ v[1] = q.method /\ v[2] = q.path /\ v[3] = "HTTP/1.1" /\ v[4] = "CR" /\ v[5] = "LF"
      /\ v[6] = "Host" /\ v[7] = ":" /\ v[8] = " " /\ v[9] = "address"
      /\ v[10] = "CR" /\ v[11] = "LF"
  BY DEF Headed
<1>6. /\ v[12] = "Connection" /\ v[13] = ":" /\ v[14] = " " /\ v[15] = "Keep-Alive"
      /\ v[16] = "CR" /\ v[17] = "LF" /\ v[18] = "CR" /\ v[19] = "LF"
  BY DEF Headed
<1>7. /\ e[1] = q.method /\ e[2] = q.path /\ e[3] = "HTTP/1.1" /\ e[4] = "CR" /\ e[5] = "LF"
      /\ e[6] = "Host" /\ e[7] = ":" /\ e[8] = " " /\ e[9] = "address"
      /\ e[10] = "CR" /\ e[11] = "LF"
  BY <1>1, <1>2, <1>5
<1>8. /\ e[12] = "Connection" /\ e[13] = ":" /\ e[14] = " " /\ e[15] = "Keep-Alive"
      /\ e[16] = "CR" /\ e[17] = "LF" /\ e[18] = "CR" /\ e[19] = "LF"
  BY <1>3, <1>4, <1>6
<1> QED BY <1>7, <1>8 DEF Headed

(* A request, place by place.                                              *)
LEMMA EncodeIs ==
  ASSUME NEW q \in Requests
  PROVE  LET e == Encode(q) IN
         /\ e \in Seq(Words) /\ Len(e) \in Nat /\ Len(e) >= 19
         /\ Headed(e, q)
         /\ q.method # "POST" => Len(e) <= 19
         /\ q.method = "POST" =>
              /\ q.text \in Seq(Words) /\ Len(e) = Len(q.text) + 21
              /\ \A x \in 1..Len(q.text) + 2 : e[19 + x] = Frame(q.text)[x]
<1> DEFINE a == <<q.method, q.path, "HTTP/1.1", "CR", "LF">>
           h1 == HeaderLine("Host", "address")
           h2 == HeaderLine("Connection", "Keep-Alive")
           z == <<"CR", "LF">>
<1>1. /\ a \in Seq(Words) /\ Len(a) = 5 /\ a[1] = q.method /\ a[2] = q.path /\ a[3] = "HTTP/1.1"
      /\ a[4] = "CR" /\ a[5] = "LF"
  <2>1. q.method \in Words /\ q.path \in Words /\ "HTTP/1.1" \in Words /\ "CR" \in Words /\ "LF" \in Words
    BY ParserAssumption DEF Words
  <2>2. a \in Seq(Words)
    BY <2>1, FiveAre, Zenon
  <2> QED BY <2>2
<1>2. /\ h1 \in Seq(Words) /\ Len(h1) = 6 /\ h1[1] = "Host" /\ h1[2] = ":" /\ h1[3] = " "
      /\ h1[4] = "address" /\ h1[5] = "CR" /\ h1[6] = "LF"
  BY DEF HeaderLine, Words
<1>3. /\ h2 \in Seq(Words) /\ Len(h2) = 6 /\ h2[1] = "Connection" /\ h2[2] = ":" /\ h2[3] = " "
      /\ h2[4] = "Keep-Alive" /\ h2[5] = "CR" /\ h2[6] = "LF"
  BY DEF HeaderLine, Words
<1>4. z \in Seq(Words) /\ Len(z) = 2 /\ z[1] = "CR" /\ z[2] = "LF"
  BY DEF Words
<1> HIDE DEF a, h1, h2, z
<1> DEFINE v1 == a \o h1
           v2 == v1 \o h2
           v == v2 \o z
<1>5. /\ v1 \in Seq(Words) /\ Len(v1) = 11 /\ \A x \in 1..5 : v1[x] = a[x]
      /\ \A x \in 1..6 : v1[5 + x] = h1[x]
  <2>1. a \in Seq(Words) /\ h1 \in Seq(Words)
    BY <1>1, <1>2
  <2>2. v1 = a \o h1
    OBVIOUS
  <2> HIDE DEF v1
  <2>3. /\ v1 \in Seq(Words) /\ Len(v1) = Len(a) + Len(h1)
        /\ \A x \in 1..Len(a) : v1[x] = a[x]
        /\ \A x \in 1..Len(h1) : v1[Len(a) + x] = h1[x]
    BY ONLY <2>1, <2>2, JoinIs
  <2>4. Len(a) = 5 /\ Len(h1) = 6
    BY <1>1, <1>2
  <2> QED BY ONLY <2>3, <2>4
<1> HIDE DEF v1
<1>6. /\ v2 \in Seq(Words) /\ Len(v2) = 17 /\ \A x \in 1..11 : v2[x] = v1[x]
      /\ \A x \in 1..6 : v2[11 + x] = h2[x]
  <2>1. v1 \in Seq(Words) /\ h2 \in Seq(Words)
    BY <1>5, <1>3
  <2>2. v2 = v1 \o h2
    OBVIOUS
  <2> HIDE DEF v2
  <2>3. /\ v2 \in Seq(Words) /\ Len(v2) = Len(v1) + Len(h2)
        /\ \A x \in 1..Len(v1) : v2[x] = v1[x]
        /\ \A x \in 1..Len(h2) : v2[Len(v1) + x] = h2[x]
    BY ONLY <2>1, <2>2, JoinIs
  <2>4. Len(v1) = 11 /\ Len(h2) = 6
    BY <1>5, <1>3
  <2> QED BY ONLY <2>3, <2>4
<1> HIDE DEF v2
<1>7. /\ v \in Seq(Words) /\ Len(v) = 19 /\ \A x \in 1..17 : v[x] = v2[x]
      /\ \A x \in 1..2 : v[17 + x] = z[x]
  <2>1. v2 \in Seq(Words) /\ z \in Seq(Words)
    BY <1>6, <1>4
  <2>2. v = v2 \o z
    OBVIOUS
  <2> HIDE DEF v
  <2>3. /\ v \in Seq(Words) /\ Len(v) = Len(v2) + Len(z)
        /\ \A x \in 1..Len(v2) : v[x] = v2[x]
        /\ \A x \in 1..Len(z) : v[Len(v2) + x] = z[x]
    BY ONLY <2>1, <2>2, JoinIs
  <2>4. Len(v2) = 17 /\ Len(z) = 2
    BY <1>6, <1>4
  <2> QED BY ONLY <2>3, <2>4
<1> HIDE DEF v
<1>8. Heads(q) = v
  BY DEF Heads, v, v2, v1, a, h1, h2, z
<1>9. /\ v[1] = q.method /\ v[2] = q.path /\ v[3] = "HTTP/1.1" /\ v[4] = "CR" /\ v[5] = "LF"
      /\ v[6] = v1[5 + 1] /\ v[7] = v1[5 + 2] /\ v[8] = v1[5 + 3]
      /\ v[9] = v1[5 + 4] /\ v[10] = v1[5 + 5] /\ v[11] = v1[5 + 6]
      /\ v[12] = v2[11 + 1] /\ v[13] = v2[11 + 2] /\ v[14] = v2[11 + 3]
      /\ v[15] = v2[11 + 4] /\ v[16] = v2[11 + 5] /\ v[17] = v2[11 + 6]
      /\ v[18] = v[17 + 1] /\ v[19] = v[17 + 2]
  BY <1>1, <1>5, <1>6, <1>7
<1>10. /\ v[6] = "Host" /\ v[7] = ":" /\ v[8] = " " /\ v[9] = "address" /\ v[10] = "CR" /\ v[11] = "LF"
       /\ v[12] = "Connection" /\ v[13] = ":" /\ v[14] = " " /\ v[15] = "Keep-Alive"
       /\ v[16] = "CR" /\ v[17] = "LF" /\ v[18] = "CR" /\ v[19] = "LF"
  <2>1. v[6] = h1[1] /\ v[7] = h1[2] /\ v[8] = h1[3] /\ v[9] = h1[4] /\ v[10] = h1[5] /\ v[11] = h1[6]
    BY <1>5, <1>9
  <2>2. v[12] = h2[1] /\ v[13] = h2[2] /\ v[14] = h2[3] /\ v[15] = h2[4] /\ v[16] = h2[5] /\ v[17] = h2[6]
    BY <1>6, <1>9
  <2>3. v[18] = z[1] /\ v[19] = z[2]
    BY <1>7, <1>9
  <2> QED BY <1>2, <1>3, <1>4, <2>1, <2>2, <2>3
<1>11. Headed(v, q)
  BY <1>9, <1>10 DEF Headed
<1>12. CASE q.method # "POST"
  <2>1. Encode(q) = v
    <3>1. Encode(q) = Heads(q) \o <<>>
      BY <1>12 DEF Encode, Heads
    <3> QED BY <1>7, <1>8, <3>1
  <2>2. v \in Seq(Words) /\ Len(v) = 19
    BY <1>7
  <2> HIDE DEF v
  <2> QED BY <1>11, <1>12, <2>1, <2>2
<1>13. CASE q.method = "POST"
  <2> DEFINE f == Frame(q.text)
             e == v \o f
  <2>1. q.text \in Seq(Words) /\ "LF" \notin ToSet(q.text)
    BY TextIs
  <2>2. f \in Seq(Words) /\ Len(f) = Len(q.text) + 2 /\ Len(q.text) \in Nat
    BY <2>1, FrameIs
  <2> HIDE DEF f
  <2>3. /\ e \in Seq(Words) /\ Len(e) = Len(q.text) + 21 /\ \A x \in 1..19 : e[x] = v[x]
        /\ \A x \in 1..Len(q.text) + 2 : e[19 + x] = f[x]
    <3>1. v \in Seq(Words) /\ f \in Seq(Words)
      BY <1>7, <2>2
    <3>2. e = v \o f
      OBVIOUS
    <3> HIDE DEF e
    <3>3. /\ e \in Seq(Words) /\ Len(e) = Len(v) + Len(f) /\ \A x \in 1..Len(v) : e[x] = v[x]
          /\ \A x \in 1..Len(f) : e[Len(v) + x] = f[x]
      BY ONLY <3>1, <3>2, JoinIs
    <3>4. Len(v) = 19 /\ Len(f) = Len(q.text) + 2 /\ Len(q.text) \in Nat
      BY <1>7, <2>2
    <3> QED BY ONLY <3>3, <3>4
  <2> HIDE DEF e
  <2>4. Encode(q) = e
    BY <1>8, <1>13 DEF Encode, Heads, Frame, e, f
  <2>5. Headed(e, q)
    <3>1. \A x \in 1..19 : e[x] = v[x]
      BY <2>3
    <3> HIDE DEF v
    <3> QED BY <1>11, <3>1, HeadedAlike
  <2>6. /\ Encode(q) \in Seq(Words) /\ Len(Encode(q)) = Len(q.text) + 21
        /\ \A x \in 1..Len(q.text) + 2 : Encode(q)[19 + x] = Frame(q.text)[x]
    BY <2>3, <2>4 DEF f
  <2>7. Len(q.text) + 21 \in Nat /\ Len(q.text) + 21 >= 19
    BY <2>2
  <2>8. Headed(Encode(q), q)
    BY <2>4, <2>5
  <2> QED BY <1>13, <2>1, <2>6, <2>7, <2>8
<1> QED BY <1>12, <1>13

(* One more token of a request.                                            *)
LEMMA StepAt ==
  ASSUME NEW q \in Requests, NEW s \in LoopStates, NEW p \in 1..19, NEW c \in Int,
         ~Done(s), s.i = p - c, s.line \in 1..s.i, InPlace(s, p - 1, c)
  PROVE  InPlace(Round(s, Encode(q)[p]), p, c)
<1> DEFINE tok == Encode(q)[p]
           r == Round(s, tok)
           cut == s.line - 1 + c
<1>1. /\ Headed(Encode(q), q) /\ q.method \in Words \ Signs /\ q.path \in Words \ Signs
      /\ {"HTTP/1.1", "Host", "address", "Connection", "Keep-Alive"} \subseteq Words \ Signs
  <2>1. q.method \in {"GET", "HEAD", "POST"} /\ q.path \notin {"CR", "LF", ":", " "}
    BY ParserAssumption
  <2>2. q.method \in Words /\ q.path \in Words
    BY <2>1 DEF Words
  <2> QED BY <2>1, <2>2, EncodeIs DEF Words, Signs
<1>2. s.i - 1 + c = p - 1 /\ cut \in Int /\ cut <= p - 1
  OBVIOUS
<1>3. \/ p - 1 <= 0
      \/ p - 1 = c /\ c \in Cuts /\ s.h \in Begun(c) /\ cut = c
      \/ p - 1 \in 1..18 /\ s.h \in After[p - 1] /\ CutAt(p - 1, cut)
  BY DEF InPlace
<1>4. ASSUME r.end # "no" \/ r.h = "endlf" PROVE InPlace(r, p, c)
  BY <1>4 DEF InPlace, Done
<1>5. ASSUME p \in 1..18, r.h \in After[p], CutAt(p, r.line - 1 + c) PROVE InPlace(r, p, c)
  BY <1>5 DEF InPlace
<1>6. p \in {1, 2, 3, 4, 5, 6, 7, 8, 9, 10, 11, 12, 13, 14, 15, 16, 17, 18, 19}
  OBVIOUS
<1> SUFFICES InPlace(r, p, c)
  OBVIOUS
<1> HIDE DEF r, cut
<1>7. CASE p = 1
  <2>1. tok = q.method
    BY <1>1, <1>7 DEF Headed
  <2>2. cut <= 0
    BY <1>2, <1>7
  <2>3. OnWord(s, r)
    BY <1>1, <2>1, WordGoes DEF r
  <2>4. \/ r.end # "no" \/ r.h = "endlf"
        \/ r.h \in {"key", "value"} /\ r.line - 1 + c <= 0
    BY <1>2, <1>7, <2>2, <2>3 DEF cut, OnWord
  <2> QED BY <1>4, <1>5, <1>7, <2>4, AfterIs DEF CutAt
<1>8. CASE p = 2
  <2>1. tok = q.path
    BY <1>1, <1>8 DEF Headed
  <2>2. s.h \in {"key", "value"} /\ (cut <= 0)
    BY <1>3, <1>8, AfterIs DEF Cuts, Begun, CutAt
  <2>3. OnWord(s, r)
    BY <1>1, <2>1, WordGoes DEF r
  <2>4. \/ r.end # "no" \/ r.h = "endlf"
        \/ r.h \in {"key", "value"} /\ r.line - 1 + c <= 0
    BY <1>2, <1>8, <2>2, <2>3 DEF cut, OnWord
  <2> QED BY <1>4, <1>5, <1>8, <2>4, AfterIs DEF CutAt
<1>9. CASE p = 3
  <2>1. tok = "HTTP/1.1"
    BY <1>1, <1>9 DEF Headed
  <2>2. s.h \in {"key", "value"} /\ (cut <= 0)
    BY <1>3, <1>9, AfterIs DEF Cuts, Begun, CutAt
  <2>3. OnWord(s, r)
    BY <1>1, <2>1, WordGoes DEF r
  <2>4. \/ r.end # "no" \/ r.h = "endlf"
        \/ r.h \in {"key", "value"} /\ r.line - 1 + c <= 0
    BY <1>2, <1>9, <2>2, <2>3 DEF cut, OnWord
  <2> QED BY <1>4, <1>5, <1>9, <2>4, AfterIs DEF CutAt
<1>10. CASE p = 4
  <2>1. tok = "CR"
    BY <1>1, <1>10 DEF Headed
  <2>2. s.h \in {"key", "value"} /\ (cut <= 0)
    BY <1>3, <1>10, AfterIs DEF Cuts, Begun, CutAt
  <2>3. OnReturn(s, r)
    BY <2>1, ReturnGoes DEF r
  <2>4. \/ r.end # "no" \/ r.h = "endlf"
        \/ r.h \in {"cr"} /\ r.line - 1 + c <= 0
    BY <1>2, <1>10, <2>2, <2>3 DEF cut, OnReturn
  <2> QED BY <1>4, <1>5, <1>10, <2>4, AfterIs DEF CutAt
<1>11. CASE p = 5
  <2>1. tok = "LF"
    BY <1>1, <1>11 DEF Headed
  <2>2. /\ s.h \in {"start", "key", "colon", "space", "value", "cr", "lf"}
        /\ (s.h = "cr" /\ cut <= 0) \/ cut = 4
    BY <1>3, <1>11, AfterIs DEF Cuts, Begun, CutAt
  <2>3. OnFeed(s, r)
    BY <2>1, FeedGoes DEF r
  <2>4. \/ r.end # "no" \/ r.h = "endlf"
        \/ r.h \in {"start", "key", "value", "lf"} /\ r.line - 1 + c \in {4, 5}
    BY <1>2, <1>11, <2>2, <2>3 DEF cut, OnFeed
  <2> QED BY <1>4, <1>5, <1>11, <2>4, AfterIs DEF CutAt
<1>12. CASE p = 6
  <2>1. tok = "Host"
    BY <1>1, <1>12 DEF Headed
  <2>2. s.h \in {"start", "key", "colon", "space", "value", "cr", "lf"} /\ (cut \in {4, 5})
    BY <1>3, <1>12, AfterIs DEF Cuts, Begun, CutAt
  <2>3. OnWord(s, r)
    BY <1>1, <2>1, WordGoes DEF r
  <2>4. \/ r.end # "no" \/ r.h = "endlf"
        \/ r.h \in {"key", "value"} /\ r.line - 1 + c \in {4, 5}
    BY <1>2, <1>12, <2>2, <2>3 DEF cut, OnWord
  <2> QED BY <1>4, <1>5, <1>12, <2>4, AfterIs DEF CutAt
<1>13. CASE p = 7
  <2>1. tok = ":"
    BY <1>1, <1>13 DEF Headed
  <2>2. s.h \in {"key", "value"} /\ (cut \in {4, 5})
    BY <1>3, <1>13, AfterIs DEF Cuts, Begun, CutAt
  <2>3. r.line = s.line /\ (IF s.h = "key" THEN r.h = "colon" ELSE r.h = "value")
    BY <2>1, <2>2, ColonGoes DEF r
  <2>4. \/ r.end # "no" \/ r.h = "endlf"
        \/ r.h \in {"colon", "value"} /\ r.line - 1 + c \in {4, 5}
    BY <1>2, <1>13, <2>2, <2>3 DEF cut
  <2> QED BY <1>4, <1>5, <1>13, <2>4, AfterIs DEF CutAt
<1>14. CASE p = 8
  <2>1. tok = " "
    BY <1>1, <1>14 DEF Headed
  <2>2. s.h \in {"colon", "value"} /\ (cut \in {4, 5})
    BY <1>3, <1>14, AfterIs DEF Cuts, Begun, CutAt
  <2>3. r.line = s.line /\ (IF s.h = "colon" THEN r.h = "space" ELSE r.h = "value")
    BY <2>1, <2>2, SpaceGoes DEF r
  <2>4. \/ r.end # "no" \/ r.h = "endlf"
        \/ r.h \in {"space", "value"} /\ r.line - 1 + c \in {4, 5}
    BY <1>2, <1>14, <2>2, <2>3 DEF cut
  <2> QED BY <1>4, <1>5, <1>14, <2>4, AfterIs DEF CutAt
<1>15. CASE p = 9
  <2>1. tok = "address"
    BY <1>1, <1>15 DEF Headed
  <2>2. s.h \in {"space", "value"} /\ (cut \in {4, 5})
    BY <1>3, <1>15, AfterIs DEF Cuts, Begun, CutAt
  <2>3. OnWord(s, r)
    BY <1>1, <2>1, WordGoes DEF r
  <2>4. \/ r.end # "no" \/ r.h = "endlf"
        \/ r.h \in {"value"} /\ r.line - 1 + c \in {4, 5}
    BY <1>2, <1>15, <2>2, <2>3 DEF cut, OnWord
  <2> QED BY <1>4, <1>5, <1>15, <2>4, AfterIs DEF CutAt
<1>16. CASE p = 10
  <2>1. tok = "CR"
    BY <1>1, <1>16 DEF Headed
  <2>2. s.h \in {"value"} /\ (cut \in {4, 5})
    BY <1>3, <1>16, AfterIs DEF Cuts, Begun, CutAt
  <2>3. OnReturn(s, r)
    BY <2>1, ReturnGoes DEF r
  <2>4. \/ r.end # "no" \/ r.h = "endlf"
        \/ r.h \in {"cr"} /\ r.line - 1 + c \in {4, 5}
    BY <1>2, <1>16, <2>2, <2>3 DEF cut, OnReturn
  <2> QED BY <1>4, <1>5, <1>16, <2>4, AfterIs DEF CutAt
<1>17. CASE p = 11
  <2>1. tok = "LF"
    BY <1>1, <1>17 DEF Headed
  <2>2. /\ s.h \in {"key", "colon", "space", "value", "cr", "lf"}
        /\ (s.h = "cr" /\ cut \in {4, 5}) \/ cut = 10
    BY <1>3, <1>17, AfterIs DEF Cuts, Begun, CutAt
  <2>3. OnFeed(s, r)
    BY <2>1, FeedGoes DEF r
  <2>4. \/ r.end # "no" \/ r.h = "endlf"
        \/ r.h \in {"key", "value", "lf"} /\ r.line - 1 + c = 10
    BY <1>2, <1>17, <2>2, <2>3 DEF cut, OnFeed
  <2> QED BY <1>4, <1>5, <1>17, <2>4, AfterIs DEF CutAt
<1>18. CASE p = 12
  <2>1. tok = "Connection"
    BY <1>1, <1>18 DEF Headed
  <2>2. s.h \in {"key", "value", "lf"} /\ (cut = 10)
    BY <1>3, <1>18, AfterIs DEF Cuts, Begun, CutAt
  <2>3. OnWord(s, r)
    BY <1>1, <2>1, WordGoes DEF r
  <2>4. \/ r.end # "no" \/ r.h = "endlf"
        \/ r.h \in {"key", "value"} /\ r.line - 1 + c = 10
    BY <1>2, <1>18, <2>2, <2>3 DEF cut, OnWord
  <2> QED BY <1>4, <1>5, <1>18, <2>4, AfterIs DEF CutAt
<1>19. CASE p = 13
  <2>1. tok = ":"
    BY <1>1, <1>19 DEF Headed
  <2>2. s.h \in {"key", "value"} /\ (cut = 10)
    BY <1>3, <1>19, AfterIs DEF Cuts, Begun, CutAt
  <2>3. r.line = s.line /\ (IF s.h = "key" THEN r.h = "colon" ELSE r.h = "value")
    BY <2>1, <2>2, ColonGoes DEF r
  <2>4. \/ r.end # "no" \/ r.h = "endlf"
        \/ r.h \in {"colon", "value"} /\ r.line - 1 + c = 10
    BY <1>2, <1>19, <2>2, <2>3 DEF cut
  <2> QED BY <1>4, <1>5, <1>19, <2>4, AfterIs DEF CutAt
<1>20. CASE p = 14
  <2>1. tok = " "
    BY <1>1, <1>20 DEF Headed
  <2>2. s.h \in {"colon", "value"} /\ (cut = 10)
    BY <1>3, <1>20, AfterIs DEF Cuts, Begun, CutAt
  <2>3. r.line = s.line /\ (IF s.h = "colon" THEN r.h = "space" ELSE r.h = "value")
    BY <2>1, <2>2, SpaceGoes DEF r
  <2>4. \/ r.end # "no" \/ r.h = "endlf"
        \/ r.h \in {"space", "value"} /\ r.line - 1 + c = 10
    BY <1>2, <1>20, <2>2, <2>3 DEF cut
  <2> QED BY <1>4, <1>5, <1>20, <2>4, AfterIs DEF CutAt
<1>21. CASE p = 15
  <2>1. tok = "Keep-Alive"
    BY <1>1, <1>21 DEF Headed
  <2>2. s.h \in {"space", "value"} /\ (cut = 10)
    BY <1>3, <1>21, AfterIs DEF Cuts, Begun, CutAt
  <2>3. OnWord(s, r)
    BY <1>1, <2>1, WordGoes DEF r
  <2>4. \/ r.end # "no" \/ r.h = "endlf"
        \/ r.h \in {"value"} /\ r.line - 1 + c = 10
    BY <1>2, <1>21, <2>2, <2>3 DEF cut, OnWord
  <2> QED BY <1>4, <1>5, <1>21, <2>4, AfterIs DEF CutAt
<1>22. CASE p = 16
  <2>1. tok = "CR"
    BY <1>1, <1>22 DEF Headed
  <2>2. s.h \in {"value"} /\ (cut = 10)
    BY <1>3, <1>22, AfterIs DEF Cuts, Begun, CutAt
  <2>3. OnReturn(s, r)
    BY <2>1, ReturnGoes DEF r
  <2>4. \/ r.end # "no" \/ r.h = "endlf"
        \/ r.h \in {"cr"} /\ r.line - 1 + c = 10
    BY <1>2, <1>22, <2>2, <2>3 DEF cut, OnReturn
  <2> QED BY <1>4, <1>5, <1>22, <2>4, AfterIs DEF CutAt
<1>23. CASE p = 17
  <2>1. tok = "LF"
    BY <1>1, <1>23 DEF Headed
  <2>2. s.h \in {"key", "cr", "lf", "endcr"} /\ ((s.h = "cr" /\ cut = 10) \/ cut = 16)
    BY <1>3, <1>23, AfterIs DEF Cuts, Begun, CutAt
  <2>3. OnFeed(s, r)
    BY <2>1, FeedGoes DEF r
  <2>4. \/ r.end # "no" \/ r.h = "endlf"
        \/ r.h \in {"key", "lf"} /\ r.line - 1 + c = 16
    BY <1>2, <1>23, <2>2, <2>3 DEF cut, OnFeed
  <2> QED BY <1>4, <1>5, <1>23, <2>4, AfterIs DEF CutAt
<1>24. CASE p = 18
  <2>1. tok = "CR"
    BY <1>1, <1>24 DEF Headed
  <2>2. s.h \in {"key", "lf"} /\ (cut = 16)
    BY <1>3, <1>24, AfterIs DEF Cuts, Begun, CutAt
  <2>3. OnReturn(s, r)
    BY <2>1, ReturnGoes DEF r
  <2>4. \/ r.end # "no" \/ r.h = "endlf"
        \/ r.h \in {"endcr"} /\ r.line - 1 + c = 16
    BY <1>2, <1>24, <2>2, <2>3 DEF cut, OnReturn
  <2> QED BY <1>4, <1>5, <1>24, <2>4, AfterIs DEF CutAt
<1>25. CASE p = 19
  <2>1. tok = "LF"
    BY <1>1, <1>25 DEF Headed
  <2>2. s.h \in {"endcr"} /\ (cut = 16)
    BY <1>3, <1>25, AfterIs DEF Cuts, Begun, CutAt
  <2>3. OnFeed(s, r)
    BY <2>1, FeedGoes DEF r
  <2>4. r.end # "no" \/ r.h = "endlf"
    BY <2>2, <2>3 DEF OnFeed
  <2> QED BY <1>4, <2>4
<1> QED BY <1>6, <1>7, <1>8, <1>9, <1>10, <1>11, <1>12, <1>13, <1>14, <1>15, <1>16, <1>17, <1>18,
           <1>19, <1>20, <1>21, <1>22, <1>23, <1>24, <1>25

(* The round behind the headers.                                           *)
LEMMA EndGoes ==
  ASSUME NEW s \in LoopStates, s.end = "no", s.h = "endlf", NEW tok \in Words
  PROVE  LET r == Round(s, tok) IN
         r.end = "body" /\ r.h = "endlf" /\ r.i = s.i + 1 /\ r.keep = s.keep
BY RoundIs

(* The loop stays in place over any piece of a request and what is before. *)
LEMMA LoopInPlace ==
  ASSUME NEW b \in Seq(Words), NEW h \in HStates \ {"endlf"}, keepHeader \in BOOLEAN,
         NEW q \in Requests, NEW c \in Int,
         \A k \in 1..Len(b) : k + c >= 1 => b[k] = Encode(q)[k + c],
         c <= 0 \/ (c \in Cuts /\ h \in Begun(c))
  PROVE  InPlace(Loop(b, h), Len(b) + c, c)
<1>1. PICK f : /\ Loop(b, h) = f[Len(b)] /\ f[0] = LoopStart(h)
               /\ \A k \in 1..Len(b) : f[k] = LoopStep(f[k - 1], b[k])
               /\ \A k \in 0..Len(b) : LoopInv(b, k, f[k])
  BY LoopIs
<1> DEFINE G == {k \in 0..Len(b) : InPlace(f[k], k + c, c)}
<1>2. 0 \in G
  <2>1. f[0].h = h /\ f[0].line = 1
    BY <1>1 DEF LoopStart
  <2>2. 0 + c = c /\ 0 \in 0..Len(b)
    OBVIOUS
  <2> QED BY <2>1, <2>2 DEF InPlace
<1>3. ASSUME NEW k \in 1..Len(b), k - 1 \in G PROVE k \in G
  <2> DEFINE s == f[k - 1]
             p == k + c
  <2>1. InPlace(s, p - 1, c) /\ LoopInv(b, k - 1, s) /\ f[k] = LoopStep(s, b[k])
    <3>1. k - 1 \in 0..Len(b) /\ (k - 1) + c = p - 1 /\ InPlace(f[k - 1], (k - 1) + c, c)
      BY <1>3
    <3> QED BY <1>1, <3>1
  <2>2. s \in LoopStates /\ s.line \in 1..k /\ (s.end = "no" => s.i = k) /\ k \in 0..Len(b)
    <3>1. s \in LoopStates /\ s.line \in 1..(k - 1) + 1 /\ (s.end = "no" => s.i = (k - 1) + 1)
      BY <2>1 DEF LoopInv
    <3> QED BY <3>1
  <2> HIDE DEF s
  <2>3. p \in Int /\ k = p - c /\ b[k] \in Words
    OBVIOUS
  <2>4. SUFFICES InPlace(LoopStep(s, b[k]), p, c)
    BY <2>1, <2>2
  <2>5. CASE s.end # "no"
    <3>1. LoopStep(s, b[k]) = s
      BY <2>5 DEF LoopStep
    <3> QED BY <2>5, <3>1 DEF InPlace, Done
  <2>6. CASE s.end = "no" /\ s.h = "endlf"
    <3>1. Round(s, b[k]).end = "body"
      BY <2>2, <2>3, <2>6, EndGoes
    <3>2. LoopStep(s, b[k]).end = "body"
      BY <2>6, <3>1 DEF LoopStep
    <3> QED BY <3>2 DEF InPlace, Done
  <2>7. CASE ~Done(s) /\ p <= 0
    BY <2>7 DEF InPlace
  <2>8. CASE ~Done(s) /\ p \in 1..19
    <3>1. b[k] = Encode(q)[p] /\ LoopStep(s, b[k]) = Round(s, b[k]) /\ s.i = k
      BY <2>2, <2>8 DEF LoopStep, Done
    <3> HIDE DEF p
    <3>2. s.i = p - c /\ s.line \in 1..s.i
      BY <2>2, <2>3, <3>1
    <3>3. InPlace(Round(s, Encode(q)[p]), p, c)
      BY <2>1, <2>2, <2>8, <3>2, StepAt
    <3> QED BY <3>1, <3>3
  <2>9. CASE ~Done(s) /\ p > 19
    <3>1. p - 1 > 18
      BY <2>3, <2>9
    <3> HIDE DEF p
    <3> QED BY <2>1, <2>3, <2>9, <3>1 DEF InPlace, Cuts
  <2>10. p <= 0 \/ p \in 1..19 \/ p > 19
    <3>1. p \in Int
      BY <2>3
    <3> HIDE DEF p
    <3> QED BY ONLY <3>1
  <2>11. ~Done(s) \/ s.end # "no" \/ (s.end = "no" /\ s.h = "endlf")
    BY DEF Done
  <2> HIDE DEF p
  <2> QED BY <2>5, <2>6, <2>7, <2>8, <2>9, <2>10, <2>11
<1> HIDE DEF G
<1>4. Len(b) \in Nat /\ Len(b) \in 0..Len(b)
  OBVIOUS
<1>5. \A k \in 0..Len(b) : k \in G
  BY <1>2, <1>3, <1>4, NumberInduction
<1> QED BY <1>1, <1>4, <1>5 DEF G

(* Where the buffer is cut when the headers have not ended.                *)
LEMMA CutIsBegun ==
  ASSUME NEW s \in LoopStates, NEW p \in Int, NEW c \in Int, InPlace(s, p, c), ~Done(s)
  PROVE  LET d == s.line - 1 + c IN
         p <= 18 /\ (p <= 0 \/ d <= 0 \/ (d \in Cuts /\ s.h \in Begun(d)))
<1> DEFINE d == s.line - 1 + c
<1>1. d \in Int
  BY DEF LoopStates
<1>2. CASE p <= 0
  BY <1>2
<1>3. CASE p = c /\ c \in Cuts /\ s.h \in Begun(c) /\ s.line = 1
  <2>1. d = c
    BY <1>3
  <2> QED BY <1>3, <2>1 DEF Cuts
<1>4. CASE p \in 1..18 /\ s.h \in After[p] /\ CutAt(p, s.line - 1 + c)
  <2> HIDE DEF d
  <2>1. CASE p <= 4
    BY <1>4, <2>1 DEF CutAt, d
  <2>2. CASE p \in {5, 6, 7, 8, 9, 10}
    <3>1. d \in {4, 5}
      BY <1>4, <2>2 DEF CutAt, d
    <3>2. s.h \in {"start", "key", "colon", "space", "value", "cr", "lf"}
      BY <1>4, <2>2, AfterIs
    <3> QED BY <1>4, <3>1, <3>2 DEF Cuts, Begun, d
  <2>3. CASE p \in {11, 12, 13, 14, 15, 16}
    <3>1. d = 10
      BY <1>4, <2>3 DEF CutAt, d
    <3>2. s.h \in {"key", "colon", "space", "value", "cr", "lf"}
      BY <1>4, <2>3, AfterIs
    <3> QED BY <1>4, <3>1, <3>2 DEF Cuts, Begun, d
  <2>4. CASE p \in {17, 18}
    <3>1. d = 16
      BY <1>4, <2>4 DEF CutAt, d
    <3>2. s.h \in {"key", "lf", "endcr"}
      BY <1>4, <2>4, AfterIs
    <3> QED BY <1>4, <3>1, <3>2 DEF Cuts, Begun, d
  <2> QED BY <1>4, <2>1, <2>2, <2>3, <2>4
<1> QED BY <1>2, <1>3, <1>4 DEF InPlace

-----------------------------------------------------------------------------
(* The ends of headers in a stream.                                        *)

(* The ends of lines that a line end follows: with them headers end.       *)
Pairs(u) == {x \in 1..Len(u) - 1 : u[x] = "LF" /\ u[x + 1] = "CR"}

(* When parseHeaders is at the end of a line, it has seen it.              *)
LineInv(b, k, s) ==
    /\ s.end = "no" /\ s.h = "lf" =>
         s.line \in 1..Len(b) /\ b[s.line] = "LF" /\ (k = 0 \/ s.line = k)
    /\ s.end = "no" /\ s.h = "endcr" => s.line \in Pairs(b)
    /\ s.end # "error" /\ s.h = "endlf" => Pairs(b) # {}

(* Of a round: when it ends a line, or the headers.                        *)
LEMMA LineGoes ==
  ASSUME NEW s \in LoopStates, s.end = "no", NEW tok \in Words
  PROVE  LET r == Round(s, tok) IN
         /\ r.end = "no" /\ r.h = "lf" => tok = "LF" /\ r.line = s.i
         /\ r.end = "no" /\ r.h = "endcr" => s.h = "lf" /\ tok = "CR" /\ r.line = s.line
         /\ r.end # "error" /\ r.h = "endlf" => s.h \in {"endcr", "endlf"}
<1> DEFINE r == Round(s, tok)
           newline == tok \in {"CR", "LF"}
<1>1. /\ s.h = "start" => r.end = "no" /\ r.h \in {"start", "key"}
      /\ s.h = "key" => r.end = "error" \/ (r.end = "no" /\ r.h \in {"colon", "key"})
      /\ s.h = "colon" => r.end = "error" \/ (r.end = "no" /\ r.h = "space")
      /\ s.h = "space" => r.end = "no" /\ r.h = "value"
      /\ s.h = "value" => r.end = "no" /\ r.h \in {"cr", "value"}
  BY RoundIs DEF Goes
<1>2. /\ s.h = "cr" => r.end = "error" \/ (tok = "LF" /\ r.end = "no" /\ r.h = "lf" /\ r.line = s.i)
      /\ s.h = "lf" => \/ r.end = "no" /\ r.h = "key"
                       \/ tok = "CR" /\ r.end = "no" /\ r.h = "endcr" /\ r.line = s.line
      /\ s.h = "endcr" => r.end = "error" \/ (r.end = "no" /\ r.h = "endlf")
      /\ s.h = "endlf" => r.end = "body"
  <2>1. s.h = "cr" => r.end = "error" \/ (tok = "LF" /\ Goes(s, r, "lf", s.i))
    <3>1. s.h = "cr" => IF tok = "LF" THEN Goes(s, r, "lf", s.i) ELSE r.end = "error"
      BY RoundIs, Zenon
    <3> QED BY <3>1
  <2>2. s.h = "lf" => \/ Goes(s, r, "key", s.line)
                      \/ tok = "CR" /\ Goes(s, r, "endcr", s.line)
    <3>1. s.h = "lf" => IF tok = "CR" THEN Goes(s, r, "endcr", s.line) ELSE Goes(s, r, "key", s.line)
      BY RoundIs, Zenon
    <3> QED BY <3>1
  <2>3. s.h = "endcr" => r.end = "error" \/ Goes(s, r, "endlf", s.line)
    <3>1. s.h = "endcr" => IF tok = "LF" THEN Goes(s, r, "endlf", s.line) ELSE r.end = "error"
      BY RoundIs, Zenon
    <3> QED BY <3>1
  <2>4. s.h = "endlf" => r.end = "body"
    BY EndGoes
  <2> HIDE DEF r
  <2> QED BY <2>1, <2>2, <2>3, <2>4 DEF Goes
<1>3. s.h \in HStates
  BY DEF LoopStates
<1> HIDE DEF r
<1>4. /\ r.end = "no" /\ r.h = "lf" => tok = "LF" /\ r.line = s.i
      /\ r.end = "no" /\ r.h = "endcr" => s.h = "lf" /\ tok = "CR" /\ r.line = s.line
      /\ r.end # "error" /\ r.h = "endlf" => s.h \in {"endcr", "endlf"}
  BY <1>1, <1>2, <1>3 DEF HStates
<1> QED BY <1>4 DEF r

(* So that the loop has seen what its state says of line ends.             *)
LEMMA LoopLines ==
  ASSUME NEW b \in Seq(Words), NEW h \in HStates \ {"endlf"}, keepHeader \in BOOLEAN,
         h = "lf" => Len(b) >= 1 /\ b[1] = "LF",
         h = "endcr" => 1 \in Pairs(b)
  PROVE  LineInv(b, Len(b), Loop(b, h))
<1>1. PICK f : /\ Loop(b, h) = f[Len(b)] /\ f[0] = LoopStart(h)
               /\ \A k \in 1..Len(b) : f[k] = LoopStep(f[k - 1], b[k])
               /\ \A k \in 0..Len(b) : LoopInv(b, k, f[k])
  BY LoopIs
<1> DEFINE G == {k \in 0..Len(b) : LineInv(b, k, f[k])}
<1>2. 0 \in G
  <2>1. f[0].h = h /\ f[0].line = 1 /\ f[0].end = "no"
    BY <1>1 DEF LoopStart
  <2>2. LineInv(b, 0, f[0])
    BY <2>1 DEF LineInv
  <2> QED BY <2>2
<1>3. ASSUME NEW k \in 1..Len(b), k - 1 \in G PROVE k \in G
  <2> DEFINE s == f[k - 1]
             r == Round(s, b[k])
  <2>1. LineInv(b, k - 1, s) /\ LoopInv(b, k - 1, s) /\ f[k] = LoopStep(s, b[k])
    <3>1. k - 1 \in 0..Len(b)
      BY <1>3
    <3> QED BY <1>1, <1>3, <3>1
  <2>2. /\ s \in LoopStates /\ s.line \in 1..k /\ (s.end = "no" => s.i = k) /\ k \in 0..Len(b)
        /\ b[k] \in Words /\ k \in Nat /\ Len(b) \in Nat
    <3>1. s \in LoopStates /\ s.line \in 1..(k - 1) + 1 /\ (s.end = "no" => s.i = (k - 1) + 1)
      BY <2>1 DEF LoopInv
    <3> QED BY <3>1
  <2> HIDE DEF s
  <2>3. SUFFICES LineInv(b, k, LoopStep(s, b[k]))
    BY <2>1, <2>2
  <2>4. CASE s.end # "no"
    <3>1. LoopStep(s, b[k]) = s
      BY <2>4 DEF LoopStep
    <3> QED BY <2>1, <2>4, <3>1 DEF LineInv
  <2>5. CASE s.end = "no"
    <3>1. LoopStep(s, b[k]) = r
      BY <2>5 DEF LoopStep
    <3>2. /\ r.end = "no" /\ r.h = "lf" => b[k] = "LF" /\ r.line = k
          /\ r.end = "no" /\ r.h = "endcr" => s.h = "lf" /\ b[k] = "CR" /\ r.line = s.line
          /\ r.end # "error" /\ r.h = "endlf" => s.h \in {"endcr", "endlf"}
      BY <2>2, <2>5, LineGoes
    <3> HIDE DEF r
    <3>3. r.end = "no" /\ r.h = "endcr" => r.line \in Pairs(b)
      <4>1. SUFFICES ASSUME r.end = "no", r.h = "endcr" PROVE r.line \in Pairs(b)
        OBVIOUS
      <4>2. s.h = "lf" /\ b[k] = "CR" /\ r.line = s.line
        BY <3>2, <4>1
      <4>3. s.line \in 1..Len(b) /\ b[s.line] = "LF" /\ (k - 1 = 0 \/ s.line = k - 1)
        BY <2>1, <2>5, <4>2 DEF LineInv
      <4>4. s.line = k - 1
        BY <2>2, <4>2, <4>3
      <4>5. s.line \in 1..Len(b) - 1 /\ s.line + 1 = k
        BY <2>2, <4>3, <4>4
      <4> QED BY <4>2, <4>3, <4>5 DEF Pairs
    <3>4. r.end # "error" /\ r.h = "endlf" => Pairs(b) # {}
      BY <2>1, <2>5, <3>2 DEF LineInv
    <3>5. LineInv(b, k, r)
      BY <2>2, <3>2, <3>3, <3>4 DEF LineInv
    <3> QED BY <3>1, <3>5
  <2> QED BY <2>4, <2>5
<1> HIDE DEF G
<1>4. Len(b) \in Nat /\ Len(b) \in 0..Len(b)
  OBVIOUS
<1>5. \A k \in 0..Len(b) : k \in G
  BY <1>2, <1>3, <1>4, NumberInduction
<1> QED BY <1>1, <1>4, <1>5 DEF G

(* There are finitely many.                                                *)
LEMMA PairsFinite ==
  ASSUME NEW u \in Seq(Words)
  PROVE  IsFiniteSet(Pairs(u)) /\ Cardinality(Pairs(u)) \in Nat
<1>1. Len(u) \in Nat /\ Pairs(u) \subseteq 1..Len(u)
  BY DEF Pairs
<1>2. IsFiniteSet(1..Len(u))
  BY <1>1, FS_Interval
<1>3. IsFiniteSet(Pairs(u))
  BY <1>1, <1>2, FS_Subset
<1> QED BY <1>3, FS_CardinalityType

(* A request adds one.                                                     *)
LEMMA JoinPairs ==
  ASSUME NEW u \in Seq(Words), NEW q \in Requests
  PROVE  Cardinality(Pairs(u \o Encode(q))) <= Cardinality(Pairs(u)) + 1
<1> DEFINE e == Encode(q)
           w == u \o e
           n == Len(u)
<1>1. /\ e \in Seq(Words) /\ Len(e) \in Nat /\ Len(e) >= 19 /\ Headed(e, q)
      /\ q.method # "POST" => Len(e) <= 19
      /\ q.method = "POST" =>
           /\ q.text \in Seq(Words) /\ Len(e) = Len(q.text) + 21
           /\ \A x \in 1..Len(q.text) + 2 : e[19 + x] = Frame(q.text)[x]
  BY EncodeIs
<1> HIDE DEF e
<1>10. e \in Seq(Words) /\ Len(e) \in Nat /\ (Len(e) > 19 => q.method = "POST")
  BY <1>1
<1>11. /\ e[1] = q.method /\ e[2] = q.path /\ e[3] = "HTTP/1.1" /\ e[4] = "CR"
       /\ e[6] = "Host" /\ e[7] = ":" /\ e[8] = " " /\ e[9] = "address" /\ e[10] = "CR"
       /\ e[12] = "Connection" /\ e[13] = ":" /\ e[14] = " " /\ e[15] = "Keep-Alive"
       /\ e[16] = "CR" /\ e[18] = "CR"
  <2>1. Headed(e, q)
    BY <1>1
  <2> QED BY <2>1 DEF Headed
<1>12. e[5 + 1] # "CR" /\ e[11 + 1] # "CR"
  <2>1. e[6] = "Host" /\ e[12] = "Connection"
    BY <1>11
  <2> QED BY <2>1
<1>2. /\ w \in Seq(Words) /\ n \in Nat /\ Len(w) = n + Len(e)
      /\ \A x \in 1..n : w[x] = u[x]
      /\ \A x \in 1..Len(e) : w[n + x] = e[x]
  BY <1>1, JoinIs
<1> HIDE DEF w
<1>3. q.method # "CR" /\ q.method # "LF" /\ q.path # "LF"
  BY ParserAssumption
<1>4. ASSUME NEW y \in 1..Len(e), y > 19 PROVE e[y] # "LF"
  <2>1. q.method = "POST" /\ q.text \in Seq(Words) /\ "LF" \notin ToSet(q.text)
    <3>1. q.method = "POST"
      BY <1>10, <1>4
    <3> QED BY <3>1, TextIs
  <2>2. Len(q.text) \in Nat /\ y - 19 \in 1..Len(q.text) + 2 /\ 19 + (y - 19) = y
    BY <1>1, <1>4, <2>1
  <2>3. e[y] = Frame(q.text)[y - 19]
    BY <1>1, <2>1, <2>2
  <2>4. Frame(q.text)[y - 19] # "LF"
    BY <2>1, <2>2, FrameIs
  <2> QED BY <2>3, <2>4
<1>5. ASSUME NEW y \in 1..Len(e) - 1, e[y] = "LF", e[y + 1] = "CR" PROVE y = 17
  <2>1. y \in {1, 2, 3, 4, 5, 6, 7, 8, 9, 10, 11, 12, 13, 14, 15, 16, 17, 18, 19}
    BY <1>1, <1>4, <1>5
  <2>2. y \notin {1, 2, 3, 4, 6, 7, 8, 9, 10}
    BY <1>3, <1>5, <1>11
  <2>3. y \notin {12, 13, 14, 15, 16, 18}
    BY <1>3, <1>5, <1>11
  <2>4. y \notin {5, 11}
    BY <1>5, <1>12
  <2>5. y # 19
    <3>1. SUFFICES ASSUME y = 19 PROVE FALSE
      OBVIOUS
    <3>2. q.method = "POST" /\ q.text \in Seq(Words) /\ "LF" \notin ToSet(q.text)
      <4>1. q.method = "POST"
        BY <1>10, <1>5, <3>1
      <4> QED BY <4>1, TextIs
    <3>3. e[20] = Frame(q.text)[1] /\ Frame(q.text)[1] = "^"
      <4>1. 1 \in 1..Len(q.text) + 2 /\ 19 + 1 = 20
        BY <3>2
      <4>2. e[19 + 1] = Frame(q.text)[1]
        BY <1>1, <3>2, <4>1
      <4> QED BY <3>2, <4>1, <4>2, FrameIs
    <3>4. e[20] = "CR"
      BY <1>5, <3>1
    <3> QED BY <3>3, <3>4
  <2> QED BY <2>1, <2>2, <2>3, <2>4, <2>5
<1>6. Pairs(w) \subseteq Pairs(u) \cup {n + 17}
  <2>1. SUFFICES ASSUME NEW x \in Pairs(w) PROVE x \in Pairs(u) \cup {n + 17}
    OBVIOUS
  <2>2. x \in 1..Len(w) - 1 /\ w[x] = "LF" /\ w[x + 1] = "CR"
    BY DEF Pairs
  <2>3. CASE x <= n - 1
    <3>1. x \in 1..Len(u) - 1 /\ x + 1 \in 1..n /\ x \in 1..n
      BY <1>2, <2>2, <2>3
    <3>2. u[x] = "LF" /\ u[x + 1] = "CR"
      BY <1>2, <2>2, <3>1
    <3> QED BY <3>1, <3>2 DEF Pairs
  <2>4. CASE x = n
    <3>1. w[n + 1] = e[1]
      BY <1>1, <1>2
    <3>2. e[1] = q.method
      BY <1>11
    <3> QED BY <1>3, <2>2, <2>4, <3>1, <3>2
  <2>5. CASE x > n
    <3>1. x - n \in 1..Len(e) - 1 /\ n + (x - n) = x /\ n + ((x - n) + 1) = x + 1
          /\ x - n \in 1..Len(e) /\ (x - n) + 1 \in 1..Len(e)
      BY <1>1, <1>2, <2>2, <2>5
    <3>2. e[x - n] = "LF" /\ e[(x - n) + 1] = "CR"
      <4>1. w[n + (x - n)] = e[x - n] /\ w[n + ((x - n) + 1)] = e[(x - n) + 1]
        BY <1>2, <3>1
      <4> QED BY <2>2, <3>1, <4>1
    <3>3. x - n = 17
      BY <1>5, <3>1, <3>2
    <3>4. x = n + 17
      BY <1>2, <3>1, <3>3
    <3> QED BY <3>4
  <2> QED BY <1>2, <2>2, <2>3, <2>4, <2>5
<1>7. /\ IsFiniteSet(Pairs(u) \cup {n + 17})
      /\ Cardinality(Pairs(u) \cup {n + 17}) <= Cardinality(Pairs(u)) + 1
      /\ Cardinality(Pairs(u)) \in Nat /\ Cardinality(Pairs(u) \cup {n + 17}) \in Nat
  <2>1. IsFiniteSet(Pairs(u)) /\ Cardinality(Pairs(u)) \in Nat
    BY PairsFinite
  <2> DEFINE P == Pairs(u)
             z == n + 17
  <2>2. IsFiniteSet(P) /\ Cardinality(P) \in Nat
    BY <2>1
  <2> HIDE DEF P, z
  <2>3. /\ IsFiniteSet(P \cup {z})
        /\ Cardinality(P \cup {z}) = IF z \in P THEN Cardinality(P) ELSE Cardinality(P) + 1
    BY <2>2, FS_AddElement
  <2>4. /\ IsFiniteSet(P \cup {z}) /\ Cardinality(P \cup {z}) <= Cardinality(P) + 1
        /\ Cardinality(P) \in Nat /\ Cardinality(P \cup {z}) \in Nat
    BY <2>2, <2>3
  <2> QED BY <2>4 DEF P, z
<1>8. Cardinality(Pairs(w)) <= Cardinality(Pairs(u) \cup {n + 17}) /\ Cardinality(Pairs(w)) \in Nat
  BY <1>2, <1>6, <1>7, FS_Subset, PairsFinite
<1>9. Cardinality(Pairs(w)) <= Cardinality(Pairs(u)) + 1
  BY <1>7, <1>8
<1> QED BY <1>9 DEF w, e

(* What is left has those behind the place where it begins.                *)
LEMMA TailPairs ==
  ASSUME NEW u \in Seq(Words), NEW a \in 1..Len(u) + 1
  PROVE  LET v == SubSeq(u, a, Len(u)) IN
         /\ Cardinality(Pairs(v)) <= Cardinality(Pairs(u))
         /\ (\E x \in Pairs(u) : x < a) => Cardinality(Pairs(v)) + 1 <= Cardinality(Pairs(u))
<1> DEFINE v == SubSeq(u, a, Len(u))
           d == a - 1
           f == [x \in Pairs(v) |-> x + d]
<1>1. /\ v \in Seq(Words) /\ Len(v) = Len(u) - d /\ d \in Nat /\ d <= Len(u) /\ Len(u) \in Nat
      /\ \A x \in 1..Len(u) - d : v[x] = u[x + d]
  <2>1. a \in 1..Len(u) + 1 /\ Len(u) \in 0..Len(u) /\ a <= Len(u) + 1 /\ Len(u) \in Nat
    OBVIOUS
  <2>2. /\ v \in Seq(Words) /\ Len(v) = Len(u) - a + 1
        /\ \A x \in 1..Len(u) - a + 1 : v[x] = u[x + a - 1]
    BY <2>1, CutIs
  <2>3. \A x \in 1..Len(u) - d : x \in 1..Len(u) - a + 1 /\ x + a - 1 = x + d
    BY <2>1
  <2> QED BY <2>1, <2>2, <2>3
<1>2. a = d + 1
  OBVIOUS
<1> HIDE DEF v, d
<1>3. ASSUME NEW x \in Pairs(v) PROVE x + d \in Pairs(u) /\ x \in Nat /\ x >= 1
  <2>1. x \in 1..Len(v) - 1 /\ v[x] = "LF" /\ v[x + 1] = "CR"
    BY DEF Pairs
  <2>2. x + d \in 1..Len(u) - 1 /\ x \in 1..Len(u) - d /\ x + 1 \in 1..Len(u) - d
        /\ (x + 1) + d = (x + d) + 1
    BY <1>1, <2>1
  <2>3. u[x + d] = "LF" /\ u[(x + d) + 1] = "CR"
    <3>1. v[x] = u[x + d] /\ v[x + 1] = u[(x + 1) + d]
      BY <1>1, <2>2
    <3> QED BY <2>1, <2>2, <3>1
  <2> QED BY <2>1, <2>2, <2>3 DEF Pairs
<1>4. IsFiniteSet(Pairs(u)) /\ Cardinality(Pairs(u)) \in Nat /\ Cardinality(Pairs(v)) \in Nat
  BY <1>1, PairsFinite
<1>5. f \in Injection(Pairs(v), Pairs(u))
  <2>1. f \in [Pairs(v) -> Pairs(u)]
    BY <1>3
  <2>2. \A x, y \in Pairs(v) : f[x] = f[y] => x = y
    BY <1>1, <1>3
  <2> HIDE DEF f
  <2> QED BY <2>1, <2>2 DEF Injection, IsInjective
<1>6. /\ Cardinality(Pairs(v)) <= Cardinality(Pairs(u))
      /\ Cardinality(Pairs(v)) = Cardinality(Pairs(u)) <=> f \in Surjection(Pairs(v), Pairs(u))
  <2> HIDE DEF f
  <2> QED BY <1>4, <1>5, FS_Injection
<1>7. ASSUME NEW x \in Pairs(u), x < a PROVE f \notin Surjection(Pairs(v), Pairs(u))
  <2>1. SUFFICES ASSUME f \in Surjection(Pairs(v), Pairs(u)) PROVE FALSE
    OBVIOUS
  <2>2. PICK y \in Pairs(v) : f[y] = x
    <3> HIDE DEF f
    <3> QED BY <2>1 DEF Surjection
  <2>3. y + d = x /\ x \in Nat /\ a \in Nat
    BY <2>2 DEF Pairs
  <2> QED BY <1>1, <1>2, <1>3, <1>7, <2>3
<1>8. (\E x \in Pairs(u) : x < a) => Cardinality(Pairs(v)) + 1 <= Cardinality(Pairs(u))
  BY <1>4, <1>6, <1>7
<1> QED BY <1>6, <1>8 DEF v

-----------------------------------------------------------------------------
(* The invariant of the whole connection.                                  *)

Replies == {"ok", "bad", "not found"}

(* How much of the last request is before what is not yet read.            *)
Past == Len(Encode(client.last)) - Len(Unread)

(* While a client that never went on without an answer waits for one, what *)
(* is left to read ends with its last request, or is the end of it from    *)
(* the start of a line, which the parser can go on with; and not all of it *)
(* has arrived.                                                            *)
Coming ==
    client.phase = "waiting" /\ ~client.late /\ open /\ answers = <<>> =>
        /\ wire # <<>>
        /\ \A x \in 1..Len(Unread) : x + Past >= 1 => Unread[x] = Encode(client.last)[x + Past]
        /\ Past <= 0 \/ (state = "headers" /\ Past \in Cuts /\ hState \in Begun(Past))

(* The buffer begins with the end of the line after which the parser is.   *)
Marked ==
    /\ hState = "lf" => Len(buf) >= 1 /\ buf[1] = "LF"
    /\ hState = "endcr" => Len(buf) >= 2 /\ buf[1] = "LF" /\ buf[2] = "CR"

(* An answer takes an end of headers from the stream, so there are no more *)
(* answers than requests, but for the one that closes the connection.      *)
Counted ==
    Len(answers) + Cardinality(Pairs(Unread)) <= client.count + (IF open THEN 0 ELSE 1)

Closed == ~open => buf = <<>> /\ wire = <<>>

Typed ==
    /\ state \in {"uri", "headers"}
    /\ req \in [method : Methods, path : Words]
    /\ keepAlive \in BOOLEAN /\ open \in BOOLEAN
    /\ cache \subseteq Pages
    /\ client \in [phase : {"idle", "waiting", "left"}, last : Requests,
                   count : 0..MaxRequests, late : BOOLEAN]
    /\ answers \in Seq(Replies)
    /\ state = "uri" => buf = <<>> /\ hState = "start" /\ ~keepHeader

(* The inductive invariant of the whole connection.                        *)
ServerInv == ParserInv /\ Typed /\ Marked /\ Counted /\ Closed /\ Coming

(* What the invariant says of types.                                       *)
LEMMA ServerTypes ==
  ASSUME ServerInv
  PROVE  /\ buf \in Seq(Words) /\ wire \in Seq(Words) /\ Unread \in Seq(Words)
         /\ Len(buf) \in Nat /\ Len(wire) \in Nat /\ Len(Unread) = Len(buf) + Len(wire)
         /\ hState \in HStates \ {"endlf"} /\ keepHeader \in BOOLEAN
         /\ client.last \in Requests /\ client.count \in Nat
         /\ answers \in Seq(Replies) /\ Len(answers) \in Nat
         /\ Cardinality(Pairs(Unread)) \in Nat
<1>1. buf \in Seq(Words) /\ wire \in Seq(Words) /\ hState \in HStates \ {"endlf"} /\ keepHeader \in BOOLEAN
  BY DEF ServerInv, ParserInv
<1>2. Unread \in Seq(Words) /\ Len(Unread) = Len(buf) + Len(wire) /\ Len(buf) \in Nat /\ Len(wire) \in Nat
  BY <1>1, JoinIs DEF Unread
<1>3. client.last \in Requests /\ client.count \in Nat /\ answers \in Seq(Replies)
  <2>1. MaxRequests \in Nat
    BY ParserAssumption
  <2> QED BY <2>1 DEF ServerInv, Typed
<1>4. Cardinality(Pairs(Unread)) \in Nat
  BY <1>2, PairsFinite
<1> QED BY <1>1, <1>2, <1>3, <1>4

(* The type invariant follows from it.                                     *)
LEMMA TypesHold ==
  ASSUME ServerInv
  PROVE  TypeOK
<1>1. {buf, wire} \subseteq Seq(Words) /\ hState \in HStates \ {"endlf"} /\ keepHeader \in BOOLEAN
  BY ServerTypes
<1>2. Len(answers) <= client.count + 1
  BY ServerTypes DEF ServerInv, Counted
<1>3. ToSet(answers) \subseteq Replies
  BY ServerTypes DEF ToSet
<1> QED BY <1>1, <1>2, <1>3 DEF TypeOK, ServerInv, Typed, Replies

(* A stream without tokens has no end of headers.                          *)
LEMMA NoPairs == Pairs(<<>>) = {} /\ Cardinality(Pairs(<<>>)) = 0
<1>1. Pairs(<<>>) = {}
  BY DEF Pairs
<1> QED BY <1>1, FS_EmptySet

(* It holds at first.                                                      *)
LEMMA ServerInit == ASSUME Init PROVE ServerInv
<1>1. ParserInv
  BY InitEstablishes
<1>2. Typed
  <2>1. Hello.path \in Words /\ MaxRequests \in Nat
    BY ParserAssumption DEF Words
  <2>2. Hello \in Requests
    BY ParserAssumption
  <2>3. client \in [phase : {"idle", "waiting", "left"}, last : Requests,
                    count : 0..MaxRequests, late : BOOLEAN]
    BY <2>1, <2>2 DEF Init
  <2>4. req \in [method : Methods, path : Words] /\ answers \in Seq(Replies)
    BY <2>1 DEF Init, Methods
  <2>5. cache \subseteq Pages
    BY DEF Init
  <2> QED BY <2>3, <2>4, <2>5 DEF Init, Typed
<1>3. Marked /\ Closed /\ Coming
  BY DEF Init, Marked, Closed, Coming
<1>4. Counted
  <2>1. Unread = <<>> /\ answers = <<>> /\ client.count = 0 /\ open
    BY DEF Init, Unread
  <2>2. Cardinality(Pairs(Unread)) = 0 /\ Len(answers) = 0
    BY <2>1, NoPairs
  <2> QED BY <2>1, <2>2 DEF Counted
<1> QED BY <1>1, <1>2, <1>3, <1>4 DEF ServerInv

(* It is kept when the client sends: the request comes last in the stream, *)
(* and adds one end of headers.                                            *)
LEMMA ServerSend ==
  ASSUME ServerInv, NEW q \in Requests, Send(q)
  PROVE  ServerInv'
<1> DEFINE e == Encode(q)
<1>1. /\ UNCHANGED <<buf, state, hState, req, keepHeader, keepAlive, open, cache, stored, answers>>
      /\ wire' = IF open THEN wire \o e ELSE wire
      /\ client.phase = "idle" /\ client.count < MaxRequests
      /\ client' = [client EXCEPT !.phase = "waiting", !.last = q, !.count = @ + 1]
  BY DEF Send, parser
<1>2. ParserInv'
  BY SendKeeps DEF ServerInv
<1>3. /\ client.count \in 0..MaxRequests /\ MaxRequests \in Nat
      /\ client \in [phase : {"idle", "waiting", "left"}, last : Requests,
                     count : 0..MaxRequests, late : BOOLEAN]
  BY ParserAssumption DEF ServerInv, Typed
<1>4. /\ client' \in [phase : {"idle", "waiting", "left"}, last : Requests,
                      count : 0..MaxRequests, late : BOOLEAN]
      /\ client'.count = client.count + 1 /\ client'.last = q
  <2> DEFINE k == client.count + 1
  <2>1. k \in 0..MaxRequests
    BY <1>1, <1>3
  <2>2. client' = [client EXCEPT !.phase = "waiting", !.last = q, !.count = k]
    BY <1>1
  <2> HIDE DEF k
  <2>3. client'.count = k /\ client'.last = q
    BY <1>3, <2>2
  <2>4. client' \in [phase : {"idle", "waiting", "left"}, last : Requests,
                     count : 0..MaxRequests, late : BOOLEAN]
    BY <1>3, <2>1, <2>2
  <2> QED BY <2>3, <2>4 DEF k
<1>5. Typed'
  BY <1>1, <1>4 DEF ServerInv, Typed
<1>6. Marked'
  BY <1>1 DEF ServerInv, Marked
<1>7. Closed'
  BY <1>1 DEF ServerInv, Closed
<1>8. /\ e \in Seq(Words) /\ Len(e) \in Nat /\ Len(e) >= 19
  BY EncodeIs
<1>9. buf \in Seq(Words) /\ wire \in Seq(Words) /\ Unread \in Seq(Words)
  BY ServerTypes
<1> HIDE DEF e
<1>10. open => Unread' = Unread \o e
  <2>1. (buf \o wire) \o e = buf \o (wire \o e)
    <3>1. buf \in Seq(Words) /\ wire \in Seq(Words) /\ e \in Seq(Words)
      BY <1>8, <1>9
    <3> QED BY ONLY <3>1, ConcatAssociative
  <2>2. open => Unread' = buf \o (wire \o e)
    BY <1>1 DEF Unread
  <2> QED BY <2>1, <2>2 DEF Unread
<1>11. Counted'
  <2>1. /\ Len(answers) \in Nat /\ client.count \in Nat /\ Cardinality(Pairs(Unread)) \in Nat
        /\ Len(answers) + Cardinality(Pairs(Unread)) <= client.count + (IF open THEN 0 ELSE 1)
    BY ServerTypes DEF ServerInv, Counted
  <2>2. CASE open
    <3>1. Cardinality(Pairs(Unread \o e)) <= Cardinality(Pairs(Unread)) + 1
      BY <1>9, JoinPairs DEF e
    <3>2. Cardinality(Pairs(Unread \o e)) \in Nat
      <4>1. Unread \o e \in Seq(Words)
        BY <1>8, <1>9
      <4> QED BY <4>1, PairsFinite
    <3>3. Len(answers) + Cardinality(Pairs(Unread \o e)) <= client.count + 1
      BY <2>1, <2>2, <3>1, <3>2
    <3>4. Unread' = Unread \o e /\ answers' = answers /\ open' /\ client'.count = client.count + 1
      BY <1>1, <1>4, <1>10, <2>2
    <3>5. Len(answers') + Cardinality(Pairs(Unread')) <= client'.count
      BY <3>3, <3>4
    <3>6. client'.count + 0 = client'.count
      BY <2>1, <3>4
    <3> QED BY <3>4, <3>5, <3>6 DEF Counted
  <2>3. CASE ~open
    <3>1. Unread' = Unread
      BY <1>1, <2>3 DEF Unread
    <3> QED BY <1>1, <1>4, <2>1, <2>3, <3>1 DEF Counted
  <2> QED BY <2>2, <2>3
<1>12. Coming'
  <2>1. SUFFICES ASSUME open
                 PROVE  /\ wire' # <<>> /\ Past' <= 0
                        /\ \A x \in 1..Len(Unread') : x + Past' >= 1 => Unread'[x] = e[x + Past']
    BY <1>1, <1>4 DEF Coming, e
  <2>2. /\ Len(Unread') = Len(Unread) + Len(e) /\ Len(Unread) \in Nat
        /\ \A x \in 1..Len(e) : Unread'[Len(Unread) + x] = e[x]
    BY <1>8, <1>9, <1>10, <2>1, JoinIs
  <2>3. wire' # <<>>
    <3>1. wire' = wire \o e
      BY <1>1, <2>1
    <3>2. Len(wire \o e) = Len(wire) + Len(e) /\ Len(wire) \in Nat
      BY <1>8, <1>9, JoinIs
    <3>3. Len(wire') >= 19
      BY <1>8, <3>1, <3>2
    <3> QED BY <3>3
  <2>4. Past' = Len(e) - Len(Unread')
    BY <1>4 DEF Past, e
  <2>5. Past' = 0 - Len(Unread)
    BY <1>8, <2>2, <2>4
  <2>6. ASSUME NEW x \in 1..Len(Unread'), x + Past' >= 1 PROVE Unread'[x] = e[x + Past']
    <3>1. x + Past' \in 1..Len(e) /\ Len(Unread) + (x + Past') = x
      BY <1>8, <2>2, <2>5, <2>6
    <3> QED BY <2>2, <3>1
  <2> QED BY <2>2, <2>3, <2>5, <2>6
<1> QED BY <1>2, <1>5, <1>6, <1>7, <1>11, <1>12 DEF ServerInv

(* It is kept when the client takes its answers, or goes on without.       *)
LEMMA ServerClient ==
  ASSUME ServerInv, TakeAnswers \/ NoAnswer
  PROVE  ServerInv'
<1>1. /\ UNCHANGED <<buf, state, hState, req, keepHeader, keepAlive, open, cache, stored, wire>>
      /\ answers' \in {answers, <<>>}
      /\ \/ client' = [client EXCEPT !.phase = "idle"]
         \/ client' = [client EXCEPT !.phase = "left"]
         \/ client' = [client EXCEPT !.phase = "idle", !.late = TRUE]
  BY DEF TakeAnswers, NoAnswer, parser
<1>2. ParserInv'
  BY <1>1 DEF ServerInv, ParserInv, Unread, StoredAsSent
<1>3. client \in [phase : {"idle", "waiting", "left"}, last : Requests,
                  count : 0..MaxRequests, late : BOOLEAN]
  BY DEF ServerInv, Typed
<1>4. /\ client' \in [phase : {"idle", "waiting", "left"}, last : Requests,
                      count : 0..MaxRequests, late : BOOLEAN]
      /\ client'.count = client.count /\ client'.phase # "waiting"
  BY <1>1, <1>3
<1>5. answers' \in Seq(Replies) /\ Len(answers') \in Nat /\ Len(answers') <= Len(answers)
  <2>1. answers \in Seq(Replies) /\ Len(answers) \in Nat
    BY ServerTypes
  <2>2. <<>> \in Seq(Replies) /\ Len(<<>>) = 0
    OBVIOUS
  <2>3. CASE answers' = answers
    BY <2>1, <2>3
  <2>4. CASE answers' = <<>>
    BY <2>1, <2>2, <2>4
  <2> QED BY <1>1, <2>3, <2>4
<1>6. Typed'
  BY <1>1, <1>4, <1>5 DEF ServerInv, Typed
<1>7. Marked' /\ Closed' /\ Unread' = Unread
  BY <1>1 DEF ServerInv, Marked, Closed, Unread
<1>8. Counted'
  <2>1. /\ Len(answers) \in Nat /\ client.count \in Nat /\ Cardinality(Pairs(Unread)) \in Nat
        /\ Len(answers) + Cardinality(Pairs(Unread)) <= client.count + (IF open THEN 0 ELSE 1)
    BY ServerTypes DEF ServerInv, Counted
  <2>2. Len(answers') + Cardinality(Pairs(Unread)) <= client.count + (IF open THEN 0 ELSE 1)
    BY <1>5, <2>1
  <2> QED BY <1>1, <1>4, <1>7, <2>2 DEF Counted
<1>9. Coming'
  BY <1>4 DEF Coming
<1> QED BY <1>2, <1>6, <1>7, <1>8, <1>9 DEF ServerInv

(* It does not depend on the requests of others.                           *)
LEMMA ServerOthers ==
  ASSUME ServerInv, OthersCache \/ UNCHANGED vars
  PROVE  ServerInv'
<1>1. /\ UNCHANGED <<buf, state, hState, req, keepHeader, keepAlive, open, stored, wire, answers, client>>
      /\ cache' \subseteq Pages
  <2>1. cache \subseteq Pages
    BY DEF ServerInv, Typed
  <2>2. CASE OthersCache
    BY <2>1, <2>2 DEF OthersCache, parser
  <2>3. CASE UNCHANGED vars
    BY <2>1, <2>3 DEF vars, parser
  <2> QED BY <2>2, <2>3
<1>2. ParserInv'
  BY <1>1 DEF ServerInv, ParserInv, Unread, StoredAsSent
<1>3. Typed'
  BY <1>1 DEF ServerInv, Typed
<1>4. Unread' = Unread /\ Past' = Past
  BY <1>1 DEF Unread, Past
<1>5. Marked' /\ Closed' /\ Counted'
  BY <1>1, <1>4 DEF ServerInv, Marked, Closed, Counted
<1>6. Coming'
  BY <1>1, <1>4 DEF ServerInv, Coming
<1> QED BY <1>2, <1>3, <1>5, <1>6 DEF ServerInv

-----------------------------------------------------------------------------
(* What a call of handleRead leaves.                                       *)

(* What a request line says is a method and a token of the line.           *)
LEMMA LineIsParsed ==
  ASSUME NEW line \in Seq(Words), LineOK(line)
  PROVE  ParsedLine(line) \in [method : Methods, path : Words]
<1>1. MethodOf(line) \in Methods
  BY DEF MethodOf, Methods
<1>2. Slashes(line) # {}
  BY DEF LineOK
<1>3. Slashes(line) \subseteq 1..Len(line) /\ Slashes(line) \subseteq Nat
  BY DEF Slashes
<1>4. PathAt(line) \in 1..Len(line)
  BY <1>2, <1>3, FirstIs DEF PathAt
<1>5. line[PathAt(line)] \in Words
  BY <1>4
<1> QED BY <1>1, <1>5 DEF ParsedLine

(* So the request has its types, also when its line came in an earlier     *)
(* piece.                                                                  *)
LEMMA RequestIsParsed ==
  ASSUME ServerInv, NEW n \in 1..Len(wire), ~Parsed(n).bad
  PROVE  Parsed(n).req \in [method : Methods, path : Words]
<1> DEFINE b == Taken(n)
           line == RequestLine(b)
<1>1. b \in Seq(Words)
  <2>1. /\ Unread \in Seq(Words) /\ b = SubSeq(Unread, 1, Len(buf) + n)
        /\ Len(Unread) = Len(buf) + Len(wire) /\ Len(buf) \in Nat /\ Len(wire) \in Nat
    BY ServerTypes, TakenIs
  <2>2. 1 \in 1..Len(Unread) + 1 /\ Len(buf) + n \in 0..Len(Unread) /\ 1 <= Len(buf) + n + 1
    BY <2>1
  <2> QED BY <2>1, <2>2, CutIs
<1>2. CASE NoLine
  <2>1. LineOK(line) /\ Parsed(n).req = ParsedLine(line)
    BY <1>2 DEF Parsed
  <2>2. line \in Seq(Words)
    <3> HIDE DEF b
    <3>1. CASE LineEnds(b) = {}
      BY <1>1, <3>1 DEF RequestLine
    <3>2. CASE LineEnds(b) # {}
      <4>1. LineEnds(b) \subseteq 1..Len(b) - 1 /\ LineEnds(b) \subseteq Nat /\ Len(b) \in Nat
        BY <1>1 DEF LineEnds
      <4>2. First(LineEnds(b)) \in 1..Len(b) - 1
        BY <3>2, <4>1, FirstIs
      <4> DEFINE m == First(LineEnds(b)) - 1
      <4>3. 1 \in 1..Len(b) + 1 /\ m \in 0..Len(b) /\ 1 <= m + 1
        BY <4>1, <4>2
      <4>4. line = SubSeq(b, 1, m)
        BY <3>2 DEF RequestLine
      <4> HIDE DEF m
      <4> QED BY <1>1, <4>3, <4>4, CutIs
    <3> QED BY <3>1, <3>2
  <2> HIDE DEF line
  <2> QED BY <2>1, <2>2, LineIsParsed
<1>3. CASE ~NoLine
  <2>1. Parsed(n).req = req
    BY <1>3 DEF Parsed
  <2> QED BY <2>1 DEF ServerInv, Typed
<1> QED BY <1>2, <1>3

(* How a call of handleRead ends: with the connection closed, with an      *)
(* answer to a whole request, or waiting for the rest of one.              *)
LEMMA ReadEnds ==
  ASSUME ServerInv, NEW n \in 1..Len(wire), Read(n)
  PROVE  /\ open /\ client' = client /\ keepAlive' \in BOOLEAN /\ open' \in BOOLEAN
         /\ cache' \subseteq Pages /\ req' \in [method : Methods, path : Words]
         /\ \/ /\ Reset /\ ReadThen(n, FALSE)
               /\ answers' = answers \/ \E x \in Replies : answers' = Append(answers, x)
            \/ /\ Reset /\ ReadThen(n, TRUE) /\ Complete(Parsed(n))
               /\ \E x \in Replies : answers' = Append(answers, x)
            \/ keepAlive /\ Await(Parsed(n))
<1> DEFINE p == Parsed(n)
<1>1. Handle(p) /\ open
  BY DEF Read
<1>2. p.n = n
  BY DEF Parsed
<1>3. ~p.bad => p.req \in [method : Methods, path : Words] /\ p.heads.keep \in BOOLEAN
  <2>1. SUFFICES ASSUME ~p.bad PROVE p.heads.keep \in BOOLEAN
    BY RequestIsParsed
  <2>2. LoopInv(Rest(n), Len(Rest(n)), p.heads)
    BY <2>1, ParsedIs DEF ServerInv
  <2> QED BY <2>2 DEF LoopInv, LoopStates
<1>4. keepAlive \in BOOLEAN /\ cache \subseteq Pages /\ req \in [method : Methods, path : Words]
  BY DEF ServerInv, Typed
<1> HIDE DEF p
<1>5. ASSUME NEW go \in BOOLEAN, ReadThen(p.n, go) PROVE client' = client /\ open' = go
  BY <1>5 DEF ReadThen
<1> DEFINE Goal ==
      /\ client' = client /\ keepAlive' \in BOOLEAN /\ open' \in BOOLEAN
      /\ cache' \subseteq Pages /\ req' \in [method : Methods, path : Words]
      /\ \/ /\ Reset /\ ReadThen(n, FALSE)
            /\ answers' = answers \/ \E x \in Replies : answers' = Append(answers, x)
         \/ /\ Reset /\ ReadThen(n, TRUE) /\ Complete(p)
            /\ \E x \in Replies : answers' = Append(answers, x)
         \/ keepAlive /\ Await(p)
<1>6. ASSUME NEW x \in Replies, NEW keep \in BOOLEAN, Answer(p, x, keep), Complete(p), cache' \subseteq Pages
      PROVE  Goal
  <2>1. /\ answers' = Append(answers, x) /\ keepAlive' = keep /\ req' = p.req
        /\ Reset /\ ReadThen(p.n, keep) /\ ~p.bad
    BY <1>6 DEF Answer, Complete
  <2>2. client' = client /\ open' = keep
    BY <1>5, <2>1
  <2>3. ReadThen(n, keep)
    BY <1>2, <2>1
  <2>4. CASE keep
    <3>1. keep = TRUE
      BY <2>4
    <3> QED BY <1>3, <1>6, <2>1, <2>2, <2>3, <3>1
  <2>5. CASE ~keep
    <3>1. keep = FALSE
      BY <2>5
    <3> QED BY <1>3, <1>6, <2>1, <2>2, <2>3, <3>1
  <2> QED BY <2>4, <2>5
<1>7. ASSUME NEW x \in Replies, Refuse(p.n, x) PROVE Goal
  <2>1. /\ answers' = Append(answers, x) /\ Reset /\ ReadThen(p.n, FALSE)
        /\ req' = req /\ keepAlive' = keepAlive /\ cache' = cache
    BY <1>7 DEF Refuse
  <2>2. client' = client /\ open' = FALSE
    BY <1>5, <2>1
  <2>3. ReadThen(n, FALSE)
    BY <1>2, <2>1
  <2> QED BY <1>4, <2>1, <2>2, <2>3
<1>14. ASSUME ~p.bad, req' = p.req, ReadThen(p.n, keepAlive), keepAlive' = keepAlive,
              cache' = cache, answers' = answers, ~keepAlive => Reset, Await(p)
       PROVE  Goal
  <2>1. client' = client /\ open' = keepAlive
    BY <1>4, <1>5, <1>14
  <2>2. CASE keepAlive
    BY <1>3, <1>4, <1>14, <2>1, <2>2
  <2>3. CASE ~keepAlive
    <3>1. keepAlive = FALSE
      BY <1>4, <2>3
    <3>2. ReadThen(n, FALSE) /\ Reset
      BY <1>2, <1>14, <3>1
    <3>3. /\ client' = client /\ keepAlive' \in BOOLEAN /\ open' \in BOOLEAN
          /\ cache' \subseteq Pages /\ req' \in [method : Methods, path : Words]
      BY <1>3, <1>4, <1>14, <2>1
    <3> QED BY <1>14, <3>2, <3>3
  <2> QED BY <2>2, <2>3
<1> SUFFICES Goal
  BY <1>1 DEF p
<1> HIDE DEF Goal
<1>8. CASE RefuseLine(p) \/ RefuseHeader(p) \/ ServeNothing(p)
  BY <1>7, <1>8 DEF RefuseLine, RefuseHeader, ServeNothing, Replies
<1>9. CASE Await(p)
  <2>1. /\ ~p.bad /\ req' = p.req /\ ReadThen(p.n, keepAlive) /\ UNCHANGED <<keepAlive, cache, answers>>
        /\ ~keepAlive => Reset
    BY <1>9 DEF Await
  <2> QED BY <1>9, <1>14, <2>1
<1>10. CASE ServePost(p)
  <2>1. Complete(p) /\ cache' = cache
    BY <1>10 DEF ServePost
  <2>2. PICK x \in Replies : Answer(p, x, keepAlive \/ p.heads.keep)
    BY <1>10 DEF ServePost, Replies
  <2>3. (keepAlive \/ p.heads.keep) \in BOOLEAN
    OBVIOUS
  <2> QED BY <1>4, <1>6, <2>1, <2>2, <2>3
<1>11. CASE ServeCached(p)
  <2>1. Complete(p) /\ cache' = cache /\ Answer(p, "ok", keepAlive) /\ "ok" \in Replies
    BY <1>11 DEF ServeCached, Asked, Replies
  <2> QED BY <1>4, <1>6, <2>1
<1>12. CASE ServeGet(p)
  <2>1. /\ Complete(p) /\ Answer(p, "ok", keepAlive \/ p.heads.keep) /\ "ok" \in Replies
        /\ cache' \in {cache, cache \cup {p.req.path}} /\ p.req.path \in Pages
    BY <1>12 DEF ServeGet, Asked, Replies
  <2>2. (keepAlive \/ p.heads.keep) \in BOOLEAN /\ cache' \subseteq Pages
    BY <1>4, <2>1
  <2> QED BY <1>6, <2>1, <2>2
<1> QED BY <1>1, <1>8, <1>9, <1>10, <1>11, <1>12 DEF Handle

(* The text that parseHeaders gets begins with what is before the place    *)
(* where it goes on.                                                       *)
LEMMA RestLines ==
  ASSUME ServerInv, NEW n \in 1..Len(wire)
  PROVE  LineInv(Rest(n), Len(Rest(n)), Loop(Rest(n), hState))
<1> DEFINE c == Len(buf) + n
           b == Rest(n)
<1>1. /\ buf \in Seq(Words) /\ wire \in Seq(Words) /\ Unread \in Seq(Words)
      /\ Len(buf) \in Nat /\ Len(wire) \in Nat /\ Len(Unread) = Len(buf) + Len(wire)
      /\ hState \in HStates \ {"endlf"} /\ keepHeader \in BOOLEAN
      /\ \A x \in 1..Len(buf) : Unread[x] = buf[x]
  BY ServerTypes, JoinIs DEF Unread
<1>2. ParserInv
  BY DEF ServerInv
<1>3. c \in 0..Len(Unread) /\ c \in Nat /\ Len(buf) <= c
  BY <1>1
<1>4. b \in Seq(Words)
  BY <1>2, RestIs
<1>5. PICK a \in 1..c + 1 :
        /\ b = SubSeq(Unread, a, c) /\ Len(b) = c - a + 1
        /\ a = 1 \/ NoLine
  BY <1>2, RestIs
<1> HIDE DEF c, b
<1>6. ASSUME hState \in {"lf", "endcr"}
      PROVE  Len(b) = c /\ \A x \in 1..Len(buf) : b[x] = buf[x]
  <2>1. a = 1
    <3>1. state # "uri"
      BY <1>6 DEF ServerInv, Typed
    <3> QED BY <1>5, <3>1 DEF NoLine
  <2>2. Len(b) = c /\ b = SubSeq(Unread, 1, c)
    <3>1. b = SubSeq(Unread, 1, c) /\ Len(b) = c - 1 + 1
      BY <1>5, <2>1
    <3>2. c - 1 + 1 = c
      BY <1>3
    <3> QED BY <3>1, <3>2
  <2>3. ASSUME NEW x \in 1..Len(buf) PROVE b[x] = buf[x]
    <3>1. x \in 1..c - 1 + 1 /\ x + 1 - 1 = x
      BY <1>1, <1>3
    <3>2. 1 \in 1..Len(Unread) + 1 /\ c \in 0..Len(Unread) /\ 1 <= c + 1
      BY <1>1, <1>3
    <3>3. SubSeq(Unread, 1, c)[x] = Unread[x + 1 - 1]
      BY <1>1, <3>1, <3>2, CutIs
    <3> QED BY <1>1, <2>2, <3>1, <3>3
  <2> QED BY <2>2, <2>3
<1>7. hState = "lf" => Len(b) >= 1 /\ b[1] = "LF"
  <2>1. SUFFICES ASSUME hState = "lf" PROVE Len(b) >= 1 /\ b[1] = "LF"
    OBVIOUS
  <2>2. Len(buf) >= 1 /\ buf[1] = "LF"
    BY <2>1 DEF ServerInv, Marked
  <2>3. 1 \in 1..Len(buf)
    BY <1>1, <2>2
  <2> QED BY <1>1, <1>3, <1>6, <2>1, <2>2, <2>3
<1>8. hState = "endcr" => 1 \in Pairs(b)
  <2>1. SUFFICES ASSUME hState = "endcr" PROVE 1 \in Pairs(b)
    OBVIOUS
  <2>2. Len(buf) >= 2 /\ buf[1] = "LF" /\ buf[2] = "CR"
    BY <2>1 DEF ServerInv, Marked
  <2>3. 1 \in 1..Len(buf) /\ 2 \in 1..Len(buf)
    BY <1>1, <2>2
  <2>4. b[1] = "LF" /\ b[2] = "CR" /\ Len(b) = c
    BY <1>6, <2>1, <2>2, <2>3
  <2>5. 1 \in 1..Len(b) - 1 /\ b[1 + 1] = "CR"
    BY <1>1, <1>3, <2>2, <2>4
  <2> QED BY <2>4, <2>5 DEF Pairs
<1>9. LineInv(b, Len(b), Loop(b, hState))
  BY <1>1, <1>4, <1>7, <1>8, LoopLines
<1> QED BY <1>9 DEF b

(* Where headers end there was an end of headers.                          *)
LEMMA EndIsPair ==
  ASSUME ServerInv, NEW n \in 1..Len(wire), Complete(Parsed(n))
  PROVE  \E x \in Pairs(Unread) : x < Len(buf) + n + 1
<1> DEFINE c == Len(buf) + n
           b == Rest(n)
           s == Loop(b, hState)
<1>1. s.end # "error" /\ s.h = "endlf"
  <2>1. ~Parsed(n).bad /\ Parsed(n).heads.end # "error" /\ Parsed(n).heads.h = "endlf"
    BY DEF Complete
  <2>2. Parsed(n).heads = s
    BY <2>1 DEF Parsed, ParsedHeaders
  <2> QED BY <2>1, <2>2
<1>2. LineInv(b, Len(b), s)
  BY RestLines
<1> HIDE DEF s
<1>3. PICK y : y \in Pairs(b)
  BY <1>1, <1>2 DEF LineInv
<1>4. ParserInv
  BY DEF ServerInv
<1>5. PICK a \in 1..c + 1 : b = SubSeq(Unread, a, c) /\ Len(b) = c - a + 1
  BY <1>4, RestIs
<1>6. c \in 0..Len(Unread) /\ c \in Nat /\ Unread \in Seq(Words) /\ Len(Unread) \in Nat
  BY ServerTypes
<1> HIDE DEF b, c
<1> DEFINE d == a - 1
<1>7. /\ d \in Nat /\ d <= c /\ Len(b) = c - d
      /\ \A x \in 1..c - d : b[x] = Unread[x + d]
  <2>1. a \in 1..Len(Unread) + 1 /\ c \in 0..Len(Unread) /\ a <= c + 1
    BY <1>6
  <2>2. \A x \in 1..c - a + 1 : b[x] = Unread[x + a - 1]
    BY <1>5, <1>6, <2>1, CutIs
  <2>3. \A x \in 1..c - d : x \in 1..c - a + 1 /\ x + a - 1 = x + d
    BY <1>6
  <2> QED BY <1>5, <1>6, <2>2, <2>3
<1> HIDE DEF d
<1>8. y \in 1..Len(b) - 1 /\ b[y] = "LF" /\ b[y + 1] = "CR"
  BY <1>3 DEF Pairs
<1>9. /\ y + d \in 1..Len(Unread) - 1 /\ y + d < c + 1
      /\ y \in 1..c - d /\ y + 1 \in 1..c - d /\ (y + 1) + d = (y + d) + 1
  BY <1>6, <1>7, <1>8
<1>10. Unread[y + d] = "LF" /\ Unread[(y + d) + 1] = "CR"
  <2>1. b[y] = Unread[y + d] /\ b[y + 1] = Unread[(y + 1) + d]
    BY <1>7, <1>9
  <2> QED BY <1>8, <1>9, <2>1
<1>11. y + d \in Pairs(Unread)
  BY <1>9, <1>10 DEF Pairs
<1> QED BY <1>9, <1>11 DEF c

(* One more answer.                                                        *)
LEMMA AppendIs ==
  ASSUME NEW x \in Replies, answers \in Seq(Replies), answers' = Append(answers, x)
  PROVE  answers' \in Seq(Replies) /\ Len(answers') = Len(answers) + 1 /\ answers' # <<>>
BY AppendProperties

(* The invariant is kept by a call that closes the connection: one more    *)
(* answer than there were requests is the last.                            *)
LEMMA ShutKeeps ==
  ASSUME ServerInv, NEW n \in 1..Len(wire), Read(n), Reset, ReadThen(n, FALSE),
         answers' = answers \/ \E x \in Replies : answers' = Append(answers, x)
  PROVE  ServerInv'
<1>1. /\ open /\ client' = client /\ keepAlive' \in BOOLEAN /\ cache' \subseteq Pages
      /\ req' \in [method : Methods, path : Words]
  BY ReadEnds
<1>2. /\ buf' = <<>> /\ state' = "uri" /\ hState' = "start" /\ keepHeader' = FALSE
      /\ open' = FALSE /\ wire' = <<>>
  BY DEF Reset, ReadThen
<1>3. answers \in Seq(Replies) /\ Len(answers) \in Nat /\ client.count \in Nat
  BY ServerTypes
<1>4. answers' \in Seq(Replies) /\ Len(answers') \in Nat /\ Len(answers') <= Len(answers) + 1
  BY <1>3, AppendIs
<1>5. ParserInv'
  BY ReadKeeps DEF ServerInv
<1>6. Typed'
  BY <1>1, <1>2, <1>4 DEF ServerInv, Typed
<1>7. Marked' /\ Closed' /\ Coming'
  BY <1>2 DEF Marked, Closed, Coming
<1>8. Counted'
  <2>1. Unread' = <<>>
    BY <1>2 DEF Unread
  <2>2. Cardinality(Pairs(Unread')) = 0
    BY <2>1, NoPairs
  <2>3. Len(answers) + Cardinality(Pairs(Unread)) <= client.count /\ Cardinality(Pairs(Unread)) \in Nat
    BY <1>1, ServerTypes DEF ServerInv, Counted
  <2>4. Len(answers') + 0 <= client.count + 1
    BY <1>3, <1>4, <2>3
  <2> QED BY <1>1, <1>2, <2>2, <2>4 DEF Counted
<1> QED BY <1>5, <1>6, <1>7, <1>8 DEF ServerInv

(* It is kept by an answer to a whole request, whose end of headers leaves *)
(* the stream.                                                             *)
LEMMA ServedKeeps ==
  ASSUME ServerInv, NEW n \in 1..Len(wire), Read(n), Reset, ReadThen(n, TRUE),
         Complete(Parsed(n)), NEW r \in Replies, answers' = Append(answers, r)
  PROVE  ServerInv'
<1> DEFINE c == Len(buf) + n
<1>1. /\ open /\ client' = client /\ keepAlive' \in BOOLEAN /\ cache' \subseteq Pages
      /\ req' \in [method : Methods, path : Words]
  BY ReadEnds
<1>2. /\ buf' = <<>> /\ state' = "uri" /\ hState' = "start" /\ keepHeader' = FALSE
      /\ open' = TRUE /\ wire' = SubSeq(wire, n + 1, Len(wire))
  BY DEF Reset, ReadThen
<1>3. /\ answers \in Seq(Replies) /\ Len(answers) \in Nat /\ client.count \in Nat
      /\ buf \in Seq(Words) /\ wire \in Seq(Words) /\ Unread \in Seq(Words)
      /\ Len(buf) \in Nat /\ Len(wire) \in Nat /\ Len(Unread) = Len(buf) + Len(wire)
      /\ Cardinality(Pairs(Unread)) \in Nat
  BY ServerTypes
<1>4. answers' \in Seq(Replies) /\ Len(answers') = Len(answers) + 1 /\ answers' # <<>>
  BY <1>3, AppendIs
<1>5. ParserInv'
  BY ReadKeeps DEF ServerInv
<1>6. Typed'
  BY <1>1, <1>2, <1>4 DEF ServerInv, Typed
<1>7. Marked' /\ Closed' /\ Coming'
  BY <1>2, <1>4 DEF Marked, Closed, Coming
<1>8. Counted'
  <2>1. c + 1 \in 1..Len(Unread) + 1 /\ c + 1 \in 1..c + 1 /\ SubSeq(Unread, c + 1, c) = <<>>
    BY <1>3
  <2>2. SubSeq(wire, n + 1, Len(wire)) \in Seq(Words)
    BY <1>3, CutIs
  <2>3. Unread' = SubSeq(Unread, c + 1, c) \o SubSeq(wire, n + 1, Len(wire))
    BY <1>2, <2>1 DEF Unread
  <2>4. Unread' = SubSeq(Unread, c + 1, Len(Unread))
    BY <1>3, <2>1, <2>3, TakenIs
  <2>5. \E x \in Pairs(Unread) : x < c + 1
    BY EndIsPair
  <2>6. Cardinality(Pairs(Unread')) + 1 <= Cardinality(Pairs(Unread))
    <3> DEFINE a == c + 1
    <3>1. a \in 1..Len(Unread) + 1 /\ Unread' = SubSeq(Unread, a, Len(Unread))
          /\ \E x \in Pairs(Unread) : x < a
      BY <2>1, <2>4, <2>5
    <3> HIDE DEF a
    <3> QED BY <1>3, <3>1, TailPairs
  <2>7. Cardinality(Pairs(Unread')) \in Nat
    <3>1. Unread' \in Seq(Words)
      BY <1>5 DEF ParserInv, Unread
    <3> QED BY <3>1, PairsFinite
  <2>8. Len(answers) + Cardinality(Pairs(Unread)) <= client.count
    BY <1>1, <1>3 DEF ServerInv, Counted
  <2>9. Len(answers') + Cardinality(Pairs(Unread')) <= client.count + 0
    BY <1>3, <1>4, <2>6, <2>7, <2>8
  <2> QED BY <1>1, <1>2, <2>9 DEF Counted
<1> QED BY <1>5, <1>6, <1>7, <1>8 DEF ServerInv

(* A request line ends where the line of the last request does.            *)
LEMMA LineOfLast ==
  ASSUME NEW q \in Requests, NEW b \in Seq(Words), NEW m \in LineEnds(b), NEW P \in Int, P <= 0,
         \A x \in 1..Len(b) : x + P >= 1 => b[x] = Encode(q)[x + P],
         \A x \in LineEnds(b) : m <= x
  PROVE  m + P <= 0 \/ m + P = 4
<1> DEFINE e == Encode(q)
           c == m + P
<1>1. /\ m \in 1..Len(b) - 1 /\ b[m] = "CR" /\ Len(b) \in Nat
  BY DEF LineEnds
<1>2. e[1] # "CR" /\ e[2] # "CR" /\ e[3] # "CR" /\ e[4] = "CR" /\ e[5] = "LF"
  <2>1. Headed(e, q)
    BY EncodeIs
  <2>2. q.method # "CR" /\ q.path # "CR"
    BY ParserAssumption
  <2> HIDE DEF e
  <2> QED BY <2>1, <2>2 DEF Headed
<1> HIDE DEF e
<1>3. SUFFICES ASSUME c >= 1, c # 4 PROVE FALSE
  BY <1>1
<1>4. e[c] = "CR"
  BY <1>1, <1>3 DEF e
<1>5. c > 4
  <2>1. c \in {1, 2, 3} \/ c > 4
    BY <1>1, <1>3
  <2> HIDE DEF c
  <2> QED BY <1>2, <1>4, <2>1
<1> DEFINE x == 4 - P
<1>6. x \in 1..Len(b) - 1 /\ x + P = 4 /\ (x + 1) + P = 5 /\ x < m
      /\ x \in 1..Len(b) /\ x + 1 \in 1..Len(b)
  BY <1>1, <1>5
<1> HIDE DEF x, c
<1>7. b[x] = "CR" /\ b[x + 1] = "LF"
  <2>1. b[x] = e[x + P]
    BY <1>6 DEF e
  <2>2. b[x + 1] = e[(x + 1) + P]
    BY <1>6 DEF e
  <2> QED BY <1>2, <1>6, <2>1, <2>2
<1>8. x \in LineEnds(b)
  BY <1>6, <1>7 DEF LineEnds
<1> QED BY <1>1, <1>6, <1>8

(* Where the buffer is cut there is the line end that the parser has seen. *)
LEMMA AwaitMarks ==
  ASSUME ServerInv, NEW n \in 1..Len(wire), keepAlive, Await(Parsed(n))
  PROVE  Marked'
<1> DEFINE b == Rest(n)
           s == Loop(b, hState)
           l == s.line
<1>1. ParserInv
  BY DEF ServerInv
<1>2. /\ s.line \in 1..Len(b) + 1 /\ s.end = "no"
      /\ buf' = SubSeq(b, s.line, Len(b)) /\ hState' = s.h
  BY <1>1, AwaitIs
<1>3. b \in Seq(Words)
  BY <1>1, RestIs
<1>4. LineInv(b, Len(b), s)
  BY RestLines
<1> HIDE DEF b, s
<1>5. /\ s.h = "lf" => l \in 1..Len(b) /\ b[l] = "LF"
      /\ s.h = "endcr" => l \in 1..Len(b) - 1 /\ b[l] = "LF" /\ b[l + 1] = "CR"
  BY <1>2, <1>4 DEF LineInv, Pairs
<1>6. l \in 1..Len(b) + 1 /\ Len(b) \in 0..Len(b) /\ l <= Len(b) + 1 /\ Len(b) \in Nat
  BY <1>2, <1>3
<1>7. buf' = SubSeq(b, l, Len(b)) /\ hState' = s.h
  BY <1>2
<1> HIDE DEF l
<1>8. Len(buf') = Len(b) - l + 1 /\ \A x \in 1..Len(b) - l + 1 : buf'[x] = b[x + l - 1]
  BY <1>3, <1>6, <1>7, CutIs
<1>9. s.h = "lf" => Len(buf') >= 1 /\ buf'[1] = "LF"
  <2>1. SUFFICES ASSUME s.h = "lf" PROVE Len(buf') >= 1 /\ buf'[1] = "LF"
    OBVIOUS
  <2>2. 1 \in 1..Len(b) - l + 1 /\ 1 + l - 1 = l
    BY <1>5, <1>6, <2>1
  <2>3. buf'[1] = b[1 + l - 1]
    BY <1>8, <2>2
  <2> QED BY <1>5, <1>6, <1>8, <2>1, <2>2, <2>3
<1>10. s.h = "endcr" => Len(buf') >= 2 /\ buf'[1] = "LF" /\ buf'[2] = "CR"
  <2>1. SUFFICES ASSUME s.h = "endcr" PROVE Len(buf') >= 2 /\ buf'[1] = "LF" /\ buf'[2] = "CR"
    OBVIOUS
  <2>2. /\ 1 \in 1..Len(b) - l + 1 /\ 1 + l - 1 = l
        /\ 2 \in 1..Len(b) - l + 1 /\ 2 + l - 1 = l + 1
    BY <1>5, <1>6, <2>1
  <2>3. buf'[1] = b[1 + l - 1] /\ buf'[2] = b[2 + l - 1]
    BY <1>8, <2>2
  <2> QED BY <1>5, <1>6, <1>8, <2>1, <2>2, <2>3
<1> QED BY <1>7, <1>9, <1>10 DEF Marked

(* Waiting for more brings no answer and no end of headers.                *)
LEMMA AwaitCounts ==
  ASSUME ServerInv, NEW n \in 1..Len(wire), keepAlive, Await(Parsed(n)), Read(n)
  PROVE  Counted'
<1> DEFINE c == Len(buf) + n
<1>1. ParserInv
  BY DEF ServerInv
<1>2. /\ answers \in Seq(Replies) /\ Len(answers) \in Nat /\ client.count \in Nat
      /\ buf \in Seq(Words) /\ wire \in Seq(Words) /\ Unread \in Seq(Words)
      /\ Len(buf) \in Nat /\ Len(wire) \in Nat /\ Len(Unread) = Len(buf) + Len(wire)
      /\ Cardinality(Pairs(Unread)) \in Nat
  BY ServerTypes
<1>3. open /\ client' = client /\ answers' = answers /\ open' = keepAlive
  BY ReadEnds DEF Await, ReadThen
<1>4. PICK d \in 1..c + 1 :
        Unread' = SubSeq(Unread, d, c) \o SubSeq(wire, n + 1, Len(wire))
  BY <1>1, AwaitIs
<1>5. Unread' = SubSeq(Unread, d, Len(Unread))
  BY <1>2, <1>4, TakenIs
<1>6. d \in 1..Len(Unread) + 1
  BY <1>2
<1>7. Cardinality(Pairs(Unread')) <= Cardinality(Pairs(Unread))
  BY <1>2, <1>5, <1>6, TailPairs
<1>8. Cardinality(Pairs(Unread')) \in Nat
  <2>1. Unread' \in Seq(Words)
    BY <1>2, <1>5, <1>6, CutIs
  <2> QED BY <2>1, PairsFinite
<1>9. Len(answers) + Cardinality(Pairs(Unread)) <= client.count
  BY <1>2, <1>3 DEF ServerInv, Counted
<1>10. Len(answers) + Cardinality(Pairs(Unread')) <= client.count + 0
  BY <1>2, <1>7, <1>8, <1>9
<1> QED BY <1>3, <1>10 DEF Counted

(* A client that waits for an answer goes on waiting for one to come.      *)
LEMMA AwaitComes ==
  ASSUME ServerInv, NEW n \in 1..Len(wire), keepAlive, Await(Parsed(n)), Read(n)
  PROVE  Coming'
<1> DEFINE c == Len(buf) + n
           b == Rest(n)
           s == Loop(b, hState)
           q == client.last
           e == Encode(q)
           P == Past
<1>1. ParserInv
  BY DEF ServerInv
<1>2. /\ buf \in Seq(Words) /\ wire \in Seq(Words) /\ Unread \in Seq(Words)
      /\ Len(buf) \in Nat /\ Len(wire) \in Nat /\ Len(Unread) = Len(buf) + Len(wire)
      /\ hState \in HStates \ {"endlf"} /\ keepHeader \in BOOLEAN /\ q \in Requests
  BY ServerTypes
<1>3. open /\ client' = client /\ answers' = answers
  BY ReadEnds DEF Await
<1>4. SUFFICES ASSUME client.phase = "waiting", ~client.late, answers = <<>>
               PROVE  /\ wire' # <<>>
                      /\ \A x \in 1..Len(Unread') : x + Past' >= 1 => Unread'[x] = e[x + Past']
                      /\ Past' <= 0 \/ (state' = "headers" /\ Past' \in Cuts /\ hState' \in Begun(Past'))
  BY <1>3 DEF Coming
<1>5. /\ wire # <<>>
      /\ \A x \in 1..Len(Unread) : x + P >= 1 => Unread[x] = e[x + P]
      /\ P <= 0 \/ (state = "headers" /\ P \in Cuts /\ hState \in Begun(P))
  BY <1>3, <1>4 DEF ServerInv, Coming
<1>6. e \in Seq(Words) /\ Len(e) \in Nat /\ Len(e) >= 19
  BY <1>2, EncodeIs
<1>7. P = Len(e) - Len(Unread) /\ Past' = Len(e) - Len(Unread')
  BY <1>3 DEF Past
<1> HIDE DEF P, e
<1>8. /\ LoopInv(b, Len(b), s) /\ s.line \in 1..Len(b) + 1
      /\ s.end = "no" /\ s.h # "endlf"
      /\ wire' = SubSeq(wire, n + 1, Len(wire)) /\ state' = "headers" /\ hState' = s.h
  BY <1>1, AwaitIs
<1>9. PICK a \in 1..c + 1 :
        /\ b = SubSeq(Unread, a, c) /\ Len(b) = c - a + 1
        /\ a = 1 \/ (/\ NoLine /\ a - 1 \in LineEnds(Taken(n))
                     /\ \A x \in LineEnds(Taken(n)) : a - 1 <= x)
        /\ s.line + a - 1 \in 1..c + 1
        /\ Unread' = SubSeq(Unread, s.line + a - 1, c) \o SubSeq(wire, n + 1, Len(wire))
  BY <1>1, AwaitIs
<1>10. b \in Seq(Words) /\ Taken(n) = SubSeq(Unread, 1, c)
  BY <1>1, <1>2, RestIs, TakenIs
<1> HIDE DEF b, s
<1> DEFINE f == P + a - 1
           d == s.line + a - 1
           l == s.line
<1>11. c \in 0..Len(Unread) /\ c \in Nat /\ c = Len(buf) + n /\ P \in Int /\ a \in 1..c + 1
  BY <1>2, <1>6, <1>7
<1> HIDE DEF c
<1>12. f <= 0 \/ (f \in Cuts /\ hState \in Begun(f))
  <2>1. CASE a = 1
    <3>1. f = P
      BY <1>11, <2>1
    <3> QED BY <1>5, <3>1
  <2>2. CASE a # 1
    <3> DEFINE m == a - 1
               t == Taken(n)
    <3>1. NoLine /\ m \in LineEnds(t) /\ \A x \in LineEnds(t) : m <= x
      BY <1>9, <2>2
    <3>2. state = "uri" /\ hState = "start" /\ P <= 0
      BY <1>5, <3>1 DEF NoLine, ServerInv, Typed
    <3>3. t \in Seq(Words) /\ Len(t) = c /\ \A x \in 1..c : t[x] = Unread[x]
      BY <1>2, <1>10, <1>11
    <3> HIDE DEF t, m
    <3>4. \A x \in 1..Len(t) : x + P >= 1 => t[x] = Encode(q)[x + P]
      <4>1. SUFFICES ASSUME NEW x \in 1..Len(t), x + P >= 1 PROVE t[x] = e[x + P]
        BY DEF e
      <4>2. x \in 1..c /\ x \in 1..Len(Unread)
        BY <1>11, <3>3
      <4> QED BY <1>5, <3>3, <4>1, <4>2
    <3>5. m + P <= 0 \/ m + P = 4
      BY <1>2, <1>11, <3>1, <3>2, <3>3, <3>4, LineOfLast
    <3>6. f <= 0 \/ f = 4
      BY <1>11, <3>5 DEF m
    <3> HIDE DEF f
    <3> QED BY <3>2, <3>6 DEF Cuts, Begun
  <2> QED BY <2>1, <2>2
<1>13. \A k \in 1..Len(b) : k + f >= 1 => b[k] = Encode(q)[k + f]
  <2>1. SUFFICES ASSUME NEW k \in 1..Len(b), k + f >= 1 PROVE b[k] = e[k + f]
    BY DEF e
  <2>2. k \in 1..c - a + 1 /\ k + a - 1 \in 1..Len(Unread) /\ (k + a - 1) + P = k + f
    BY <1>9, <1>11
  <2>3. b[k] = Unread[k + a - 1]
    <3>1. Unread \in Seq(Words) /\ a \in 1..Len(Unread) + 1 /\ c \in 0..Len(Unread) /\ a <= c + 1
      BY <1>2, <1>11
    <3>2. \A x \in 1..c - a + 1 : SubSeq(Unread, a, c)[x] = Unread[x + a - 1]
      BY ONLY <3>1, CutIs
    <3>3. b = SubSeq(Unread, a, c) /\ k \in 1..c - a + 1
      BY <1>9, <2>2
    <3> QED BY ONLY <3>2, <3>3
  <2> QED BY <1>5, <2>1, <2>2, <2>3
<1>14. InPlace(s, Len(b) + f, f)
  <2>1. f \in Int
    BY <1>11
  <2> HIDE DEF f
  <2> QED BY <1>2, <1>10, <1>12, <1>13, <2>1, LoopInPlace DEF s
<1> DEFINE p == Len(b) + f
           g == l - 1 + f
<1>15. p <= 18 /\ (p <= 0 \/ g <= 0 \/ (g \in Cuts /\ s.h \in Begun(g)))
  <2>1. f \in Int /\ p \in Int /\ s \in LoopStates /\ ~Done(s) /\ InPlace(s, p, f)
    BY <1>8, <1>9, <1>11, <1>14 DEF LoopInv, Done
  <2> HIDE DEF f, p
  <2> QED BY <2>1, CutIsBegun
<1>16. l \in Nat /\ l <= Len(b) + 1 /\ Len(b) = c - a + 1 /\ Len(b) \in Nat /\ d \in 1..c + 1
  <2>1. Len(b) \in Nat /\ Len(b) = c - a + 1 /\ d \in 1..c + 1
    <3>1. Len(b) \in Nat
      BY ONLY <1>10
    <3>2. Len(b) = c - a + 1 /\ d \in 1..c + 1
      <4> HIDE DEF f, p, g
      <4> QED BY ONLY <1>9 DEF d
    <3> QED BY <3>1, <3>2
  <2>2. s.line \in 1..Len(b) + 1
    BY <1>8
  <2>3. l \in Nat /\ l <= Len(b) + 1
    BY <2>1, <2>2
  <2> QED BY <2>1, <2>3
<1>17. Unread' = SubSeq(Unread, d, Len(Unread))
  <2>1. Unread' = SubSeq(Unread, d, c) \o SubSeq(wire, n + 1, Len(wire))
    BY <1>9
  <2> HIDE DEF d
  <2> QED BY <1>2, <1>11, <1>16, <2>1, TakenIs
<1> HIDE DEF l
<1>18. Past' = g /\ Len(Unread') = Len(Unread) - d + 1 /\ d \in 1..Len(Unread) + 1
  <2>1. d \in 1..Len(Unread) + 1 /\ Len(Unread) \in 0..Len(Unread) /\ d <= Len(Unread) + 1
    BY <1>2, <1>11, <1>16
  <2>2. Len(Unread') = Len(Unread) - d + 1
    <3> HIDE DEF d
    <3> QED BY <1>2, <1>17, <2>1, CutIs
  <2>3. d = l + a - 1
    BY DEF l
  <2>4. Past' = P + d - 1
    <3> HIDE DEF d
    <3> QED BY <1>2, <1>6, <1>7, <1>11, <1>16, <2>2
  <2>5. g = P + d - 1
    BY <1>11, <1>16, <2>3
  <2> HIDE DEF g, d
  <2> QED BY <2>1, <2>2, <2>4, <2>5
<1>19. Past' <= 0 \/ (state' = "headers" /\ Past' \in Cuts /\ hState' \in Begun(Past'))
  <2>1. p <= 0 => g <= 0
    BY <1>11, <1>16
  <2> HIDE DEF g, p
  <2> QED BY <1>8, <1>15, <1>18, <2>1
<1>20. wire' # <<>>
  <2>1. p = c + P
    BY <1>11, <1>16
  <2>2. Len(SubSeq(wire, n + 1, Len(wire))) = Len(wire) - n
    BY <1>2
  <2>3. Len(wire) - n >= 1
    BY <1>2, <1>6, <1>7, <1>11, <1>15, <2>1
  <2>4. Len(wire') >= 1
    BY <1>8, <2>2, <2>3
  <2> QED BY <2>4
<1>21. ASSUME NEW x \in 1..Len(Unread'), x + Past' >= 1 PROVE Unread'[x] = e[x + Past']
  <2>1. d = l + a - 1
    BY DEF l
  <2>2. x + d - 1 \in 1..Len(Unread) /\ (x + d - 1) + P = x + Past'
    <3>1. x + d - 1 \in 1..Len(Unread)
      <4> HIDE DEF d
      <4> QED BY <1>2, <1>16, <1>18
    <3>2. x \in Int /\ l \in Int /\ a \in Int /\ P \in Int
      BY <1>2, <1>11, <1>16, <1>18
    <3>3. (x + d - 1) + P = x + g
      BY <2>1, <3>2
    <3> HIDE DEF g, d
    <3> QED BY <1>18, <3>1, <3>3
  <2>3. Unread'[x] = Unread[x + d - 1]
    <3>1. d \in 1..Len(Unread) + 1 /\ Len(Unread) \in 0..Len(Unread) /\ d <= Len(Unread) + 1
          /\ x \in 1..Len(Unread) - d + 1
      BY <1>2, <1>18
    <3> HIDE DEF d
    <3> QED BY <1>2, <1>17, <3>1, CutIs
  <2> QED BY <1>5, <1>21, <2>2, <2>3
<1> QED BY <1>19, <1>20, <1>21

(* So the invariant is kept by a call that waits for the rest.             *)
LEMMA ServerAwaits ==
  ASSUME ServerInv, NEW n \in 1..Len(wire), keepAlive, Await(Parsed(n)), Read(n)
  PROVE  ServerInv'
<1>1. /\ open /\ client' = client /\ keepAlive' \in BOOLEAN /\ open' \in BOOLEAN
      /\ cache' \subseteq Pages /\ req' \in [method : Methods, path : Words]
  BY ReadEnds
<1>2. state' = "headers" /\ answers' = answers
  BY DEF Await
<1>3. open'
  BY DEF Await, ReadThen
<1>4. Typed'
  BY <1>1, <1>2 DEF ServerInv, Typed
<1>5. ParserInv'
  BY ReadKeeps DEF ServerInv
<1>6. Closed'
  BY <1>3 DEF Closed
<1> QED BY <1>4, <1>5, <1>6, AwaitMarks, AwaitCounts, AwaitComes DEF ServerInv

(* It is kept by any call of handleRead.                                   *)
LEMMA ServerReads ==
  ASSUME ServerInv, NEW n \in 1..Len(wire), Read(n)
  PROVE  ServerInv'
<1>1. \/ /\ Reset /\ ReadThen(n, FALSE)
         /\ answers' = answers \/ \E x \in Replies : answers' = Append(answers, x)
      \/ /\ Reset /\ ReadThen(n, TRUE) /\ Complete(Parsed(n))
         /\ \E x \in Replies : answers' = Append(answers, x)
      \/ keepAlive /\ Await(Parsed(n))
  BY ReadEnds
<1> QED BY <1>1, ShutKeeps, ServedKeeps, ServerAwaits

(* It is kept by any step.                                                 *)
LEMMA ServerSteps ==
  ASSUME ServerInv, [Next]_vars
  PROVE  ServerInv'
<1>1. CASE \E q \in Requests : Send(q)
  BY <1>1, ServerSend
<1>2. CASE TakeAnswers \/ NoAnswer
  BY <1>2, ServerClient
<1>3. CASE OthersCache \/ UNCHANGED vars
  BY <1>3, ServerOthers
<1>4. CASE \E n \in 1..Len(wire) : Read(n)
  BY <1>4, ServerReads
<1> QED BY <1>1, <1>2, <1>3, <1>4 DEF Next

(* The parser is always at a place of the last request where it can go on, *)
(* or before it, and every answer is to a request that was sent.           *)
THEOREM ServerInvariant == Spec => []ServerInv
<1>1. Init => ServerInv
  BY ServerInit
<1>2. ServerInv /\ [Next]_vars => ServerInv'
  BY ServerSteps
<1> QED BY <1>1, <1>2, PTL DEF Spec

(* The state has its types; in particular there is at most one answer more *)
(* than there were requests, and parseURI begins with an empty buffer.     *)
THEOREM ParserTypes == Spec => []TypeOK
<1>1. ServerInv => TypeOK
  BY TypesHold
<1> QED BY <1>1, ServerInvariant, PTL

(* However requests are cut into pieces, parseHeaders never waits for more *)
(* than a request has: a client that always waited for its answer, and all *)
(* of whose bytes were read, has an answer or sees the connection closed.  *)
THEOREM NoneWaits == Spec => []NoneWaiting
<1>1. ServerInv => NoneWaiting
  BY DEF ServerInv, Coming, NoneWaiting
<1> QED BY <1>1, ServerInvariant, PTL

-----------------------------------------------------------------------------
(* A request that is read in one piece.                                    *)

(* What the rounds do with headers that arrive whole.                      *)
Moves(s, tok, r) ==
    /\ s.h = "start" /\ tok = "LF" => r.end = "no" /\ r.h = "start"
    /\ s.h = "start" /\ tok \notin {"CR", "LF"} => r.end = "no" /\ r.h = "key"
    /\ s.h = "key" /\ tok = ":" => r.end = "no" /\ r.h = "colon" /\ r.name = s.name
    /\ s.h = "colon" /\ tok = " " => r.end = "no" /\ r.h = "space" /\ r.name = s.name
    /\ s.h = "space" => r.end = "no" /\ r.h = "value" /\ r.name = s.name
    /\ s.h = "value" /\ tok = "CR" => r.end = "no" /\ r.h = "cr" /\ r.name = s.name
    /\ s.h = "cr" /\ tok = "LF" =>
         r.end = "no" /\ r.h = "lf" /\ (s.name = <<"Connection">> => r.keep)
    /\ s.h = "lf" /\ tok # "CR" => r.end = "no" /\ r.h = "key" /\ r.name = <<tok>>
    /\ s.h = "lf" /\ tok = "CR" => r.end = "no" /\ r.h = "endcr" /\ r.keep = s.keep
    /\ s.h = "endcr" /\ tok = "LF" => r.end = "no" /\ r.h = "endlf" /\ r.keep = s.keep
    /\ s.h = "endlf" => r.end = "body" /\ r.h = "endlf" /\ r.i = s.i + 1 /\ r.keep = s.keep

LEMMA RoundMoves ==
  ASSUME NEW s \in LoopStates, s.end = "no", NEW tok \in Words
  PROVE  Moves(s, tok, Round(s, tok))
<1> DEFINE r == Round(s, tok)
           newline == tok \in {"CR", "LF"}
<1>1. s.h = "start" =>
        IF newline THEN Goes(s, r, "start", s.line) /\ r.name = s.name /\ r.keep = s.keep
        ELSE Goes(s, r, "key", s.i) /\ r.name = <<tok>> /\ r.keep = s.keep
  BY RoundIs, Zenon
<1>2. s.h = "key" =>
        IF tok = ":" THEN Goes(s, r, "colon", s.line) /\ r.name = s.name /\ r.keep = s.keep
        ELSE IF newline THEN r.end = "error" ELSE Goes(s, r, "key", s.line)
  BY RoundIs, Zenon
<1>3. s.h = "colon" =>
        IF tok = " " THEN Goes(s, r, "space", s.line) /\ r.name = s.name /\ r.keep = s.keep
        ELSE r.end = "error"
  BY RoundIs, Zenon
<1>4. s.h = "space" => Goes(s, r, "value", s.line) /\ r.name = s.name /\ r.keep = s.keep
  BY RoundIs, Zenon
<1>5. s.h = "value" =>
        /\ Goes(s, r, IF tok = "CR" THEN "cr" ELSE "value", s.line)
        /\ r.name = s.name /\ r.keep = s.keep
  BY RoundIs, Zenon
<1>6. s.h = "cr" =>
        IF tok = "LF"
        THEN /\ Goes(s, r, "lf", s.i)
             /\ s.name = <<"Connection">> => r.keep
             /\ s.name # <<"Connection">> => r.keep = s.keep
        ELSE r.end = "error"
  BY RoundIs, Zenon
<1>7. s.h = "lf" =>
        IF tok = "CR" THEN Goes(s, r, "endcr", s.line) /\ r.keep = s.keep
        ELSE Goes(s, r, "key", s.line) /\ r.name = <<tok>> /\ r.keep = s.keep
  BY RoundIs, Zenon
<1>8. s.h = "endcr" =>
        IF tok = "LF" THEN Goes(s, r, "endlf", s.line) /\ r.keep = s.keep
        ELSE r.end = "error"
  BY RoundIs, Zenon
<1>9. s.h = "endlf" =>
        r.end = "body" /\ r.h = "endlf" /\ r.i = s.i + 1 /\ r.keep = s.keep
  BY RoundIs, Zenon
<1> HIDE DEF r
<1>10. /\ s.h = "start" /\ tok = "LF" => r.end = "no" /\ r.h = "start"
       /\ s.h = "start" /\ tok \notin {"CR", "LF"} => r.end = "no" /\ r.h = "key"
  BY <1>1 DEF Goes
<1>11. s.h = "key" /\ tok = ":" => r.end = "no" /\ r.h = "colon" /\ r.name = s.name
  BY <1>2 DEF Goes
<1>12. /\ s.h = "colon" /\ tok = " " => r.end = "no" /\ r.h = "space" /\ r.name = s.name
       /\ s.h = "space" => r.end = "no" /\ r.h = "value" /\ r.name = s.name
  BY <1>3, <1>4 DEF Goes
<1>13. s.h = "value" /\ tok = "CR" => r.end = "no" /\ r.h = "cr" /\ r.name = s.name
  BY <1>5 DEF Goes
<1>14. s.h = "cr" /\ tok = "LF" =>
         r.end = "no" /\ r.h = "lf" /\ (s.name = <<"Connection">> => r.keep)
  BY <1>6 DEF Goes
<1>15. /\ s.h = "lf" /\ tok # "CR" => r.end = "no" /\ r.h = "key" /\ r.name = <<tok>>
       /\ s.h = "lf" /\ tok = "CR" => r.end = "no" /\ r.h = "endcr" /\ r.keep = s.keep
  BY <1>7 DEF Goes
<1>16. s.h = "endcr" /\ tok = "LF" => r.end = "no" /\ r.h = "endlf" /\ r.keep = s.keep
  BY <1>8 DEF Goes
<1> QED BY <1>9, <1>10, <1>11, <1>12, <1>13, <1>14, <1>15, <1>16, Zenon DEF Moves, r

(* The headers of a request, read whole from the end of its line on.       *)
LEMMA HeadersAreRead ==
  ASSUME keepHeader \in BOOLEAN, NEW b \in Seq(Words), NEW e, NEW q, Headed(e, q),
         Len(b) >= 15, \A x \in 1..15 : b[x] = e[x + 4]
  PROVE  LET s == Loop(b, "start") IN
         /\ s.h = "endlf" /\ s.keep
         /\ Len(b) <= 15 => s.end = "no"
         /\ Len(b) > 15 => s.end = "body" /\ s.i = 17
<1>1. PICK f : /\ Loop(b, "start") = f[Len(b)] /\ f[0] = LoopStart("start")
               /\ \A k \in 1..Len(b) : f[k] = LoopStep(f[k - 1], b[k])
               /\ \A k \in 0..Len(b) : LoopInv(b, k, f[k])
  <2>1. "start" \in HStates \ {"endlf"}
    BY DEF HStates
  <2> QED BY <2>1, LoopIs
<1>2. Len(b) \in Nat /\ Len(b) >= 15
  OBVIOUS
<1>3. /\ b[1] = "LF" /\ b[2] = "Host" /\ b[3] = ":" /\ b[4] = " " /\ b[5] = "address"
      /\ b[6] = "CR" /\ b[7] = "LF"
  <2>1. /\ b[1] = e[5] /\ b[2] = e[6] /\ b[3] = e[7] /\ b[4] = e[8] /\ b[5] = e[9]
        /\ b[6] = e[10] /\ b[7] = e[11]
    OBVIOUS
  <2>2. /\ e[5] = "LF" /\ e[6] = "Host" /\ e[7] = ":" /\ e[8] = " " /\ e[9] = "address"
        /\ e[10] = "CR" /\ e[11] = "LF"
    BY DEF Headed
  <2> QED BY <2>1, <2>2
<1>4. /\ b[8] = "Connection" /\ b[9] = ":" /\ b[10] = " " /\ b[11] = "Keep-Alive"
      /\ b[12] = "CR" /\ b[13] = "LF" /\ b[14] = "CR" /\ b[15] = "LF"
  <2>1. /\ b[8] = e[12] /\ b[9] = e[13] /\ b[10] = e[14] /\ b[11] = e[15]
        /\ b[12] = e[16] /\ b[13] = e[17] /\ b[14] = e[18] /\ b[15] = e[19]
    OBVIOUS
  <2>2. /\ e[12] = "Connection" /\ e[13] = ":" /\ e[14] = " " /\ e[15] = "Keep-Alive"
        /\ e[16] = "CR" /\ e[17] = "LF" /\ e[18] = "CR" /\ e[19] = "LF"
    BY DEF Headed
  <2> QED BY <2>1, <2>2
<1>5. ASSUME NEW k \in 1..Len(b), NEW j \in 0..Len(b), j = k - 1, f[j].end = "no"
      PROVE  Moves(f[j], b[k], f[k])
  <2>1. f[k] = LoopStep(f[j], b[k])
    BY <1>1, <1>5
  <2>2. LoopInv(b, j, f[j])
    BY <1>1
  <2>3. f[k] = Round(f[j], b[k]) /\ f[j] \in LoopStates /\ b[k] \in Words
    BY <1>5, <2>1, <2>2 DEF LoopStep, LoopInv
  <2> QED BY <1>5, <2>3, RoundMoves
<1>6. /\ f[0].end = "no" => Moves(f[0], b[1], f[1])
      /\ f[1].end = "no" => Moves(f[1], b[2], f[2])
      /\ f[2].end = "no" => Moves(f[2], b[3], f[3])
      /\ f[3].end = "no" => Moves(f[3], b[4], f[4])
      /\ f[4].end = "no" => Moves(f[4], b[5], f[5])
      /\ f[5].end = "no" => Moves(f[5], b[6], f[6])
      /\ f[6].end = "no" => Moves(f[6], b[7], f[7])
      /\ f[7].end = "no" => Moves(f[7], b[8], f[8])
  <2>1. f[0].end = "no" => Moves(f[0], b[1], f[1])
    <3>1. 1 \in 1..Len(b) /\ 0 \in 0..Len(b) /\ 0 = 1 - 1
      BY ONLY <1>2
    <3> QED BY <1>5, <3>1
  <2>2. f[1].end = "no" => Moves(f[1], b[2], f[2])
    <3>1. 2 \in 1..Len(b) /\ 1 \in 0..Len(b) /\ 1 = 2 - 1
      BY ONLY <1>2
    <3> QED BY <1>5, <3>1
  <2>3. f[2].end = "no" => Moves(f[2], b[3], f[3])
    <3>1. 3 \in 1..Len(b) /\ 2 \in 0..Len(b) /\ 2 = 3 - 1
      BY ONLY <1>2
    <3> QED BY <1>5, <3>1
  <2>4. f[3].end = "no" => Moves(f[3], b[4], f[4])
    <3>1. 4 \in 1..Len(b) /\ 3 \in 0..Len(b) /\ 3 = 4 - 1
      BY ONLY <1>2
    <3> QED BY <1>5, <3>1
  <2>5. f[4].end = "no" => Moves(f[4], b[5], f[5])
    <3>1. 5 \in 1..Len(b) /\ 4 \in 0..Len(b) /\ 4 = 5 - 1
      BY ONLY <1>2
    <3> QED BY <1>5, <3>1
  <2>6. f[5].end = "no" => Moves(f[5], b[6], f[6])
    <3>1. 6 \in 1..Len(b) /\ 5 \in 0..Len(b) /\ 5 = 6 - 1
      BY ONLY <1>2
    <3> QED BY <1>5, <3>1
  <2>7. f[6].end = "no" => Moves(f[6], b[7], f[7])
    <3>1. 7 \in 1..Len(b) /\ 6 \in 0..Len(b) /\ 6 = 7 - 1
      BY ONLY <1>2
    <3> QED BY <1>5, <3>1
  <2>8. f[7].end = "no" => Moves(f[7], b[8], f[8])
    <3>1. 8 \in 1..Len(b) /\ 7 \in 0..Len(b) /\ 7 = 8 - 1
      BY ONLY <1>2
    <3> QED BY <1>5, <3>1
  <2> QED BY <2>1, <2>2, <2>3, <2>4, <2>5, <2>6, <2>7, <2>8
<1>7. /\ f[8].end = "no" => Moves(f[8], b[9], f[9])
      /\ f[9].end = "no" => Moves(f[9], b[10], f[10])
      /\ f[10].end = "no" => Moves(f[10], b[11], f[11])
      /\ f[11].end = "no" => Moves(f[11], b[12], f[12])
      /\ f[12].end = "no" => Moves(f[12], b[13], f[13])
      /\ f[13].end = "no" => Moves(f[13], b[14], f[14])
      /\ f[14].end = "no" => Moves(f[14], b[15], f[15])
  <2>1. f[8].end = "no" => Moves(f[8], b[9], f[9])
    <3>1. 9 \in 1..Len(b) /\ 8 \in 0..Len(b) /\ 8 = 9 - 1
      BY ONLY <1>2
    <3> QED BY <1>5, <3>1
  <2>2. f[9].end = "no" => Moves(f[9], b[10], f[10])
    <3>1. 10 \in 1..Len(b) /\ 9 \in 0..Len(b) /\ 9 = 10 - 1
      BY ONLY <1>2
    <3> QED BY <1>5, <3>1
  <2>3. f[10].end = "no" => Moves(f[10], b[11], f[11])
    <3>1. 11 \in 1..Len(b) /\ 10 \in 0..Len(b) /\ 10 = 11 - 1
      BY ONLY <1>2
    <3> QED BY <1>5, <3>1
  <2>4. f[11].end = "no" => Moves(f[11], b[12], f[12])
    <3>1. 12 \in 1..Len(b) /\ 11 \in 0..Len(b) /\ 11 = 12 - 1
      BY ONLY <1>2
    <3> QED BY <1>5, <3>1
  <2>5. f[12].end = "no" => Moves(f[12], b[13], f[13])
    <3>1. 13 \in 1..Len(b) /\ 12 \in 0..Len(b) /\ 12 = 13 - 1
      BY ONLY <1>2
    <3> QED BY <1>5, <3>1
  <2>6. f[13].end = "no" => Moves(f[13], b[14], f[14])
    <3>1. 14 \in 1..Len(b) /\ 13 \in 0..Len(b) /\ 13 = 14 - 1
      BY ONLY <1>2
    <3> QED BY <1>5, <3>1
  <2>7. f[14].end = "no" => Moves(f[14], b[15], f[15])
    <3>1. 15 \in 1..Len(b) /\ 14 \in 0..Len(b) /\ 14 = 15 - 1
      BY ONLY <1>2
    <3> QED BY <1>5, <3>1
  <2> QED BY <2>1, <2>2, <2>3, <2>4, <2>5, <2>6, <2>7
<1>8. f[1].end = "no" /\ f[1].h = "start"
  <2>1. f[0].end = "no" /\ f[0].h = "start"
    BY <1>1 DEF LoopStart
  <2> QED BY <1>3, <1>6, <2>1 DEF Moves
<1>9. f[2].end = "no" /\ f[2].h = "key"
  BY <1>3, <1>6, <1>8 DEF Moves
<1>10. f[3].end = "no" /\ f[3].h = "colon"
  BY <1>3, <1>6, <1>9 DEF Moves
<1>11. f[4].end = "no" /\ f[4].h = "space"
  BY <1>3, <1>6, <1>10 DEF Moves
<1>12. f[5].end = "no" /\ f[5].h = "value"
  BY <1>6, <1>11 DEF Moves
<1>13. f[6].end = "no" /\ f[6].h = "cr"
  BY <1>3, <1>6, <1>12 DEF Moves
<1>14. f[7].end = "no" /\ f[7].h = "lf"
  BY <1>3, <1>6, <1>13 DEF Moves
<1>15. f[8].end = "no" /\ f[8].h = "key" /\ f[8].name = <<"Connection">>
  BY <1>4, <1>6, <1>14 DEF Moves
<1>16. f[9].end = "no" /\ f[9].h = "colon" /\ f[9].name = <<"Connection">>
  BY <1>4, <1>7, <1>15 DEF Moves
<1>17. f[10].end = "no" /\ f[10].h = "space" /\ f[10].name = <<"Connection">>
  BY <1>4, <1>7, <1>16 DEF Moves
<1>18. f[11].end = "no" /\ f[11].h = "value" /\ f[11].name = <<"Connection">>
  BY <1>7, <1>17 DEF Moves
<1>19. f[12].end = "no" /\ f[12].h = "cr" /\ f[12].name = <<"Connection">>
  BY <1>4, <1>7, <1>18 DEF Moves
<1>20. f[13].end = "no" /\ f[13].h = "lf" /\ f[13].keep
  BY <1>4, <1>7, <1>19 DEF Moves
<1>21. f[14].end = "no" /\ f[14].h = "endcr" /\ f[14].keep
  BY <1>4, <1>7, <1>20 DEF Moves
<1>22. f[15].end = "no" /\ f[15].h = "endlf" /\ f[15].keep
  BY <1>4, <1>7, <1>21 DEF Moves
<1>23. CASE Len(b) <= 15
  <2>1. Loop(b, "start") = f[15]
    <3> DEFINE n == Len(b)
    <3>0. n \in Nat /\ n >= 15 /\ n <= 15
      BY <1>2, <1>23
    <3> HIDE DEF n
    <3>1. n = 15
      BY ONLY <3>0
    <3>2. f[n] = f[15]
      BY <3>1
    <3> QED BY <1>1, <3>2 DEF n
  <2>2. ~(Len(b) > 15)
    BY <1>2, <1>23
  <2> QED BY <1>22, <2>1, <2>2
<1>24. CASE Len(b) > 15
  <2> DEFINE G == {k \in 0..Len(b) : k > 15 => f[k].end = "body" /\ f[k].h = "endlf" /\ f[k].i = 17 /\ f[k].keep}
  <2>1. f[16].end = "body" /\ f[16].h = "endlf" /\ f[16].i = 17 /\ f[16].keep
    <3>1. 16 \in 1..Len(b) /\ 15 \in 0..Len(b) /\ 15 = 16 - 1
      BY <1>2, <1>24
    <3>2. Moves(f[15], b[16], f[16])
      BY <1>5, <1>22, <3>1
    <3>3. f[15].i = 16
      <4>1. LoopInv(b, 15, f[15])
        BY <1>1, <3>1
      <4>2. f[15].i = 15 + 1
        BY <1>22, <4>1 DEF LoopInv
      <4> QED BY <4>2
    <3>4. f[16].end = "body" /\ f[16].h = "endlf" /\ f[16].i = f[15].i + 1 /\ f[16].keep
      BY <1>22, <3>2 DEF Moves
    <3> QED BY <3>3, <3>4
  <2>2. 0 \in G
    BY <1>2
  <2>3. ASSUME NEW k \in 1..Len(b), k - 1 \in G PROVE k \in G
    <3>1. SUFFICES k > 16 => f[k].end = "body" /\ f[k].h = "endlf" /\ f[k].i = 17 /\ f[k].keep
      <4>1. SUFFICES ASSUME k > 15
                     PROVE  f[k].end = "body" /\ f[k].h = "endlf" /\ f[k].i = 17 /\ f[k].keep
        BY <1>2
      <4>2. k = 16 \/ k > 16
        BY <1>2, <4>1
      <4> QED BY <2>1, <3>1, <4>2
    <3> HAVE k > 16
    <3>2. k - 1 > 15
      BY <1>2
    <3>3. f[k - 1].end = "body" /\ f[k - 1].h = "endlf" /\ f[k - 1].i = 17 /\ f[k - 1].keep
      BY <2>3, <3>2
    <3>4. f[k] = f[k - 1]
      BY <1>1, <3>3 DEF LoopStep
    <3> QED BY <3>3, <3>4
  <2> HIDE DEF G
  <2>4. Len(b) \in G
    <3>1. \A k \in 0..Len(b) : k \in G
      BY <1>2, <2>2, <2>3, NumberInduction
    <3> QED BY <1>2, <3>1
  <2>5. f[Len(b)].end = "body" /\ f[Len(b)].h = "endlf" /\ f[Len(b)].i = 17 /\ f[Len(b)].keep
    BY <1>24, <2>4 DEF G
  <2>6. ~(Len(b) <= 15)
    BY <1>2, <1>24
  <2> QED BY <1>1, <2>5, <2>6
<1> QED BY <1>2, <1>23, <1>24

(* The line of a request is read as what it asks.                          *)
LEMMA LineIsRead ==
  ASSUME NEW q \in Requests
  PROVE  LET e == Encode(q) IN
         /\ LineOK(RequestLine(e))
         /\ ParsedLine(RequestLine(e)) = [method |-> q.method, path |-> q.path]
         /\ AfterLine(e) = SubSeq(e, 5, Len(e))
<1> DEFINE e == Encode(q)
           m == First(LineEnds(e))
           line == SubSeq(e, 1, 3)
<1>1. e \in Seq(Words) /\ Len(e) \in Nat /\ Len(e) >= 19 /\ Headed(e, q)
  BY EncodeIs
<1>2. /\ q.method \in {"GET", "HEAD", "POST"}
      /\ q.path \notin {"CR", "GET", "HEAD", "POST"}
  BY ParserAssumption
<1> HIDE DEF e
<1>3. e[1] = q.method /\ e[2] = q.path /\ e[3] = "HTTP/1.1" /\ e[4] = "CR" /\ e[5] = "LF"
  BY <1>1 DEF Headed
<1>4. LineEnds(e) # {} /\ m = 4
  <2>1. LineEnds(e) \subseteq Nat /\ 4 \in LineEnds(e)
    BY <1>1, <1>3 DEF LineEnds
  <2>2. m \in LineEnds(e) /\ m <= 4
    BY <2>1, FirstIs
  <2> HIDE DEF m
  <2>3. e[m] = "CR" /\ m \in {1, 2, 3, 4}
    BY <1>1, <2>2 DEF LineEnds
  <2>4. e[1] # "CR" /\ e[2] # "CR" /\ e[3] # "CR"
    BY <1>2, <1>3
  <2>5. m = 4
    BY <2>3, <2>4
  <2> QED BY <2>1, <2>5
<1>5. RequestLine(e) = line /\ AfterLine(e) = SubSeq(e, 5, Len(e))
  BY <1>4 DEF RequestLine, AfterLine
<1>6. /\ line \in Seq(Words) /\ Len(line) = 3
      /\ line[1] = q.method /\ line[2] = q.path /\ line[3] = "HTTP/1.1"
  BY <1>1, <1>3
<1> HIDE DEF line
<1>7. MethodOf(line) = q.method
  <2>1. \A tok : Places(line, tok) # {} <=> tok \in {q.method, q.path, "HTTP/1.1"}
    <3>1. 1..Len(line) = {1, 2, 3}
      BY <1>6
    <3> QED BY <1>6, <3>1 DEF Places
  <2>2. CASE q.method = "GET"
    <3>1. Places(line, "GET") # {}
      BY <2>1, <2>2
    <3> QED BY <2>2, <3>1 DEF MethodOf
  <2>3. CASE q.method = "POST"
    <3>1. Places(line, "POST") # {} /\ Places(line, "GET") = {}
      BY <1>2, <2>1, <2>3
    <3> QED BY <2>3, <3>1 DEF MethodOf
  <2>4. CASE q.method = "HEAD"
    <3>1. Places(line, "POST") = {} /\ Places(line, "GET") = {}
      BY <1>2, <2>1, <2>4
    <3> QED BY <2>4, <3>1 DEF MethodOf
  <2> QED BY <1>2, <2>2, <2>3, <2>4
<1>8. Places(line, q.method) # {} /\ First(Places(line, q.method)) = 1
  <2> DEFINE S == Places(line, q.method)
  <2>1. S \subseteq Nat \ {0} /\ 1 \in S
    BY <1>6 DEF Places
  <2> HIDE DEF S
  <2>2. First(S) \in S /\ First(S) <= 1
    BY <2>1, FirstIs
  <2>3. First(S) = 1
    <3> DEFINE x == First(S)
    <3>1. x \in Nat \ {0} /\ x <= 1
      BY <2>1, <2>2
    <3> HIDE DEF x
    <3>2. x = 1
      BY ONLY <3>1
    <3> QED BY <3>2 DEF x
  <2> QED BY <2>1, <2>3 DEF S
<1>9. Slashes(line) = {2, 3} /\ PathAt(line) = 2 /\ VersionAt(line) = 3
  <2>1. {q.path, "HTTP/1.1"} \subseteq Slashed
    BY DEF Slashed
  <2>2. Slashes(line) = {2, 3}
    <3>1. \A i \in 1..Len(line) : i \in Slashes(line) <=> i > 1 /\ line[i] \in Slashed
      BY <1>7, <1>8 DEF Slashes
    <3>2. 1..Len(line) = {1, 2, 3} /\ Slashes(line) \subseteq 1..Len(line)
      BY <1>6 DEF Slashes
    <3>3. 2 \in Slashes(line) /\ 3 \in Slashes(line) /\ 1 \notin Slashes(line)
      BY <1>6, <2>1, <3>1, <3>2
    <3> QED BY <3>2, <3>3
  <2>3. PathAt(line) \in {2, 3} /\ PathAt(line) <= 2
    BY <2>2, FirstIs DEF PathAt
  <2>4. PathAt(line) = 2
    BY <2>3
  <2>5. VersionAt(line) \in {3}
    <3>1. Slashes(line) \ {PathAt(line)} = {3}
      BY <2>2, <2>4
    <3> QED BY <3>1, FirstIs DEF VersionAt
  <2> QED BY <2>2, <2>4, <2>5
<1>10. LineOK(line)
  <2>1. \E z \in Methods : Places(line, z) # {}
    BY <1>2, <1>8 DEF Methods
  <2>2. \E i \in Slashes(line) : i # PathAt(line)
    BY <1>9
  <2> QED BY <1>6, <1>9, <2>1, <2>2 DEF LineOK
<1>11. ParsedLine(line) = [method |-> q.method, path |-> q.path]
  BY <1>6, <1>7, <1>9 DEF ParsedLine
<1> QED BY <1>5, <1>10, <1>11 DEF e

(* A text without a mark is found again between those the client adds.     *)
LEMMA FrameEncloses ==
  ASSUME NEW t \in Seq(Words), "LF" \notin ToSet(t), Places(t, "^") = {}
  PROVE  /\ Enclosed(Frame(t)) = t
         /\ \E i, j \in Places(Frame(t), "^") : i # j
<1> DEFINE m == Frame(t)
           l == Len(t)
           marks == Places(m, "^")
           one == First(marks)
           rest == marks \ {one}
           two == First(rest)
<1>1. /\ m \in Seq(Words) /\ l \in Nat /\ Len(m) = l + 2 /\ m[1] = "^" /\ m[l + 2] = "^"
      /\ \A x \in 1..l : m[x + 1] = t[x]
  BY FrameIs
<1>2. \A x \in 1..l : t[x] # "^"
  BY DEF Places
<1> HIDE DEF m, l
<1>3. ASSUME NEW x \in 1..Len(m), m[x] = "^" PROVE x = 1 \/ x = l + 2
  <2>1. SUFFICES ASSUME x # 1, x # l + 2 PROVE FALSE
    OBVIOUS
  <2>2. x - 1 \in 1..l /\ (x - 1) + 1 = x
    BY <1>1, <2>1
  <2>3. m[x] = t[x - 1]
    BY <1>1, <2>2
  <2> QED BY <1>2, <1>3, <2>2, <2>3
<1>4. /\ marks \subseteq Nat /\ 1 \in marks /\ l + 2 \in marks /\ 1 # l + 2
      /\ \A x \in marks : x = 1 \/ x = l + 2
  BY <1>1, <1>3 DEF Places
<1> HIDE DEF marks
<1>5. one = 1
  <2>1. one \in marks /\ one <= 1
    BY <1>4, FirstIs
  <2> HIDE DEF one
  <2> QED BY <1>1, <1>4, <2>1
<1> HIDE DEF one
<1>6. two = l + 2
  <2>1. rest \subseteq Nat /\ l + 2 \in rest
    BY <1>4, <1>5
  <2>2. two \in rest
    BY <2>1, FirstIs
  <2> HIDE DEF two
  <2> QED BY <1>4, <1>5, <2>2
<1>7. Enclosed(m) = SubSeq(m, 2, l + 1)
  <2>1. Enclosed(m) = SubSeq(m, one + 1, two - 1)
    BY DEF Enclosed, one, marks
  <2> HIDE DEF two
  <2>2. one + 1 = 2 /\ two - 1 = l + 1
    BY <1>1, <1>5, <1>6
  <2> QED BY <2>1, <2>2
<1>8. SubSeq(m, 2, l + 1) = t
  <2> DEFINE v == SubSeq(m, 2, l + 1)
  <2>1. 2 \in 1..Len(m) + 1 /\ l + 1 \in 0..Len(m) /\ 2 <= (l + 1) + 1
    BY <1>1
  <2>2. v \in Seq(Words) /\ Len(v) = (l + 1) - 2 + 1 /\ \A x \in 1..(l + 1) - 2 + 1 : v[x] = m[x + 2 - 1]
    BY <1>1, <2>1, CutIs
  <2>3. (l + 1) - 2 + 1 = l /\ \A x \in 1..l : x + 2 - 1 = x + 1
    BY <1>1
  <2> HIDE DEF v
  <2>4. Len(v) = l /\ \A x \in 1..l : v[x] = t[x]
    BY <1>1, <2>2, <2>3
  <2>5. v = t
    BY <2>2, <2>4, SeqEqual DEF l
  <2> QED BY <2>5 DEF v
<1>9. \E i, j \in marks : i # j
  BY <1>4
<1> QED BY <1>7, <1>8, <1>9 DEF m, marks

(* What is made of a request that an idle connection reads in one piece.   *)
LEMMA WholeIsParsed ==
  ASSUME ServerInv, Alone
  PROVE  LET q == client.last
             p == Parsed(Len(wire))
         IN
         /\ ~p.bad /\ p.req = [method |-> q.method, path |-> q.path]
         /\ p.heads.h = "endlf" /\ p.heads.end # "error" /\ p.heads.keep
         /\ q.method = "POST" => Body(p) = Frame(q.text)
<1> DEFINE q == client.last
           e == Encode(q)
           n == Len(wire)
           b == SubSeq(e, 5, Len(e))
           p == Parsed(n)
<1>1. /\ q \in Requests /\ buf = <<>> /\ state = "uri" /\ wire = e
      /\ hState = "start" /\ keepHeader \in BOOLEAN
  <2>1. q \in Requests /\ keepHeader \in BOOLEAN
    BY ServerTypes
  <2>2. buf = <<>> /\ state = "uri" /\ wire = e
    BY DEF Alone
  <2>3. hState = "start"
    BY <2>2 DEF ServerInv, Typed
  <2> QED BY <2>1, <2>2, <2>3
<1> HIDE DEF q
<1>2. e \in Seq(Words) /\ Len(e) \in Nat /\ Len(e) >= 19 /\ Headed(e, q)
  BY <1>1, EncodeIs
<1>3. /\ LineOK(RequestLine(e)) /\ AfterLine(e) = b
      /\ ParsedLine(RequestLine(e)) = [method |-> q.method, path |-> q.path]
  BY <1>1, LineIsRead
<1>4. q.method = "POST" =>
        /\ q.text \in Seq(Words) /\ Len(e) = Len(q.text) + 21
        /\ \A x \in 1..Len(q.text) + 2 : e[19 + x] = Frame(q.text)[x]
  BY <1>1, EncodeIs
<1> HIDE DEF e
<1>5. Taken(n) = e
  <2>1. SubSeq(wire, 1, Len(wire)) = e
    BY <1>1, <1>2
  <2>2. Taken(n) = <<>> \o SubSeq(wire, 1, n)
    BY <1>1 DEF Taken
  <2> QED BY <1>2, <2>1, <2>2
<1> HIDE DEF n
<1>6. NoLine /\ Rest(n) = b
  BY <1>1, <1>3, <1>5 DEF NoLine, Rest
<1>7. /\ ~p.bad /\ p.req = [method |-> q.method, path |-> q.path]
      /\ p.rest = b /\ p.heads = Loop(b, "start")
  BY <1>1, <1>3, <1>5, <1>6 DEF Parsed, ParsedHeaders
<1> HIDE DEF p
<1>8. /\ b \in Seq(Words) /\ Len(b) = Len(e) - 4 /\ \A x \in 1..Len(e) - 4 : b[x] = e[x + 4]
  <2>1. 5 \in 1..Len(e) + 1 /\ Len(e) \in 0..Len(e) /\ 5 <= Len(e) + 1
    BY <1>2
  <2>2. /\ b \in Seq(Words) /\ Len(b) = Len(e) - 5 + 1
        /\ \A x \in 1..Len(e) - 5 + 1 : b[x] = e[x + 5 - 1]
    BY <1>2, <2>1, CutIs
  <2> HIDE DEF b
  <2>3. Len(e) - 5 + 1 = Len(e) - 4 /\ \A x \in 1..Len(e) - 4 : x + 5 - 1 = x + 4
    BY <1>2
  <2> QED BY <2>2, <2>3
<1> HIDE DEF b
<1>9. Len(b) \in Nat /\ Len(b) >= 15 /\ \A x \in 1..15 : b[x] = e[x + 4]
  <2>1. Len(e) - 4 \in Nat /\ Len(e) - 4 >= 15
    BY <1>2
  <2>2. ASSUME NEW x \in 1..15 PROVE x \in 1..Len(e) - 4
    BY ONLY <2>1, x \in 1..15
  <2> QED BY <1>8, <2>1, <2>2
<1>10. /\ p.heads.h = "endlf" /\ p.heads.keep
       /\ Len(b) <= 15 => p.heads.end = "no"
       /\ Len(b) > 15 => p.heads.end = "body" /\ p.heads.i = 17
  BY <1>1, <1>2, <1>7, <1>8, <1>9, HeadersAreRead
<1>11. p.heads.end # "error"
  <2>1. Len(b) <= 15 \/ Len(b) > 15
    BY <1>9
  <2> QED BY <1>10, <2>1
<1>12. ASSUME q.method = "POST" PROVE Body(p) = Frame(q.text)
  <2> DEFINE f == Frame(q.text)
             l == Len(q.text)
             v == SubSeq(b, 16, Len(b))
  <2>1. f \in Seq(Words) /\ Len(f) = l + 2 /\ l \in Nat
    BY <1>1, TextIs, FrameIs
  <2>2. Len(e) = l + 21 /\ \A x \in 1..l + 2 : e[19 + x] = f[x]
    BY <1>4, <1>12
  <2> HIDE DEF f, l
  <2>3. Len(b) = l + 17 /\ Len(b) > 15
    BY <1>8, <2>1, <2>2
  <2>4. Body(p) = v
    <3>1. Body(p) = SubSeq(b, p.heads.i - 1, Len(b))
      BY <1>7 DEF Body
    <3>2. p.heads.i - 1 = 16
      BY <1>10, <2>3
    <3> QED BY <3>1, <3>2
  <2>5. v \in Seq(Words) /\ Len(v) = l + 2 /\ \A x \in 1..l + 2 : v[x] = b[x + 15]
    <3>1. 16 \in 1..Len(b) + 1 /\ Len(b) \in 0..Len(b) /\ 16 <= Len(b) + 1
      BY <1>9, <2>3
    <3>2. /\ v \in Seq(Words) /\ Len(v) = Len(b) - 16 + 1
          /\ \A x \in 1..Len(b) - 16 + 1 : v[x] = b[x + 16 - 1]
      BY <1>8, <3>1, CutIs
    <3> HIDE DEF v
    <3>3. Len(b) - 16 + 1 = l + 2 /\ \A x \in 1..l + 2 : x + 16 - 1 = x + 15
      BY <2>1, <2>3
    <3> QED BY <3>2, <3>3
  <2> HIDE DEF v
  <2>6. ASSUME NEW x \in 1..l + 2 PROVE v[x] = f[x]
    <3>1. x + 15 \in 1..Len(e) - 4 /\ (x + 15) + 4 = 19 + x
      BY <2>1, <2>2
    <3>2. v[x] = b[x + 15] /\ b[x + 15] = e[(x + 15) + 4]
      BY <1>8, <2>5, <3>1
    <3> QED BY <2>2, <3>1, <3>2
  <2>7. v = f
    BY <2>1, <2>5, <2>6, SeqEqual
  <2> QED BY <2>4, <2>7 DEF f
<1> QED BY <1>7, <1>10, <1>11, <1>12 DEF p, n, q

(* So it is answered, whichever way handleRead takes.                      *)
LEMMA WholeIsAnswered ==
  ASSUME ServerInv, Alone, Plain(client.last), Known(client.last), Read(Len(wire))
  PROVE  /\ answers' = Append(answers, "ok")
         /\ client.last.method = "POST" => client.last.text \in stored'
         /\ keepAlive \/ client.last.path \notin cache => open'
<1> DEFINE q == client.last
           p == Parsed(Len(wire))
<1>1. /\ ~p.bad /\ p.req.method = q.method /\ p.req.path = q.path
      /\ p.heads.h = "endlf" /\ p.heads.end # "error" /\ p.heads.keep
      /\ q.method = "POST" => Body(p) = Frame(q.text)
  BY WholeIsParsed
<1>2. Handle(p)
  BY DEF Read
<1>3. q \in Requests
  BY ServerTypes
<1> HIDE DEF p
<1> DEFINE Goal ==
      /\ answers' = Append(answers, "ok")
      /\ q.method = "POST" => q.text \in stored'
      /\ keepAlive \/ q.path \notin cache => open'
<1>4. ASSUME NEW answer, NEW keep, Answer(p, answer, keep) PROVE answers' = Append(answers, answer) /\ open' = keep
  BY <1>4 DEF Answer, ReadThen
<1>5. Plain(q) /\ Known(q)
  OBVIOUS
<1> HIDE DEF q
<1>6. SUFFICES Goal
  BY DEF q
<1>7. CASE RefuseLine(p) \/ RefuseHeader(p) \/ Await(p)
  BY <1>1, <1>7 DEF RefuseLine, RefuseHeader, Await
<1>8. CASE ServePost(p)
  <2>1. q.method = "POST"
    BY <1>1, <1>8 DEF ServePost
  <2>2. q.text \in Seq(Words) /\ "LF" \notin ToSet(q.text)
    BY <1>3, TextIs
  <2>3. Places(q.text, "^") = {} /\ ToSet(q.text) \cap Named # {}
    BY <1>5, <2>1 DEF Plain
  <2>4. Enclosed(Body(p)) = q.text /\ \E i, j \in Places(Body(p), "^") : i # j
    BY <1>1, <2>1, <2>2, <2>3, FrameEncloses
  <2>5. TextOK(Body(p))
    BY <2>3, <2>4 DEF TextOK
  <2>6. stored' = stored \cup {q.text} /\ Answer(p, "ok", keepAlive \/ p.heads.keep)
    BY <1>8, <2>4, <2>5 DEF ServePost
  <2>7. answers' = Append(answers, "ok") /\ open' = (keepAlive \/ p.heads.keep)
    BY <1>4, <2>6
  <2> QED BY <1>1, <2>6, <2>7
<1>9. CASE ServeCached(p)
  <2>1. q.method # "POST" /\ q.path \in cache /\ Answer(p, "ok", keepAlive)
    BY <1>1, <1>9 DEF ServeCached, Asked
  <2>2. answers' = Append(answers, "ok") /\ open' = keepAlive
    BY <1>4, <2>1
  <2> QED BY <2>1, <2>2
<1>10. CASE ServeGet(p)
  <2>1. q.method # "POST" /\ Answer(p, "ok", keepAlive \/ p.heads.keep)
    BY <1>1, <1>10 DEF ServeGet, Asked
  <2>2. answers' = Append(answers, "ok") /\ open' = (keepAlive \/ p.heads.keep)
    BY <1>4, <2>1
  <2> QED BY <1>1, <2>1, <2>2
<1>11. CASE ServeNothing(p)
  BY <1>1, <1>5, <1>11 DEF ServeNothing, Asked, Known
<1> QED BY <1>2, <1>7, <1>8, <1>9, <1>10, <1>11 DEF Handle

(* A request that an idle connection reads in one piece is served for what *)
(* it is, whatever was read, dropped or refused before it: the answer is   *)
(* "ok", the text of a POST is stored as it was sent, and the connection   *)
(* stays open, unless a cached answer was sent before it was kept alive.   *)
THEOREM WholeIsServed == Spec => WholeServed
<1> DEFINE Served ==
      LET q == client.last IN
      Alone /\ Plain(q) /\ Known(q) /\ Read(Len(wire)) =>
        /\ answers' = Append(answers, "ok")
        /\ q.method = "POST" => q.text \in stored'
        /\ keepAlive \/ q.path \notin cache => open'
<1>1. ServerInv /\ [Next]_vars => [Served]_vars
  BY WholeIsAnswered
<1>2. WholeServed <=> [][Served]_vars
  BY DEF WholeServed
<1> QED BY <1>1, <1>2, ServerInvariant, PTL DEF Spec
=============================================================================
