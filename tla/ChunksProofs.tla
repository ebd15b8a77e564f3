---------------------------- MODULE ChunksProofs ----------------------------
(***************************************************************************)
(* Proofs about Chunks: messages arrive whole and in order, those of the   *)
(* program always, those of the server until it says an extended timestamp *)
(* again.                                                                  *)
(***************************************************************************)
EXTENDS Chunks, WellFoundedInduction, TLAPS

----------------------------------------------------------------------------
(* A wire is a sequence of chunks.                                         *)

Units == [t : {"header", "ext", "piece"}, fmt : 0..3, csid : CSIDs \cup OwnCSIDs \cup {0},
          len : Nat, kind : Nat, ext : BOOLEAN, msg : Nat]

\* A chunk: what its header says or leaves to be remembered, whether a timestamp
\* follows, and how many pieces of which message.
ChunkType == [csid : CSIDs \cup OwnCSIDs, fmt : 0..3, len : Nat \ {0}, kind : Nat, ext : BOOLEAN,
              stamp : BOOLEAN, msg : Nat, n : Nat]
Lead(ch) == IF ch.stamp THEN 2 ELSE 1
Width(ch) == Lead(ch) + ch.n

\* Chunk ch is on wire w after its first k units.
Laid(w, k, ch) ==
  /\ k + Width(ch) <= Len(w)
  /\ w[k + 1].t = "header" /\ w[k + 1].fmt = ch.fmt /\ w[k + 1].csid = ch.csid
  /\ ch.fmt \in {0, 1} => w[k + 1].len = ch.len /\ w[k + 1].kind = ch.kind
  /\ ch.fmt # 3 => w[k + 1].ext = ch.ext
  /\ ch.stamp => w[k + 2].t = "ext"
  /\ \A i \in 1..ch.n : w[(k + Lead(ch)) + i] = Piece(ch.msg)

\* The chunks of wire w, one after the other, lead from place p to place q by the moves
\* of M: chunk i ends at at[i] and leads to ps[i].
Path(w, M, n, chs, ps, at) ==
  /\ chs \in [1..n -> ChunkType] /\ at \in [0..n -> Nat] /\ at[0] = 0 /\ at[n] = Len(w)
  /\ \A i, j \in 0..n : i <= j => at[i] <= at[j]
  /\ \A i \in 1..n : /\ <<ps[i - 1], chs[i], ps[i]>> \in M
                     /\ Laid(w, at[i - 1], chs[i]) /\ at[i] = at[i - 1] + Width(chs[i])
Leads(w, M, p, q) ==
  \E n \in Nat : \E chs, ps, at : Path(w, M, n, chs, ps, at) /\ ps[0] = p /\ ps[n] = q

LEMMA Widths == \A ch \in ChunkType : Lead(ch) \in 1..2 /\ Width(ch) \in Nat /\ Width(ch) > 0
BY DEF ChunkType, Lead, Width

\* A wire with nothing on it leads nowhere.
LEMMA NoChunks == \A M, p : Leads(<<>>, M, p, p)
<1> SUFFICES ASSUME NEW M, NEW p PROVE Leads(<<>>, M, p, p)
  OBVIOUS
<1> DEFINE f == [i \in 1..0 |-> 0]
           ps == [i \in 0..0 |-> p]
           at == [i \in 0..0 |-> 0]
<1>1. f \in [1..0 -> ChunkType] /\ at \in [0..0 -> Nat] /\ at[0] = 0 /\ ps[0] = p /\ Len(<<>>) = 0
  OBVIOUS
<1>2. Path(<<>>, M, 0, f, ps, at)
  BY <1>1 DEF Path
<1> QED BY <1>1, <1>2 DEF Leads

\* One chunk leads where its move does.
LEMMA OneChunk ==
  ASSUME NEW w, NEW M, NEW p, NEW ch \in ChunkType, NEW q, <<p, ch, q>> \in M, Laid(w, 0, ch), Len(w) = Width(ch)
  PROVE  Leads(w, M, p, q)
<1> DEFINE chs == [i \in 1..1 |-> ch]
           ps == [i \in 0..1 |-> IF i = 0 THEN p ELSE q]
           at == [i \in 0..1 |-> IF i = 0 THEN 0 ELSE Width(ch)]
<1>1. chs \in [1..1 -> ChunkType] /\ at \in [0..1 -> Nat] /\ at[0] = 0 /\ at[1] = Width(ch) /\ ps[0] = p /\ ps[1] = q
  BY Widths
<1>2. \A i, j \in 0..1 : i <= j => at[i] <= at[j]
  BY <1>1, Widths
<1>3. \A i \in 1..1 : i = 1 /\ chs[i] = ch
  OBVIOUS
<1> HIDE DEF chs, ps, at
<1>4. Path(w, M, 1, chs, ps, at)
  BY <1>1, <1>2, <1>3, Widths DEF Path
<1> QED BY <1>1, <1>4 DEF Leads

\* What is written behind goes on from where the wire led.
LEMMA Joined ==
  ASSUME NEW U, NEW w1 \in Seq(U), NEW w2 \in Seq(U), NEW M, NEW p, NEW q, NEW r,
         Leads(w1, M, p, q), Leads(w2, M, q, r)
  PROVE  Leads(w1 \o w2, M, p, r)
<1>1. PICK n1 \in Nat : \E chs, ps, at : Path(w1, M, n1, chs, ps, at) /\ ps[0] = p /\ ps[n1] = q
  BY DEF Leads
<1>2. PICK c1, p1, a1 : Path(w1, M, n1, c1, p1, a1) /\ p1[0] = p /\ p1[n1] = q
  BY <1>1
<1>3. PICK n2 \in Nat : \E chs, ps, at : Path(w2, M, n2, chs, ps, at) /\ ps[0] = q /\ ps[n2] = r
  BY DEF Leads
<1>4. PICK c2, p2, a2 : Path(w2, M, n2, c2, p2, a2) /\ p2[0] = q /\ p2[n2] = r
  BY <1>3
<1> DEFINE n == n1 + n2
           chs == [i \in 1..n |-> IF i <= n1 THEN c1[i] ELSE c2[i - n1]]
           ps == [i \in 0..n |-> IF i <= n1 THEN p1[i] ELSE p2[i - n1]]
           at == [i \in 0..n |-> IF i <= n1 THEN a1[i] ELSE Len(w1) + a2[i - n1]]
           w == w1 \o w2
<1>5. /\ Len(w) = Len(w1) + Len(w2) /\ Len(w1) \in Nat /\ Len(w2) \in Nat
      /\ \A k \in 1..Len(w1) : w[k] = w1[k]
      /\ \A k \in 1..Len(w2) : w[Len(w1) + k] = w2[k]
  OBVIOUS
<1>6. /\ a1 \in [0..n1 -> Nat] /\ a2 \in [0..n2 -> Nat] /\ a1[0] = 0 /\ a2[0] = 0
      /\ a1[n1] = Len(w1) /\ a2[n2] = Len(w2) /\ c1 \in [1..n1 -> ChunkType] /\ c2 \in [1..n2 -> ChunkType]
      /\ \A i, j \in 0..n1 : i <= j => a1[i] <= a1[j]
      /\ \A i, j \in 0..n2 : i <= j => a2[i] <= a2[j]
  BY <1>2, <1>4 DEF Path
<1>7. chs \in [1..n -> ChunkType] /\ at \in [0..n -> Nat] /\ at[0] = 0 /\ at[n] = Len(w) /\ ps[0] = p /\ ps[n] = r
  <2>1. \A i \in 1..n : i <= n1 \/ i - n1 \in 1..n2
    OBVIOUS
  <2>2. \A i \in 0..n : i <= n1 \/ i - n1 \in 0..n2
    OBVIOUS
  <2>3. chs \in [1..n -> ChunkType]
    BY <1>6, <2>1
  <2>4. at \in [0..n -> Nat]
    BY <1>5, <1>6, <2>2
  <2>5. at[0] = 0 /\ ps[0] = p
    BY <1>6, <1>2
  <2>6. at[n] = Len(w) /\ ps[n] = r
    <3>1. CASE n2 = 0
      BY <3>1, <1>2, <1>4, <1>5, <1>6
    <3>2. CASE n2 # 0
      <4>1. n \in 0..n /\ ~(n <= n1) /\ n - n1 = n2
        BY <3>2
      <4> QED BY <4>1, <1>4, <1>5, <1>6
    <3> QED BY <3>1, <3>2
  <2> QED BY <2>3, <2>4, <2>5, <2>6
<1>8. \A i, j \in 0..n : i <= j => at[i] <= at[j]
  <2> SUFFICES ASSUME NEW i \in 0..n, NEW j \in 0..n, i <= j PROVE at[i] <= at[j]
    OBVIOUS
  <2>1. CASE j <= n1
    BY <2>1, <1>6
  <2>2. CASE i <= n1 /\ ~(j <= n1)
    <3>1. a1[i] <= a1[n1] /\ j - n1 \in 0..n2
      BY <2>2, <1>6
    <3> QED BY <3>1, <2>2, <1>5, <1>6
  <2>3. CASE ~(i <= n1)
    <3>1. i - n1 \in 0..n2 /\ j - n1 \in 0..n2 /\ i - n1 <= j - n1 /\ ~(j <= n1)
      BY <2>3
    <3>2. a2[i - n1] <= a2[j - n1]
      BY <3>1, <1>6
    <3> QED BY <3>1, <3>2, <2>3, <1>5, <1>6
  <2> QED BY <2>1, <2>2, <2>3
<1>9. \A i \in 1..n : /\ <<ps[i - 1], chs[i], ps[i]>> \in M
                      /\ Laid(w, at[i - 1], chs[i]) /\ at[i] = at[i - 1] + Width(chs[i])
  <2> SUFFICES ASSUME NEW i \in 1..n
               PROVE  /\ <<ps[i - 1], chs[i], ps[i]>> \in M
                      /\ Laid(w, at[i - 1], chs[i]) /\ at[i] = at[i - 1] + Width(chs[i])
    OBVIOUS
  <2>1. CASE i <= n1
    <3>1. i \in 1..n1 /\ i - 1 \in 0..n1 /\ i - 1 <= n1
      BY <2>1
    <3>2. ps[i - 1] = p1[i - 1] /\ ps[i] = p1[i] /\ chs[i] = c1[i] /\ at[i - 1] = a1[i - 1] /\ at[i] = a1[i]
      BY <3>1
    <3>3. /\ <<p1[i - 1], c1[i], p1[i]>> \in M
          /\ Laid(w1, a1[i - 1], c1[i]) /\ a1[i] = a1[i - 1] + Width(c1[i])
      BY <3>1, <1>2 DEF Path
    <3>4. a1[i - 1] \in Nat /\ c1[i] \in ChunkType
      BY <3>1, <1>6
    <3>5. Laid(w, a1[i - 1], c1[i])
      <4> DEFINE k == a1[i - 1]
                 ch == c1[i]
      <4>1. k \in Nat /\ ch \in ChunkType /\ Laid(w1, k, ch) /\ ch.n \in Nat
        BY <3>3, <3>4 DEF ChunkType
      <4> HIDE DEF k, ch, w
      <4>2. Width(ch) = Lead(ch) + ch.n /\ Lead(ch) \in 1..2 /\ k + Width(ch) <= Len(w1)
        BY <4>1, Widths DEF Width, Laid
      <4>3. k + Width(ch) <= Len(w)
        BY <4>1, <4>2, <1>5
      <4>4. w[k + 1] = w1[k + 1] /\ (ch.stamp => w[k + 2] = w1[k + 2])
        <5>1. k + 1 \in 1..Len(w1) /\ (ch.stamp => k + 2 \in 1..Len(w1))
          BY <4>1, <4>2, <1>5 DEF Lead
        <5> QED BY <5>1, <1>5
      <4>5. \A y \in 1..ch.n : w[(k + Lead(ch)) + y] = w1[(k + Lead(ch)) + y]
        <5>1. \A y \in 1..ch.n : (k + Lead(ch)) + y \in 1..Len(w1)
          BY <4>1, <4>2, <1>5, SMTT(40)
        <5> QED BY <5>1, <1>5
      <4>6. Laid(w, k, ch)
        BY <4>1, <4>3, <4>4, <4>5 DEF Laid
      <4> QED BY <4>6 DEF k, ch, w
    <3> QED BY <3>2, <3>3, <3>5
  <2>2. CASE ~(i <= n1)
    <3> DEFINE j == i - n1
    <3>1. j \in 1..n2 /\ j - 1 \in 0..n2
      BY <2>2
    <3>2. ps[i] = p2[j] /\ chs[i] = c2[j] /\ at[i] = Len(w1) + a2[j]
      BY <2>2
    <3>3. ps[i - 1] = p2[j - 1] /\ at[i - 1] = Len(w1) + a2[j - 1]
      <4>1. CASE i - 1 = n1
        BY <4>1, <1>2, <1>4, <1>6
      <4>2. CASE i - 1 # n1
        <5>1. ~(i - 1 <= n1) /\ i - 1 \in 0..n /\ (i - 1) - n1 = j - 1
          BY <4>2, <2>2
        <5> QED BY <5>1
      <4> QED BY <4>1, <4>2
    <3>4. /\ <<p2[j - 1], c2[j], p2[j]>> \in M
          /\ Laid(w2, a2[j - 1], c2[j]) /\ a2[j] = a2[j - 1] + Width(c2[j])
      BY <3>1, <1>4 DEF Path
    <3>5. a2[j - 1] \in Nat /\ c2[j] \in ChunkType
      BY <3>1, <1>6
    <3>6. Laid(w, Len(w1) + a2[j - 1], c2[j])
      <4> DEFINE k == a2[j - 1]
                 ch == c2[j]
      <4>1. k \in Nat /\ ch \in ChunkType /\ Laid(w2, k, ch) /\ ch.n \in Nat
        BY <3>4, <3>5 DEF ChunkType
      <4>2. \A x \in Nat : x > 0 /\ k + x <= Len(w2) => w[(Len(w1) + k) + x] = w2[k + x]
        <5> SUFFICES ASSUME NEW x \in Nat, x > 0, k + x <= Len(w2) PROVE w[(Len(w1) + k) + x] = w2[k + x]
          OBVIOUS
        <5>1. k + x \in 1..Len(w2) /\ (Len(w1) + k) + x = Len(w1) + (k + x)
          BY <4>1, <1>5, SMTT(40)
        <5> QED BY <5>1, <1>5
      <4> HIDE DEF k, ch, w
      <4>3. Width(ch) = Lead(ch) + ch.n /\ Lead(ch) \in 1..2 /\ k + Width(ch) <= Len(w2)
        BY <4>1, Widths DEF Width, Laid
      <4>4. (Len(w1) + k) + Width(ch) <= Len(w)
        BY <4>1, <4>3, <1>5
      <4>5. w[(Len(w1) + k) + 1] = w2[k + 1] /\ (ch.stamp => w[(Len(w1) + k) + 2] = w2[k + 2])
        BY <4>1, <4>2, <4>3, <1>5, SMTT(40) DEF Lead
      <4>6. \A y \in 1..ch.n : w[((Len(w1) + k) + Lead(ch)) + y] = w2[(k + Lead(ch)) + y]
        <5> SUFFICES ASSUME NEW y \in 1..ch.n
                     PROVE  w[((Len(w1) + k) + Lead(ch)) + y] = w2[(k + Lead(ch)) + y]
          OBVIOUS
        <5>1. Lead(ch) + y \in Nat /\ Lead(ch) + y > 0 /\ k + (Lead(ch) + y) <= Len(w2)
          BY <4>1, <4>3, <1>5, SMTT(40)
        <5>2. ((Len(w1) + k) + Lead(ch)) + y = (Len(w1) + k) + (Lead(ch) + y)
              /\ (k + Lead(ch)) + y = k + (Lead(ch) + y)
          BY <4>1, <4>3, <1>5
        <5> QED BY <5>1, <5>2, <4>2
      <4>7. Laid(w, Len(w1) + k, ch)
        BY <4>1, <4>4, <4>5, <4>6 DEF Laid
      <4> QED BY <4>7 DEF k, ch, w
    <3>7. at[i] = at[i - 1] + Width(c2[j])
      <4>1. Width(c2[j]) \in Nat
        BY <3>5, Widths
      <4>2. Len(w1) + (a2[j - 1] + Width(c2[j])) = (Len(w1) + a2[j - 1]) + Width(c2[j])
        BY <3>5, <4>1, <1>5
      <4> QED BY <3>2, <3>3, <3>4, <4>2
    <3> QED BY <3>2, <3>3, <3>4, <3>6, <3>7
  <2> QED BY <2>1, <2>2
<1> HIDE DEF chs, ps, at, w
<1>10. Path(w, M, n, chs, ps, at)
  BY <1>7, <1>8, <1>9 DEF Path
<1>11. n \in Nat
  OBVIOUS
<1>12. Leads(w, M, p, r)
  BY <1>7, <1>10, <1>11 DEF Leads
<1> QED BY <1>12 DEF w


\* A wire that leads somewhere begins with a chunk, and what follows leads on.
LEMMA FirstChunk ==
  ASSUME NEW U, NEW w \in Seq(U), NEW M, NEW p, NEW r, Leads(w, M, p, r), w # <<>>
  PROVE  \E ch \in ChunkType : \E q :
           /\ <<p, ch, q>> \in M /\ Laid(w, 0, ch)
           /\ Leads(SubSeq(w, Width(ch) + 1, Len(w)), M, q, r)
<1>1. PICK n \in Nat : \E chs, ps, at : Path(w, M, n, chs, ps, at) /\ ps[0] = p /\ ps[n] = r
  BY DEF Leads
<1>2. PICK chs, ps, at : Path(w, M, n, chs, ps, at) /\ ps[0] = p /\ ps[n] = r
  BY <1>1
<1>3. /\ chs \in [1..n -> ChunkType] /\ at \in [0..n -> Nat] /\ at[0] = 0 /\ at[n] = Len(w)
      /\ \A i, j \in 0..n : i <= j => at[i] <= at[j]
      /\ \A i \in 1..n : /\ <<ps[i - 1], chs[i], ps[i]>> \in M
                         /\ Laid(w, at[i - 1], chs[i]) /\ at[i] = at[i - 1] + Width(chs[i])
  BY <1>2 DEF Path
<1>4. Len(w) \in Nat /\ Len(w) > 0
  OBVIOUS
<1>5. n > 0 /\ 1 \in 1..n /\ 1 - 1 = 0
  BY <1>3, <1>4
<1> DEFINE ch == chs[1]
           v == SubSeq(w, Width(ch) + 1, Len(w))
           m == n - 1
           cs == [i \in 1..m |-> chs[i + 1]]
           qs == [i \in 0..m |-> ps[i + 1]]
           bt == [i \in 0..m |-> at[i + 1] - at[1]]
<1>6. ch \in ChunkType /\ at[1] = Width(ch) /\ Width(ch) \in Nat /\ Width(ch) > 0
  <2>1. ch \in ChunkType /\ at[1] = at[0] + Width(ch)
    BY <1>3, <1>5
  <2> QED BY <2>1, <1>3, Widths
<1>7. <<p, ch, ps[1]>> \in M /\ Laid(w, 0, ch)
  BY <1>2, <1>3, <1>5
<1>8. Width(ch) <= Len(w)
  BY <1>3, <1>5, <1>6
<1>9. Len(v) = Len(w) - Width(ch) /\ \A k \in 1..Len(v) : v[k] = w[k + Width(ch)]
  BY <1>4, <1>6, <1>8, SMTT(40)
<1>10. cs \in [1..m -> ChunkType] /\ bt \in [0..m -> Nat] /\ bt[0] = 0 /\ bt[m] = Len(v)
       /\ qs[0] = ps[1] /\ qs[m] = r
  <2>1. \A i \in 1..m : i + 1 \in 1..n
    OBVIOUS
  <2>2. \A i \in 0..m : i + 1 \in 0..n /\ 1 \in 0..n /\ 1 <= i + 1
    BY <1>5
  <2>3. \A i \in 0..m : at[i + 1] - at[1] \in Nat
    <3> SUFFICES ASSUME NEW i \in 0..m PROVE at[i + 1] - at[1] \in Nat
      OBVIOUS
    <3>1. at[i + 1] \in Nat /\ at[1] \in Nat /\ at[1] <= at[i + 1]
      BY <2>2, <1>3
    <3> QED BY <3>1
  <2>4. m \in 0..m /\ 0 \in 0..m /\ m + 1 = n /\ 0 + 1 = 1
    BY <1>5
  <2>5. bt[0] = 0 /\ bt[m] = at[n] - at[1]
    BY <2>4, <1>6
  <2> QED BY <2>1, <2>3, <2>4, <2>5, <1>2, <1>3, <1>6, <1>9
<1>11. \A i, j \in 0..m : i <= j => bt[i] <= bt[j]
  <2> SUFFICES ASSUME NEW i \in 0..m, NEW j \in 0..m, i <= j PROVE bt[i] <= bt[j]
    OBVIOUS
  <2>1. i + 1 \in 0..n /\ j + 1 \in 0..n /\ 1 \in 0..n /\ i + 1 <= j + 1
    BY <1>5
  <2>2. at[i + 1] <= at[j + 1] /\ at[i + 1] \in Nat /\ at[j + 1] \in Nat /\ at[1] \in Nat
    BY <2>1, <1>3
  <2> QED BY <2>2
<1>12. \A i \in 1..m : /\ <<qs[i - 1], cs[i], qs[i]>> \in M
                       /\ Laid(v, bt[i - 1], cs[i]) /\ bt[i] = bt[i - 1] + Width(cs[i])
  <2> SUFFICES ASSUME NEW i \in 1..m
               PROVE  /\ <<qs[i - 1], cs[i], qs[i]>> \in M
                      /\ Laid(v, bt[i - 1], cs[i]) /\ bt[i] = bt[i - 1] + Width(cs[i])
    OBVIOUS
  <2>1. i + 1 \in 1..n /\ (i - 1) + 1 = i /\ (i + 1) - 1 = i /\ i - 1 \in 0..m /\ i \in 0..m /\ i \in 0..n /\ 1 \in 0..n
        /\ 1 <= i /\ i + 1 \in 0..n
    OBVIOUS
  <2>2. qs[i - 1] = ps[i] /\ qs[i] = ps[i + 1] /\ cs[i] = chs[i + 1]
        /\ bt[i - 1] = at[i] - at[1] /\ bt[i] = at[i + 1] - at[1]
    BY <2>1
  <2>3. /\ <<ps[i], chs[i + 1], ps[i + 1]>> \in M
        /\ Laid(w, at[i], chs[i + 1]) /\ at[i + 1] = at[i] + Width(chs[i + 1])
    BY <2>1, <1>3
  <2>4. at[i] \in Nat /\ at[1] \in Nat /\ at[1] <= at[i] /\ at[i + 1] \in Nat /\ chs[i + 1] \in ChunkType
    BY <2>1, <1>3
  <2>5. Laid(v, at[i] - at[1], chs[i + 1])
    <3> DEFINE k == at[i]
               l == at[i] - at[1]
               d == chs[i + 1]
               z == Width(ch)
    <3>1. l \in Nat /\ k = l + z /\ z \in Nat /\ d \in ChunkType /\ Laid(w, k, d) /\ d.n \in Nat /\ Width(d) \in Nat
      <4>1. l \in Nat /\ k = l + z /\ z \in Nat
        BY <2>4, <1>6
      <4>2. d \in ChunkType /\ Laid(w, k, d)
        BY <2>3, <2>4
      <4> QED BY <4>1, <4>2, Widths DEF ChunkType
    <3>2. Width(d) = Lead(d) + d.n /\ Lead(d) \in 1..2 /\ k + Width(d) <= Len(w)
      BY <3>1, Widths DEF Width, Laid
    <3>3. Len(v) = Len(w) - z /\ \A x \in 1..Len(v) : v[x] = w[x + z]
      BY <1>9
    <3> HIDE DEF k, l, d, z, v
    <3>4. \A x \in Nat : x > 0 /\ k + x <= Len(w) => v[l + x] = w[k + x]
      <4> SUFFICES ASSUME NEW x \in Nat, x > 0, k + x <= Len(w) PROVE v[l + x] = w[k + x]
        OBVIOUS
      <4>1. l + x \in 1..Len(v) /\ (l + x) + z = k + x
        BY <3>1, <3>3, <1>4
      <4> QED BY <4>1, <3>3
    <3>5. l + Width(d) <= Len(v)
      BY <3>1, <3>2, <3>3, <1>4
    <3>6. v[l + 1] = w[k + 1] /\ (d.stamp => v[l + 2] = w[k + 2])
      BY <3>1, <3>2, <3>4, <1>4, SMTT(40) DEF Lead
    <3>7. \A y \in 1..d.n : v[(l + Lead(d)) + y] = w[(k + Lead(d)) + y]
      <4> SUFFICES ASSUME NEW y \in 1..d.n PROVE v[(l + Lead(d)) + y] = w[(k + Lead(d)) + y]
        OBVIOUS
      <4>1. Lead(d) + y \in Nat /\ Lead(d) + y > 0 /\ k + (Lead(d) + y) <= Len(w)
        BY <3>1, <3>2, <1>4, SMTT(40)
      <4>2. (l + Lead(d)) + y = l + (Lead(d) + y) /\ (k + Lead(d)) + y = k + (Lead(d) + y)
        BY <3>1, <3>2
      <4> QED BY <4>1, <4>2, <3>4
    <3>8. Laid(v, l, d)
      BY <3>1, <3>5, <3>6, <3>7 DEF Laid
    <3> QED BY <3>8 DEF l, d, v
  <2>6. bt[i] = bt[i - 1] + Width(cs[i])
    <3>1. Width(chs[i + 1]) \in Nat
      BY <2>4, Widths
    <3> QED BY <2>2, <2>3, <2>4, <3>1
  <2> QED BY <2>2, <2>3, <2>5, <2>6
<1>13. m \in Nat
  BY <1>5
<1>14. Leads(v, M, ps[1], r)
  <2> HIDE DEF v, m, cs, qs, bt
  <2>1. Path(v, M, m, cs, qs, bt)
    BY <1>10, <1>11, <1>12 DEF Path
  <2> QED BY <2>1, <1>10, <1>13 DEF Leads
<1> QED BY <1>6, <1>7, <1>14

\* More moves allow whatever fewer allowed.
LEMMA Wider ==
  ASSUME NEW w, NEW M, NEW N, M \subseteq N, NEW p, NEW q, Leads(w, M, p, q)
  PROVE  Leads(w, N, p, q)
<1>1. PICK n \in Nat : \E chs, ps, at : Path(w, M, n, chs, ps, at) /\ ps[0] = p /\ ps[n] = q
  BY DEF Leads
<1>2. PICK chs, ps, at : Path(w, M, n, chs, ps, at) /\ ps[0] = p /\ ps[n] = q
  BY <1>1
<1>3. Path(w, N, n, chs, ps, at)
  BY <1>2 DEF Path
<1> QED BY <1>2, <1>3 DEF Leads

----------------------------------------------------------------------------
(* What a chunk means to who reads it.                                     *)

\* Both ends of a wire remember the same of a chunk stream: the length and kind of the message
\* it is at, what is left of it, whether it has an extended timestamp, and which one it is.
StateType == {s \in [mlen : Nat, kind : Nat, remaining : Nat, ext : BOOLEAN, msg : Nat] : s.remaining <= s.mlen}
Blank == [mlen |-> 0, kind |-> 0, remaining |-> 0, ext |-> FALSE, msg |-> 0]

\* A place on a wire of chunk streams C: what is remembered there, the chunk size that holds and
\* how many messages that count have come to an end.
Places(C) == [states : [C -> StateType], size : Nat \ {0}, count : Nat]

\* What is left of the message that a chunk goes on with, or begins.
Todo(s, ch) == IF s.remaining = 0 THEN ch.len ELSE s.remaining

Reached(s, ch) ==
  [mlen |-> ch.len, kind |-> ch.kind, remaining |-> Todo(s, ch) - ch.n, ext |-> ch.ext, msg |-> ch.msg]

\* The chunk ch leads from p to q, for who expects an extended timestamp to be repeated or does not,
\* and takes messages of the kinds in sizes for new chunk sizes.
Turns(p, ch, q, repeats, sizes) ==
  LET s == p.states[ch.csid]
      t == Reached(s, ch)
  IN /\ s.remaining > 0 => ch.fmt = 3 /\ ch.msg = s.msg
     /\ ch.fmt # 0 => s.mlen > 0
     /\ ch.fmt \in {2, 3} => ch.len = s.mlen /\ ch.kind = s.kind
     /\ ch.fmt = 3 => ch.ext = s.ext
     /\ ch.n = Least(Todo(s, ch), p.size)
     /\ ch.stamp = (ch.ext /\ (ch.fmt # 3 \/ repeats))
     /\ q.states = [p.states EXCEPT ![ch.csid] = t]
     /\ q.size = IF t.remaining = 0 /\ ch.kind \in sizes THEN ch.kind ELSE p.size

\* What a reader has of a chunk stream that is where t says.
Has(t) ==
  [mlen |-> t.mlen, kind |-> t.kind, remaining |-> t.remaining,
   buf |-> Pieces(t.msg, t.mlen - t.remaining), ext |-> t.ext]

LEMMA NoPieces == \A m : Pieces(m, 0) = <<>>
BY DEF Pieces

\* Pieces of one message follow one another.
LEMMA AddPieces ==
  ASSUME NEW m, NEW i \in Nat, NEW j \in Nat
  PROVE  Pieces(m, i) \o Pieces(m, j) = Pieces(m, i + j)
<1> DEFINE U == {Piece(m)}
           a == Pieces(m, i)
           b == Pieces(m, j)
           c == Pieces(m, i + j)
<1>1. a \in Seq(U) /\ Len(a) = i /\ b \in Seq(U) /\ Len(b) = j /\ c \in Seq(U) /\ Len(c) = i + j
  BY DEF Pieces
<1>2. /\ \A k \in 1..i : a[k] = Piece(m)
      /\ \A k \in 1..j : b[k] = Piece(m)
      /\ \A k \in 1..(i + j) : c[k] = Piece(m)
  BY DEF Pieces
<1> HIDE DEF a, b, c, U
<1>3. a \o b \in Seq(U) /\ Len(a \o b) = i + j
  BY <1>1
<1>4. \A k \in 1..(i + j) : (a \o b)[k] = Piece(m)
  <2> SUFFICES ASSUME NEW k \in 1..(i + j) PROVE (a \o b)[k] = Piece(m)
    OBVIOUS
  <2>1. CASE k <= i
    BY <2>1, <1>1, <1>2
  <2>2. CASE ~(k <= i)
    <3>1. k - i \in 1..j
      BY <2>2
    <3>2. (a \o b)[k] = b[k - i]
      BY <3>1, <2>2, <1>1
    <3> QED BY <3>1, <3>2, <1>2
  <2> QED BY <2>1, <2>2
<1>5. a \o b = c
  BY <1>1, <1>2, <1>3, <1>4
<1> QED BY <1>5 DEF a, b, c

\* A chunk stream begun anew, with another timestamp or the same.
Anew(s, r, u, e) == [s EXCEPT !.remaining = r, !.buf = u, !.ext = e]
Onward(s, r, u) == [s EXCEPT !.remaining = r, !.buf = u]

\* A chunk stream that begins a message, field by field.
LEMMA Changed ==
  ASSUME NEW a, NEW k, NEW r, NEW u, NEW e, NEW r2, NEW u2, NEW e2,
         NEW s, s = [mlen |-> a, kind |-> k, remaining |-> r, buf |-> u, ext |-> e]
  PROVE  /\ Anew(s, r2, u2, e2) = [mlen |-> a, kind |-> k, remaining |-> r2, buf |-> u2, ext |-> e2]
         /\ Onward(s, r2, u2) = [mlen |-> a, kind |-> k, remaining |-> r2, buf |-> u2, ext |-> e]
<1> DEFINE A == {a, k, r, u, e, r2, u2, e2}
           R == [mlen : A, kind : A, remaining : A, buf : A, ext : A]
           t1 == [s EXCEPT !.remaining = r2, !.buf = u2, !.ext = e2]
           v1 == [mlen |-> a, kind |-> k, remaining |-> r2, buf |-> u2, ext |-> e2]
           t2 == [s EXCEPT !.remaining = r2, !.buf = u2]
           v2 == [mlen |-> a, kind |-> k, remaining |-> r2, buf |-> u2, ext |-> e]
<1>1. a \in A /\ k \in A /\ r \in A /\ u \in A /\ e \in A /\ r2 \in A /\ u2 \in A /\ e2 \in A
  OBVIOUS
<1> HIDE DEF A
<1>2. s \in R
  BY <1>1
<1>3. t1 \in R /\ t2 \in R
  BY <1>1, <1>2
<1>4. v1 \in R /\ v2 \in R
  BY <1>1
<1>5. /\ t1.mlen = v1.mlen /\ t1.kind = v1.kind /\ t1.remaining = v1.remaining /\ t1.buf = v1.buf /\ t1.ext = v1.ext
      /\ t2.mlen = v2.mlen /\ t2.kind = v2.kind /\ t2.remaining = v2.remaining /\ t2.buf = v2.buf /\ t2.ext = v2.ext
  OBVIOUS
<1>6. \A x, y \in R : x.mlen = y.mlen /\ x.kind = y.kind /\ x.remaining = y.remaining /\ x.buf = y.buf /\ x.ext = y.ext
                        => x = y
  OBVIOUS
<1> HIDE DEF t1, v1, t2, v2, R
<1>7. t1 = v1 /\ t2 = v2
  BY <1>3, <1>4, <1>5, <1>6
<1> QED BY <1>7 DEF t1, v1, t2, v2, Anew, Onward

LEMMA ChangedOnward ==
  ASSUME NEW a, NEW k, NEW r, NEW u, NEW e, NEW r2, NEW u2,
         NEW s, s = [mlen |-> a, kind |-> k, remaining |-> r, buf |-> u, ext |-> e]
  PROVE  Onward(s, r2, u2) = [mlen |-> a, kind |-> k, remaining |-> r2, buf |-> u2, ext |-> e]
BY Changed

\* What is cut out of a wire.
LEMMA CutOut ==
  ASSUME NEW U, NEW w \in Seq(U), NEW a \in Nat, NEW n \in Nat, a + n <= Len(w)
  PROVE  /\ SubSeq(w, a + 1, a + n) \in Seq(U) /\ Len(SubSeq(w, a + 1, a + n)) = n
         /\ \A i \in 1..n : SubSeq(w, a + 1, a + n)[i] = w[a + i]
OBVIOUS

\* The reading g is of chunk ch, and leaves its chunk stream where t says.
Took(g, ch, t) == g.whole = TRUE /\ g.sound = TRUE /\ g.used = Width(ch) /\ g.state = Has(t)

\* Who is where the chunk begins takes it for what it is, and is then where it ends.
LEMMA Reads ==
  ASSUME NEW C, NEW p \in Places(C), NEW ch \in ChunkType, ch.csid \in C, NEW q \in Places(C),
         NEW repeats \in BOOLEAN, NEW sizes, Turns(p, ch, q, repeats, sizes),
         NEW w \in Seq(Units), Laid(w, 0, ch),
         NEW states, states[ch.csid] = Has(p.states[ch.csid])
  PROVE  /\ w # <<>> /\ Head(w).t = "header" /\ Head(w).csid = ch.csid
         /\ Took(Chunk(w, states, p.size, repeats), ch, q.states[ch.csid])
<1> DEFINE c == ch.csid
           s == p.states[c]
           h == Head(w)
           b == Begins(states[c], h)
           stamped == IF h.fmt = 3 THEN repeats /\ b.ext ELSE h.ext
           skip == IF stamped THEN 2 ELSE 1
           want == Least(b.remaining, p.size)
           whole == skip + want <= Len(w)
           data == SubSeq(w, skip + 1, skip + want)
           before == Pieces(ch.msg, ch.len - Todo(s, ch))
<1>1. /\ s \in [mlen : Nat, kind : Nat, remaining : Nat, ext : BOOLEAN, msg : Nat] /\ s.remaining <= s.mlen
      /\ p.size \in Nat /\ p.size > 0 /\ ch.len \in Nat /\ ch.len > 0 /\ ch.fmt \in 0..3 /\ ch.n \in Nat
      /\ ch.stamp \in BOOLEAN /\ ch.ext \in BOOLEAN /\ ch.msg \in Nat
  BY SMTT(40) DEF Places, StateType, ChunkType
<1>2. /\ s.remaining > 0 => ch.fmt = 3 /\ ch.msg = s.msg
      /\ ch.fmt # 0 => s.mlen > 0
      /\ ch.fmt \in {2, 3} => ch.len = s.mlen /\ ch.kind = s.kind
      /\ ch.fmt = 3 => ch.ext = s.ext
      /\ ch.n = Least(Todo(s, ch), p.size)
      /\ ch.stamp = (ch.ext /\ (ch.fmt # 3 \/ repeats))
  BY DEF Turns
<1>3. Todo(s, ch) \in Nat /\ Todo(s, ch) > 0 /\ Todo(s, ch) <= ch.len
  BY <1>1, <1>2, SMTT(40) DEF Todo
<1>4. Len(w) \in Nat /\ Width(ch) <= Len(w) /\ Width(ch) = Lead(ch) + ch.n /\ Lead(ch) \in 1..2 /\ w # <<>> /\ h = w[1]
  <2>1. 0 + Width(ch) <= Len(w) /\ Width(ch) \in Nat /\ Width(ch) > 0 /\ Width(ch) = Lead(ch) + ch.n /\ Lead(ch) \in 1..2
    BY Widths DEF Laid, Width
  <2> QED BY <2>1
<1>5. /\ h.t = "header" /\ h.fmt = ch.fmt /\ h.csid = c
      /\ ch.fmt \in {0, 1} => h.len = ch.len /\ h.kind = ch.kind
      /\ ch.fmt # 3 => h.ext = ch.ext
      /\ ch.stamp => w[2].t = "ext"
      /\ \A i \in 1..ch.n : w[Lead(ch) + i] = Piece(ch.msg)
  <2>1. 0 + 1 = 1 /\ 0 + 2 = 2 /\ 0 + Lead(ch) = Lead(ch)
    BY <1>4
  <2> QED BY <2>1, <1>4 DEF Laid
<1>6. b = [mlen |-> ch.len, kind |-> ch.kind, remaining |-> Todo(s, ch), buf |-> before, ext |-> ch.ext]
  <2> HIDE DEF h, s, c
  <2>0. states[c] = [mlen |-> s.mlen, kind |-> s.kind, remaining |-> s.remaining,
                     buf |-> Pieces(s.msg, s.mlen - s.remaining), ext |-> s.ext]
    BY DEF Has, s, c
  <2>1. CASE s.remaining = 0
    <3>1. Todo(s, ch) = ch.len /\ before = <<>>
      BY <2>1, <1>1, NoPieces DEF Todo
    <3>2. CASE ch.fmt \in {0, 1}
      BY <3>1, <3>2, <1>5 DEF Begins
    <3>3. CASE ch.fmt = 2
      <4>1. b = Anew(states[c], states[c].mlen, <<>>, h.ext)
        BY <3>3, <1>5 DEF Begins, Anew
      <4>2. states[c].mlen = ch.len /\ h.ext = ch.ext /\ s.mlen = ch.len /\ s.kind = ch.kind
        BY <3>3, <2>0, <1>2, <1>5
      <4> HIDE DEF b, before
      <4> QED BY <3>1, <4>1, <4>2, <2>0, Changed
    <3>4. CASE ch.fmt = 3
      <4>1. states[c].remaining = 0
        BY <2>0, <2>1
      <4>2. b = Onward(states[c], states[c].mlen, <<>>)
        BY <3>4, <4>1, <1>5 DEF Begins, Onward
      <4>3. states[c].mlen = ch.len /\ s.mlen = ch.len /\ s.kind = ch.kind /\ s.ext = ch.ext
        BY <3>4, <2>0, <1>2
      <4> HIDE DEF b, before
      <4> QED BY <3>1, <4>2, <4>3, <2>0, ChangedOnward
    <3> QED BY <3>2, <3>3, <3>4, <1>1
  <2>2. CASE s.remaining # 0
    <3>1. ch.fmt = 3 /\ ch.msg = s.msg /\ ch.len = s.mlen /\ ch.kind = s.kind /\ ch.ext = s.ext
      BY <2>2, <1>1, <1>2
    <3>2. Todo(s, ch) = s.remaining
      BY <2>2 DEF Todo
    <3> QED BY <3>1, <3>2, <2>0, <2>2, <1>5 DEF Begins
  <2> QED BY <2>1, <2>2
<1>7. stamped = ch.stamp /\ skip = Lead(ch) /\ want = ch.n /\ whole = TRUE
  <2>1. b.ext = ch.ext /\ b.remaining = Todo(s, ch)
    BY <1>6
  <2>2. stamped = ch.stamp
    <3> HIDE DEF b, h, s
    <3> QED BY <2>1, <1>1, <1>2, <1>5
  <2>3. skip = Lead(ch)
    <3> HIDE DEF stamped
    <3> QED BY <2>2 DEF Lead
  <2>4. want = ch.n
    BY <2>1, <1>2
  <2>5. whole = TRUE
    BY <2>3, <2>4, <1>4
  <2> QED BY <2>2, <2>3, <2>4, <2>5
<1>8. data = Pieces(ch.msg, ch.n)
  <2>1. data = SubSeq(w, Lead(ch) + 1, Lead(ch) + ch.n)
    BY <1>7
  <2>2. /\ data \in Seq(Units) /\ Len(data) = ch.n
        /\ \A i \in 1..ch.n : data[i] = w[Lead(ch) + i]
    <3>1. Lead(ch) \in Nat /\ ch.n \in Nat /\ Lead(ch) + ch.n <= Len(w)
      BY <1>1, <1>4
    <3> DEFINE z == SubSeq(w, Lead(ch) + 1, Lead(ch) + ch.n)
    <3>2. z \in Seq(Units) /\ Len(z) = ch.n /\ \A i \in 1..ch.n : z[i] = w[Lead(ch) + i]
      <4> DEFINE a == Lead(ch)
                 n == ch.n
      <4>1. a \in Nat /\ n \in Nat /\ a + n <= Len(w)
        BY <3>1
      <4> HIDE DEF a, n
      <4>2. SubSeq(w, a + 1, a + n) \in Seq(Units) /\ Len(SubSeq(w, a + 1, a + n)) = n
            /\ \A i \in 1..n : SubSeq(w, a + 1, a + n)[i] = w[a + i]
        BY <4>1, CutOut
      <4> QED BY <4>2 DEF a, n
    <3> HIDE DEF data, z
    <3>3. data = z
      BY <2>1 DEF z
    <3> QED BY <3>2, <3>3
  <2>3. Pieces(ch.msg, ch.n) \in Seq({Piece(ch.msg)}) /\ Len(Pieces(ch.msg, ch.n)) = ch.n
        /\ \A i \in 1..ch.n : Pieces(ch.msg, ch.n)[i] = Piece(ch.msg)
    BY <1>1 DEF Pieces
  <2> HIDE DEF data
  <2>4. \A i \in 1..ch.n : data[i] = Pieces(ch.msg, ch.n)[i]
    BY <2>2, <2>3, <1>5
  <2> QED BY <2>2, <2>3, <2>4
<1>9. Chunk(w, states, p.size, repeats) =
        [whole |-> whole, used |-> skip + want,
         sound |-> (whole => /\ (stamped => w[2].t = "ext")
                             /\ \A i \in DOMAIN data : data[i].t = "piece"),
         state |-> IF whole THEN [b EXCEPT !.remaining = @ - want, !.buf = @ \o data] ELSE b]
  <2>1. Begins(states[h.csid], h) = b
    BY <1>5
  <2> HIDE DEF b
  <2> QED BY <2>1 DEF Chunk
<1> HIDE DEF stamped, skip, want, whole, data, b, before
<1>10. \A i \in DOMAIN data : data[i].t = "piece"
  BY <1>8 DEF Pieces, Piece, Unit
<1>11. [b EXCEPT !.remaining = @ - want, !.buf = @ \o data]
         = [mlen |-> ch.len, kind |-> ch.kind, remaining |-> Todo(s, ch) - ch.n,
            buf |-> before \o data, ext |-> ch.ext]
  <2>1. b.remaining - want = Todo(s, ch) - ch.n /\ b.buf \o data = before \o data
    BY <1>6, <1>7
  <2>2. [b EXCEPT !.remaining = @ - want, !.buf = @ \o data]
          = Onward(b, b.remaining - want, b.buf \o data)
    BY DEF Onward
  <2> QED BY <2>1, <2>2, <1>6, ChangedOnward
<1>12. before \o data = Pieces(ch.msg, ch.len - (Todo(s, ch) - ch.n))
  <2>1. ch.len - Todo(s, ch) \in Nat /\ (ch.len - Todo(s, ch)) + ch.n = ch.len - (Todo(s, ch) - ch.n)
    BY <1>1, <1>3
  <2>2. \A i \in Nat : Pieces(ch.msg, i) \o Pieces(ch.msg, ch.n) = Pieces(ch.msg, i + ch.n)
    BY <1>1, AddPieces
  <2>3. before \o data = Pieces(ch.msg, ch.len - Todo(s, ch)) \o Pieces(ch.msg, ch.n)
    BY <1>8 DEF before
  <2> QED BY <2>1, <2>2, <2>3
<1>13. q.states[c] = [mlen |-> ch.len, kind |-> ch.kind, remaining |-> Todo(s, ch) - ch.n, ext |-> ch.ext, msg |-> ch.msg]
  BY DEF Turns, Places, Reached
<1> DEFINE r == Chunk(w, states, p.size, repeats)
<1>14. r.whole = TRUE /\ r.used = Width(ch) /\ r.state = [b EXCEPT !.remaining = @ - want, !.buf = @ \o data]
  BY <1>4, <1>7, <1>9
<1>15. r.sound = TRUE
  <2>1. (whole => /\ (stamped => w[2].t = "ext")
                  /\ \A i \in DOMAIN data : data[i].t = "piece") = TRUE
    BY <1>5, <1>7, <1>10
  <2>2. r.sound = (whole => /\ (stamped => w[2].t = "ext")
                            /\ \A i \in DOMAIN data : data[i].t = "piece")
    BY <1>9
  <2> QED BY <2>1, <2>2
<1>16. r.state = Has(q.states[c])
  <2> HIDE DEF r, c
  <2> QED BY <1>11, <1>12, <1>13, <1>14 DEF Has
<1>17. Took(r, ch, q.states[ch.csid])
  <2> HIDE DEF r
  <2> QED BY <1>14, <1>15, <1>16 DEF Took
<1> QED BY <1>4, <1>5, <1>17

----------------------------------------------------------------------------
(* What a chunk is made of.                                                *)

\* Induction over the naturals, said of a set.
LEMMA Induction ==
  ASSUME NEW S, 0 \in S, \A n \in Nat : n \in S => n + 1 \in S
  PROVE  Nat \subseteq S
<1> SUFFICES ASSUME NEW b \in Nat, b \notin S PROVE FALSE
  OBVIOUS
<1> DEFINE T == Nat \ S
           R == OpToRel(<, Nat)
<1>1. IsWellFoundedOn(R, Nat)
  BY NatLessThanWellFounded
<1>2. \A x, y \in Nat : x < y => <<x, y>> \in R
  BY DEF OpToRel
<1> HIDE DEF R
<1>3. T \in SUBSET Nat /\ T # {}
  OBVIOUS
<1>4. PICK x \in T : \A y \in T : <<y, x>> \notin R
  BY <1>1, <1>3, WFMin
<1>5. x \in Nat /\ x # 0 /\ x - 1 \in Nat /\ (x - 1) + 1 = x /\ x - 1 < x
  BY <1>4
<1>6. x - 1 \notin T
  BY <1>2, <1>4, <1>5
<1> QED BY <1>4, <1>5, <1>6

\* Two sequences, one behind the other.
LEMMA Concatenated ==
  ASSUME NEW U, NEW a \in Seq(U), NEW b \in Seq(U)
  PROVE  /\ a \o b \in Seq(U) /\ Len(a \o b) = Len(a) + Len(b)
         /\ \A i \in 1..Len(a) : (a \o b)[i] = a[i]
         /\ \A i \in 1..Len(b) : (a \o b)[Len(a) + i] = b[i]
OBVIOUS

\* The first k of the sequences us, put together one by one.
Gathers(f, us, k) == f = [i \in 1..k |-> IF i = 1 THEN us[i] ELSE f[i - 1] \o us[i]]

\* The sums that FlattenSeq makes of a sequence of sequences.
LEMMA Gathered ==
  ASSUME NEW us, NEW k, NEW f, Gathers(f, us, k)
  PROVE  \A i \in 1..k : f[i] = IF i = 1 THEN us[i] ELSE f[i - 1] \o us[i]
<1> DEFINE v == [i \in 1..k |-> IF i = 1 THEN us[i] ELSE f[i - 1] \o us[i]]
<1>1. f = v
  BY DEF Gathers
<1>2. \A i \in 1..k : v[i] = IF i = 1 THEN us[i] ELSE f[i - 1] \o us[i]
  OBVIOUS
<1> HIDE DEF v
<1> QED BY <1>1, <1>2

\* FlattenSeq puts its sequences together one by one.
LEMMA Flattened ==
  ASSUME NEW U, NEW us \in Seq(U), Len(us) > 0
  PROVE  \E f : /\ f[1] = us[1]
                /\ \A i \in 1..Len(us) : i # 1 => f[i] = f[i - 1] \o us[i]
                /\ FlattenSeq(us) = f[Len(us)]
<1> DEFINE n == Len(us)
           S == {k \in Nat : \E f : Gathers(f, us, k)}
<1>1. n \in Nat
  OBVIOUS
<1>2. 0 \in S
  <2> DEFINE f == [i \in 1..0 |-> 0]
             v == [i \in 1..0 |-> IF i = 1 THEN us[i] ELSE f[i - 1] \o us[i]]
  <2>1. \A i \in 1..0 : f[i] = v[i]
    OBVIOUS
  <2>2. f = v
    <3>1. f = [i \in 1..0 |-> f[i]] /\ v = [i \in 1..0 |-> v[i]]
      OBVIOUS
    <3> HIDE DEF f, v
    <3> QED BY <2>1, <3>1
  <2>3. Gathers(f, us, 0)
    BY <2>2 DEF Gathers
  <2> HIDE DEF f
  <2> QED BY <2>3
<1>3. \A k \in Nat : k \in S => k + 1 \in S
  <2> SUFFICES ASSUME NEW k \in Nat, NEW f, Gathers(f, us, k) PROVE \E g : Gathers(g, us, k + 1)
    OBVIOUS
  <2> DEFINE g == [i \in 1..(k + 1) |-> IF i <= k THEN f[i] ELSE IF i = 1 THEN us[i] ELSE f[i - 1] \o us[i]]
             v == [i \in 1..(k + 1) |-> IF i = 1 THEN us[i] ELSE g[i - 1] \o us[i]]
  <2>1. \A i \in 1..k : f[i] = IF i = 1 THEN us[i] ELSE f[i - 1] \o us[i]
    BY Gathered
  <2>2. \A i \in 1..(k + 1) : g[i] = v[i]
    <3> SUFFICES ASSUME NEW i \in 1..(k + 1) PROVE g[i] = v[i]
      OBVIOUS
    <3>1. CASE i = 1
      <4>1. v[i] = us[i]
        BY <3>1
      <4>2. g[i] = IF i <= k THEN f[i] ELSE us[i]
        BY <3>1
      <4>3. i <= k => f[i] = us[i]
        BY <2>1, <3>1
      <4> QED BY <4>1, <4>2, <4>3
    <3>2. CASE i # 1
      <4>1. i - 1 \in 1..k /\ i - 1 \in 1..(k + 1) /\ i - 1 <= k
        BY <3>2
      <4>2. g[i - 1] = f[i - 1]
        BY <4>1
      <4>3. v[i] = f[i - 1] \o us[i]
        BY <3>2, <4>2
      <4>4. i <= k => f[i] = f[i - 1] \o us[i]
        <5>1. i <= k => i \in 1..k
          OBVIOUS
        <5> HIDE DEF g, v
        <5> QED BY <5>1, <2>1, <3>2
      <4>5. g[i] = IF i <= k THEN f[i] ELSE f[i - 1] \o us[i]
        BY <3>2
      <4> QED BY <4>3, <4>4, <4>5
    <3> QED BY <3>1, <3>2
  <2>3. g = v
    BY <2>2
  <2>4. Gathers(g, us, k + 1)
    BY <2>3 DEF Gathers
  <2> HIDE DEF g
  <2> QED BY <2>4
<1>4. PICK f : Gathers(f, us, n)
  <2>1. Nat \subseteq S
    BY <1>2, <1>3, Induction
  <2> QED BY <2>1, <1>1
<1> DEFINE c == CHOOSE g : Gathers(g, us, n)
<1>5. Gathers(c, us, n)
  BY <1>4
<1>6. FlattenSeq(us) = c[n]
  BY DEF FlattenSeq, Gathers
<1> HIDE DEF c
<1>7. \A i \in 1..n : c[i] = IF i = 1 THEN us[i] ELSE c[i - 1] \o us[i]
  BY <1>5, Gathered
<1>8. 1 \in 1..n
  BY <1>1
<1> HIDE DEF n
<1>9. c[1] = us[1] /\ \A i \in 1..n : i # 1 => c[i] = c[i - 1] \o us[i]
  BY <1>7, <1>8
<1> QED BY <1>6, <1>9 DEF n

\* A header, a timestamp or none, and pieces make a chunk.
LEMMA Lays ==
  ASSUME NEW ch \in ChunkType, NEW h \in Units, h.t = "header", h.fmt = ch.fmt, h.csid = ch.csid,
         ch.fmt \in {0, 1} => h.len = ch.len /\ h.kind = ch.kind, ch.fmt # 3 => h.ext = ch.ext,
         NEW stamp, stamp = IF ch.stamp THEN <<Ext>> ELSE <<>>,
         NEW u, u = <<h>> \o stamp \o Pieces(ch.msg, ch.n)
  PROVE  u \in Seq(Units) /\ Len(u) = Width(ch) /\ Laid(u, 0, ch)
<1> DEFINE b == Pieces(ch.msg, ch.n)
           a == <<h>> \o stamp
<1>1. Ext \in Units /\ Ext.t = "ext" /\ Piece(ch.msg) \in Units /\ ch.n \in Nat /\ ch.stamp \in BOOLEAN
  <2>1. ch.msg \in Nat /\ ch.n \in Nat /\ ch.stamp \in BOOLEAN
    BY DEF ChunkType
  <2>2. Unit("ext") \in Units /\ Unit("piece") \in Units /\ Unit("ext").t = "ext"
    BY DEF Unit, Units
  <2>3. Piece(ch.msg) \in Units
    <3> DEFINE k == Unit("piece")
    <3>1. k \in Units
      BY <2>2
    <3> HIDE DEF k
    <3>2. [k EXCEPT !.msg = ch.msg] \in Units
      BY <2>1, <3>1 DEF Units
    <3> QED BY <3>2 DEF k, Piece
  <2> QED BY <2>1, <2>2, <2>3 DEF Ext
<1>2. b \in Seq(Units) /\ Len(b) = ch.n /\ \A i \in 1..ch.n : b[i] = Piece(ch.msg)
  <2>1. b = [i \in 1..ch.n |-> Piece(ch.msg)]
    BY DEF Pieces
  <2> DEFINE z == Piece(ch.msg)
  <2>2. z \in Units
    BY <1>1
  <2> HIDE DEF z, b
  <2>3. b \in [1..ch.n -> Units] /\ \A i \in 1..ch.n : b[i] = z
    BY <2>1, <2>2 DEF z
  <2> QED BY <1>1, <2>3, SMTT(40) DEF z
<1>3. a \in Seq(Units) /\ Len(a) = Lead(ch) /\ a[1] = h /\ (ch.stamp => a[2] = Ext)
  <2>1. CASE ch.stamp
    BY <2>1, <1>1 DEF Lead
  <2>2. CASE ~ch.stamp
    BY <2>2, <1>1 DEF Lead
  <2> QED BY <2>1, <2>2
<1>4. u = a \o b
  OBVIOUS
<1> HIDE DEF a, b
<1>5. Lead(ch) \in 1..2 /\ (ch.stamp => Lead(ch) = 2) /\ Width(ch) = Lead(ch) + ch.n
  BY DEF Lead, Width
<1>6. u \in Seq(Units) /\ Len(u) = Width(ch)
  <2>1. a \o b \in Seq(Units) /\ Len(a \o b) = Len(a) + Len(b)
    BY <1>2, <1>3, Concatenated
  <2> QED BY <2>1, <1>2, <1>3, <1>4, <1>5
<1>7. u[1] = h /\ (ch.stamp => u[2] = Ext) /\ \A i \in 1..ch.n : u[Lead(ch) + i] = Piece(ch.msg)
  <2>1. \A i \in 1..Lead(ch) : u[i] = a[i]
    BY <1>2, <1>3, <1>4, Concatenated
  <2>2. \A i \in 1..ch.n : u[Lead(ch) + i] = b[i]
    <3>1. \A i \in 1..Len(b) : (a \o b)[Len(a) + i] = b[i]
      BY <1>2, <1>3, Concatenated, SMTT(40)
    <3> QED BY <3>1, <1>2, <1>3, <1>4
  <2>3. 1 \in 1..Lead(ch) /\ (ch.stamp => 2 \in 1..Lead(ch))
    BY <1>5
  <2>4. u[1] = a[1] /\ (ch.stamp => u[2] = a[2])
    BY <2>1, <2>3
  <2>5. \A i \in 1..ch.n : u[Lead(ch) + i] = Piece(ch.msg)
    <3> SUFFICES ASSUME NEW i \in 1..ch.n PROVE u[Lead(ch) + i] = Piece(ch.msg)
      OBVIOUS
    <3>1. u[Lead(ch) + i] = b[i]
      BY <2>2
    <3>2. b[i] = Piece(ch.msg)
      BY <1>2
    <3> QED BY <3>1, <3>2
  <2> QED BY <2>4, <2>5, <1>3
<1>8. 0 + 1 = 1 /\ 0 + 2 = 2 /\ 0 + Lead(ch) = Lead(ch) /\ 0 + Width(ch) = Len(u) /\ Width(ch) <= Len(u)
  BY <1>1, <1>5, <1>6
<1>9. Laid(u, 0, ch)
  <2>1. u[1] = h /\ (ch.stamp => u[2].t = "ext") /\ \A i \in 1..ch.n : u[Lead(ch) + i] = Piece(ch.msg)
    BY <1>1, <1>7
  <2>2. \A i \in 1..ch.n : u[(0 + Lead(ch)) + i] = Piece(ch.msg)
    BY <2>1, <1>8
  <2>3. u[0 + 1] = h /\ (ch.stamp => u[0 + 2].t = "ext") /\ 0 + Width(ch) <= Len(u)
    BY <2>1, <1>6, <1>8
  <2> QED BY <2>2, <2>3 DEF Laid
<1> QED BY <1>6, <1>9

\* A header says what it was made of.
LEMMA Headers ==
  ASSUME NEW f \in 0..3, NEW c \in CSIDs \cup OwnCSIDs, NEW l \in Nat, NEW k \in Nat, NEW e \in BOOLEAN,
         NEW h, h = ChunkHeader(f, c, l, k, e)
  PROVE  /\ h \in Units /\ h.t = "header" /\ h.fmt = f /\ h.csid = c
         /\ h.len = l /\ h.kind = k /\ h.ext = e
<1> DEFINE u == Unit("header")
<1>1. u \in Units /\ u.t = "header"
  BY DEF Unit, Units
<1>2. h = [u EXCEPT !.fmt = f, !.csid = c, !.len = l, !.kind = k, !.ext = e]
  BY DEF ChunkHeader
<1> HIDE DEF u
<1>3. h \in Units
  BY <1>1, <1>2 DEF Units
<1>4. h.t = "header" /\ h.fmt = f /\ h.csid = c
  BY <1>1, <1>2 DEF Units
<1>5. h.len = l /\ h.kind = k /\ h.ext = e
  BY <1>1, <1>2 DEF Units
<1> QED BY <1>3, <1>4, <1>5

\* Where a chunk leads to.
After(p, ch, sizes, n) ==
  [states |-> [p.states EXCEPT ![ch.csid] = Reached(p.states[ch.csid], ch)],
   size |-> IF Reached(p.states[ch.csid], ch).remaining = 0 /\ ch.kind \in sizes THEN ch.kind ELSE p.size,
   count |-> n]

\* After a chunk comes what the chunk leaves, at a place of the same kind.
LEMMA Reaches ==
  ASSUME NEW s \in StateType, NEW ch \in ChunkType, NEW size \in Nat \ {0},
         s.remaining > 0 => ch.len = s.mlen, ch.n = Least(Todo(s, ch), size)
  PROVE  /\ Reached(s, ch) \in StateType /\ Todo(s, ch) \in Nat
         /\ Reached(s, ch).mlen = ch.len /\ Reached(s, ch).msg = ch.msg /\ Reached(s, ch).kind = ch.kind
         /\ Reached(s, ch).remaining = Todo(s, ch) - ch.n /\ Reached(s, ch).ext = ch.ext
<1>1. /\ s.mlen \in Nat /\ s.remaining \in Nat /\ s.remaining <= s.mlen /\ ch.len \in Nat /\ ch.kind \in Nat
      /\ ch.ext \in BOOLEAN /\ ch.msg \in Nat
  BY DEF StateType, ChunkType
<1>2. Todo(s, ch) \in Nat /\ Todo(s, ch) <= ch.len
  BY <1>1 DEF Todo
<1>3. ch.n \in Nat /\ ch.n <= Todo(s, ch)
  BY <1>2 DEF Least, ChunkType
<1>4. Todo(s, ch) - ch.n \in Nat /\ Todo(s, ch) - ch.n <= ch.len
  BY <1>1, <1>2, <1>3
<1> QED BY <1>1, <1>2, <1>4 DEF Reached, StateType

\* Kinds that are chunk sizes.
ChunkSizes(sizes) == sizes \subseteq Nat \ {0}

\* A chunk that fits the place it is sent from leads to the place after it.
LEMMA Moves ==
  ASSUME NEW C, NEW p \in Places(C), NEW ch \in ChunkType, ch.csid \in C, NEW sizes, ChunkSizes(sizes),
         NEW n \in Nat,
         p.states[ch.csid].remaining > 0 => ch.len = p.states[ch.csid].mlen,
         ch.n = Least(Todo(p.states[ch.csid], ch), p.size)
  PROVE  /\ After(p, ch, sizes, n) \in Places(C)
         /\ After(p, ch, sizes, n).states[ch.csid] = Reached(p.states[ch.csid], ch)
         /\ \A c \in C : c # ch.csid => After(p, ch, sizes, n).states[c] = p.states[c]
<1> DEFINE s == p.states[ch.csid]
<1>1. s \in StateType /\ p.size \in Nat \ {0} /\ p.states \in [C -> StateType]
  BY DEF Places
<1>2. Reached(s, ch) \in StateType
  BY <1>1, Reaches
<1> DEFINE t == Reached(s, ch)
           v == [p.states EXCEPT ![ch.csid] = t]
           z == IF t.remaining = 0 /\ ch.kind \in sizes THEN ch.kind ELSE p.size
           r == After(p, ch, sizes, n)
<1>3. r = [states |-> v, size |-> z, count |-> n]
  BY DEF After
<1>4. v \in [C -> StateType] /\ v[ch.csid] = t /\ \A c \in C : c # ch.csid => v[c] = p.states[c]
  BY <1>1, <1>2
<1>5. z \in Nat \ {0}
  BY <1>1 DEF ChunkSizes
<1> HIDE DEF t, v, z, r
<1>6. r \in Places(C) /\ r.states[ch.csid] = t /\ \A c \in C : c # ch.csid => r.states[c] = p.states[c]
  BY <1>3, <1>4, <1>5 DEF Places
<1> QED BY <1>6 DEF t, r

----------------------------------------------------------------------------
(* From the server to the program.                                         *)

MessageType == [csid : CSIDs, len : Nat]

\* A chunk of the server: it goes on with the message its chunk stream is at, or begins the next
\* of the messages B on that chunk stream.
DownMove(p, ch, q, B) ==
  /\ ch.csid \in CSIDs /\ ch.kind \in Sizes \cup {0}
  /\ Turns(p, ch, q, FALSE, Sizes)
  /\ p.states[ch.csid].remaining = 0 =>
       /\ ch.msg \in DOMAIN B /\ B[ch.msg] = [csid |-> ch.csid, len |-> ch.len]
       /\ \A k \in 1..(ch.msg - 1) : B[k].csid = ch.csid => k <= p.states[ch.csid].msg
DownMoves(B) ==
  {m \in Places(CSIDs) \X ChunkType \X Places(CSIDs) : DownMove(m[1], m[2], m[3], B)}

\* The message a chunk stream is at is one of B.
Known(p, B) ==
  \A c \in CSIDs : LET s == p.states[c] IN
    /\ s.kind \in Sizes \cup {0}
    /\ IF s.mlen = 0 THEN s.msg = 0
       ELSE s.msg \in DOMAIN B /\ B[s.msg] = [csid |-> c, len |-> s.mlen]

\* None of B comes after what its chunk stream is at.
Latest(q, B) == \A m \in DOMAIN B : m <= q.states[B[m].csid].msg

\* What has come to its end before p is among the messages D put together.
Settled(p, B, D) ==
  \A m \in DOMAIN B : LET s == p.states[B[m].csid] IN
    (m < s.msg \/ (m = s.msg /\ s.remaining = 0)) => \E j \in DOMAIN D : D[j].msgs = {m}

\* What the server knows of a chunk stream that is where t says.
Sends(t) ==
  [mlen |-> t.mlen, kind |-> t.kind, remaining |-> t.remaining,
   buf |-> IF t.mlen = 0 THEN <<>> ELSE <<Piece(t.msg)>>, ext |-> t.ext]

\* What was put together is of the messages that were begun, as Intact says.
IntactOf(D, B) ==
  \A i \in DOMAIN D : \E m \in DOMAIN B :
    /\ D[i] = [msgs |-> {m}, len |-> B[m].len]
    /\ \A k \in 1..(m - 1) : B[k].csid = B[m].csid => \E j \in 1..(i - 1) : D[j].msgs = {k}

\* The wire of the server leads from where the program is to where the server is.
DownAt(p, q) ==
  /\ p \in Places(CSIDs) /\ q \in Places(CSIDs)
  /\ Leads(chunksDown, DownMoves(begun), p, q)
  /\ csidState = [c \in CSIDs |-> Has(p.states[c])] /\ inChunk = p.size
  /\ sender = [c \in CSIDs |-> Sends(q.states[c])] /\ sendSize = q.size
  /\ Known(p, begun) /\ Known(q, begun) /\ Latest(q, begun) /\ Settled(p, begun, delivered)

\* What holds between server and reader.
DownInv ==
  /\ begun \in Seq(MessageType) /\ chunksDown \in Seq(Units)
  /\ delivered \in Seq([msgs : SUBSET Nat, len : Nat])
  /\ IntactOf(delivered, begun)
  /\ \E p, q : DownAt(p, q)

\* What is known of the messages stays true when one more begins.
LEMMA OneMore ==
  ASSUME NEW B \in Seq(MessageType), NEW e \in MessageType, NEW B2, B2 = Append(B, e)
  PROVE  /\ B2 \in Seq(MessageType) /\ Len(B2) = Len(B) + 1 /\ B2[Len(B) + 1] = e
         /\ DOMAIN B = 1..Len(B) /\ DOMAIN B2 = 1..(Len(B) + 1) /\ Len(B) \in Nat
         /\ \A i \in 1..Len(B) : B2[i] = B[i]
OBVIOUS

\* A message that begins takes no move away.
LEMMA MoreMoves ==
  ASSUME NEW B \in Seq(MessageType), NEW e \in MessageType, NEW B2, B2 = Append(B, e)
  PROVE  DownMoves(B) \subseteq DownMoves(B2)
<1>1. /\ DOMAIN B = 1..Len(B) /\ DOMAIN B2 = 1..(Len(B) + 1) /\ Len(B) \in Nat
      /\ \A i \in 1..Len(B) : B2[i] = B[i]
  BY OneMore
<1> SUFFICES ASSUME NEW m \in DownMoves(B) PROVE m \in DownMoves(B2)
  OBVIOUS
<1>2. m \in Places(CSIDs) \X ChunkType \X Places(CSIDs) /\ DownMove(m[1], m[2], m[3], B)
  BY DEF DownMoves
<1> DEFINE p == m[1]
           ch == m[2]
           q == m[3]
<1> HIDE DEF p, ch, q
<1>3. DownMove(p, ch, q, B)
  BY <1>2 DEF p, ch, q
<1>4. p.states[ch.csid].remaining = 0 =>
       /\ ch.msg \in DOMAIN B2 /\ B2[ch.msg] = [csid |-> ch.csid, len |-> ch.len]
       /\ \A k \in 1..(ch.msg - 1) : B2[k].csid = ch.csid => k <= p.states[ch.csid].msg
  <2> SUFFICES ASSUME p.states[ch.csid].remaining = 0
               PROVE  /\ ch.msg \in DOMAIN B2 /\ B2[ch.msg] = [csid |-> ch.csid, len |-> ch.len]
                      /\ \A k \in 1..(ch.msg - 1) : B2[k].csid = ch.csid => k <= p.states[ch.csid].msg
    OBVIOUS
  <2>1. /\ ch.msg \in DOMAIN B /\ B[ch.msg] = [csid |-> ch.csid, len |-> ch.len]
        /\ \A k \in 1..(ch.msg - 1) : B[k].csid = ch.csid => k <= p.states[ch.csid].msg
    BY <1>3 DEF DownMove
  <2>2. \A k \in 1..(ch.msg - 1) : k \in 1..Len(B)
    BY <1>1, <2>1
  <2> QED BY <1>1, <2>1, <2>2
<1>5. DownMove(p, ch, q, B2)
  BY <1>3, <1>4 DEF DownMove
<1> QED BY <1>2, <1>5 DEF DownMoves, p, ch, q

\* What a place knows is still so when one more message begins.
LEMMA StillKnown ==
  ASSUME NEW B \in Seq(MessageType), NEW e \in MessageType, NEW B2, B2 = Append(B, e),
         NEW p \in Places(CSIDs), Known(p, B)
  PROVE  /\ Known(p, B2)
         /\ \A D : Settled(p, B, D) => Settled(p, B2, D)
         /\ \A D : IntactOf(D, B) => IntactOf(D, B2)
<1>1. /\ DOMAIN B = 1..Len(B) /\ DOMAIN B2 = 1..(Len(B) + 1) /\ Len(B) \in Nat /\ B2 \in Seq(MessageType)
      /\ \A i \in 1..Len(B) : B2[i] = B[i]
  BY OneMore
<1>2. Known(p, B2)
  BY <1>1 DEF Known
<1>3. \A D : Settled(p, B, D) => Settled(p, B2, D)
  <2> SUFFICES ASSUME NEW D, Settled(p, B, D) PROVE Settled(p, B2, D)
    OBVIOUS
  <2> SUFFICES ASSUME NEW m \in DOMAIN B2,
                      m < p.states[B2[m].csid].msg
                        \/ (m = p.states[B2[m].csid].msg /\ p.states[B2[m].csid].remaining = 0)
               PROVE  \E j \in DOMAIN D : D[j].msgs = {m}
    BY DEF Settled
  <2> DEFINE s == p.states[B2[m].csid]
  <2>1. B2[m].csid \in CSIDs
    <3>1. B2[m] \in MessageType
      BY <1>1
    <3> QED BY <3>1 DEF MessageType
  <2>2. s \in StateType /\ (s.mlen = 0 => s.msg = 0) /\ (s.mlen # 0 => s.msg \in DOMAIN B)
    <3> DEFINE c == B2[m].csid
    <3>1. c \in CSIDs /\ s = p.states[c]
      BY <2>1
    <3> HIDE DEF c
    <3>2. s \in StateType
      BY <3>1 DEF Places
    <3> QED BY <3>1, <3>2 DEF Known
  <2>3. s.msg \in Nat /\ s.msg <= Len(B)
    BY <1>1, <2>2, SMTT(40) DEF StateType
  <2>4. m \in DOMAIN B /\ B2[m] = B[m]
    BY <1>1, <2>3
  <2>5. m < p.states[B[m].csid].msg \/ (m = p.states[B[m].csid].msg /\ p.states[B[m].csid].remaining = 0)
    BY <2>4
  <2> HIDE DEF s
  <2> QED BY <2>4, <2>5 DEF Settled
<1>4. \A D : IntactOf(D, B) => IntactOf(D, B2)
  <2> SUFFICES ASSUME NEW D, IntactOf(D, B), NEW i \in DOMAIN D
               PROVE  \E m \in DOMAIN B2 :
                        /\ D[i] = [msgs |-> {m}, len |-> B2[m].len]
                        /\ \A k \in 1..(m - 1) : B2[k].csid = B2[m].csid => \E j \in 1..(i - 1) : D[j].msgs = {k}
    BY DEF IntactOf
  <2>1. PICK m \in DOMAIN B :
          /\ D[i] = [msgs |-> {m}, len |-> B[m].len]
          /\ \A k \in 1..(m - 1) : B[k].csid = B[m].csid => \E j \in 1..(i - 1) : D[j].msgs = {k}
    BY DEF IntactOf
  <2>2. m \in DOMAIN B2 /\ B2[m] = B[m] /\ \A k \in 1..(m - 1) : B2[k] = B[k]
    BY <1>1
  <2> QED BY <2>1, <2>2
<1> QED BY <1>2, <1>3, <1>4

\* Chunk sizes are told from 0 and from an acknowledgement.
LEMMA SizesAssumed == ChunkSizes(Sizes) /\ 0 \notin Sizes /\ AckKind \notin Sizes /\ OutChunk \in Nat \ {0}
BY ChunksAssumption DEF AckKind, OutChunk, ChunkSizes

\* The wire of the server grows by one chunk.
LEMMA DownGrows ==
  ASSUME NEW A, NEW B, DownMoves(A) \subseteq DownMoves(B), NEW p, NEW q \in Places(CSIDs), NEW r \in Places(CSIDs),
         NEW ch \in ChunkType, DownMove(q, ch, r, B), NEW w \in Seq(Units), Leads(w, DownMoves(A), p, q),
         NEW u \in Seq(Units), Len(u) = Width(ch), Laid(u, 0, ch)
  PROVE  w \o u \in Seq(Units) /\ Leads(w \o u, DownMoves(B), p, r)
<1>1. <<q, ch, r>> \in DownMoves(B)
  BY DEF DownMoves
<1>2. Leads(u, DownMoves(B), q, r)
  BY <1>1, OneChunk
<1>3. Leads(w, DownMoves(B), p, q)
  BY Wider
<1> QED BY <1>2, <1>3, Joined

\* Nothing is under way at first.
LEMMA DownStarts == ChunksInit => DownInv
<1> SUFFICES ASSUME ChunksInit PROVE DownInv
  OBVIOUS
<1> DEFINE p == [states |-> [c \in CSIDs |-> Blank], size |-> 1, count |-> 0]
<1>1. Blank \in StateType /\ Blank.mlen = 0 /\ Blank.remaining = 0 /\ Blank.msg = 0 /\ Blank.kind = 0 /\ Blank.ext = FALSE
  BY DEF Blank, StateType
<1>2. p \in Places(CSIDs) /\ \A c \in CSIDs : p.states[c] = Blank
  BY <1>1 DEF Places
<1>3. p.size = 1
  OBVIOUS
<1>4. Has(Blank) = Fresh /\ Sends(Blank) = Fresh
  <2>1. Pieces(Blank.msg, Blank.mlen - Blank.remaining) = <<>>
    BY <1>1, NoPieces
  <2> QED BY <2>1, <1>1 DEF Has, Sends, Fresh
<1>5. begun = <<>> /\ chunksDown = <<>> /\ delivered = <<>> /\ inChunk = 1 /\ sendSize = 1
      /\ csidState = [c \in CSIDs |-> Fresh] /\ sender = [c \in CSIDs |-> Fresh]
  BY DEF ChunksInit
<1>6. Known(p, begun)
  BY <1>1, <1>2 DEF Known
<1>7. Latest(p, begun) /\ Settled(p, begun, delivered) /\ IntactOf(delivered, begun)
  BY <1>5 DEF Latest, Settled, IntactOf
<1>8. Leads(chunksDown, DownMoves(begun), p, p)
  BY <1>5, NoChunks
<1> HIDE DEF p
<1>9. csidState = [c \in CSIDs |-> Has(p.states[c])] /\ sender = [c \in CSIDs |-> Sends(p.states[c])]
  BY <1>2, <1>4, <1>5
<1>10. DownAt(p, p)
  BY <1>2, <1>3, <1>5, <1>6, <1>7, <1>8, <1>9 DEF DownAt
<1> QED BY <1>5, <1>7, <1>10 DEF DownInv

\* A chunk stream with less to go.
Kept(s, r) == [s EXCEPT !.remaining = r]

LEMMA ChangedKept ==
  ASSUME NEW a, NEW k, NEW r, NEW u, NEW e, NEW r2,
         NEW s, s = [mlen |-> a, kind |-> k, remaining |-> r, buf |-> u, ext |-> e]
  PROVE  Kept(s, r2) = [mlen |-> a, kind |-> k, remaining |-> r2, buf |-> u, ext |-> e]
<1> DEFINE A == {a, k, r, u, e, r2}
           R == [mlen : A, kind : A, remaining : A, buf : A, ext : A]
           t1 == [s EXCEPT !.remaining = r2]
           v1 == [mlen |-> a, kind |-> k, remaining |-> r2, buf |-> u, ext |-> e]
<1>1. a \in A /\ k \in A /\ r \in A /\ u \in A /\ e \in A /\ r2 \in A
  OBVIOUS
<1> HIDE DEF A
<1>2. s \in R
  BY <1>1
<1>3. t1 \in R /\ v1 \in R
  BY <1>1, <1>2
<1>4. t1.mlen = v1.mlen /\ t1.kind = v1.kind /\ t1.remaining = v1.remaining /\ t1.buf = v1.buf /\ t1.ext = v1.ext
  OBVIOUS
<1>5. \A x, y \in R : x.mlen = y.mlen /\ x.kind = y.kind /\ x.remaining = y.remaining /\ x.buf = y.buf /\ x.ext = y.ext
                        => x = y
  OBVIOUS
<1> HIDE DEF t1, v1, R
<1>6. t1 = v1
  BY <1>3, <1>4, <1>5
<1> QED BY <1>6 DEF t1, v1, Kept

\* The server goes on with a message.
LEMMA DownContinues ==
  ASSUME DownInv, NEW c \in CSIDs, ServerContinues(c, FALSE), UNCHANGED <<csidState, inChunk, delivered>>
  PROVE  DownInv'
<1>1. PICK p, q : DownAt(p, q)
  BY DEF DownInv
<1> DEFINE s == q.states[c]
           k == Least(s.remaining, q.size)
           ch == [csid |-> c, fmt |-> 3, len |-> s.mlen, kind |-> s.kind, ext |-> s.ext,
                  stamp |-> FALSE, msg |-> s.msg, n |-> k]
           r == After(q, ch, Sizes, 0)
           t == Reached(s, ch)
           h == ChunkHeader(3, c, 0, 0, FALSE)
           u == <<h>> \o <<>> \o Pieces(s.msg, k)
           w == chunksDown
           B == begun
<1>2. /\ p \in Places(CSIDs) /\ q \in Places(CSIDs) /\ Leads(w, DownMoves(B), p, q)
      /\ sender = [x \in CSIDs |-> Sends(q.states[x])] /\ sendSize = q.size
      /\ Known(q, B) /\ Latest(q, B)
  BY <1>1 DEF DownAt
<1>3. /\ s \in StateType /\ s.mlen \in Nat /\ s.kind \in Nat /\ s.remaining \in Nat /\ s.ext \in BOOLEAN /\ s.msg \in Nat
      /\ s.remaining <= s.mlen /\ q.size \in Nat \ {0} /\ q.states \in [CSIDs -> StateType]
  BY <1>2 DEF Places, StateType
<1>4. sender[c] = Sends(s) /\ Sends(s).remaining = s.remaining
  <2>1. sender[c] = Sends(s)
    BY <1>2
  <2>2. Sends(s).remaining = s.remaining
    BY DEF Sends
  <2> QED BY <2>1, <2>2
<1>5. s.remaining > 0 /\ s.mlen > 0
  <2>1. sender[c].remaining > 0
    BY DEF ServerContinues
  <2>2. s.remaining > 0
    BY <2>1, <1>4
  <2> HIDE DEF s
  <2> QED BY <2>2, <1>3
<1>6. sender[c].buf[1].msg = s.msg
  <2>1. Sends(s).buf = <<Piece(s.msg)>>
    BY <1>5 DEF Sends
  <2>2. Piece(s.msg).msg = s.msg
    BY DEF Piece, Unit
  <2> QED BY <2>1, <2>2, <1>4
<1>7. /\ chunksDown' = w \o u /\ begun' = B
      /\ sender' = [sender EXCEPT ![c] = Kept(Sends(s), s.remaining - k)]
      /\ sendSize' = IF sender'[c].remaining = 0 /\ sender'[c].kind # 0 THEN sender'[c].kind ELSE q.size
  <2>1. (IF FALSE THEN <<Ext>> ELSE <<>>) = <<>>
    OBVIOUS
  <2>2. chunksDown' = w \o u /\ begun' = B
    BY <1>2, <1>4, <1>6, <2>1 DEF ServerContinues
  <2>3. sender' = [sender EXCEPT ![c] = Kept(sender[c], sender[c].remaining - k)]
    BY <1>2, <1>4 DEF ServerContinues, Kept
  <2>4. sendSize' = Announces(sender'[c])
    BY DEF ServerContinues
  <2> QED BY <2>2, <2>3, <2>4, <1>2, <1>4 DEF Announces
<1>8. k \in Nat /\ k > 0 /\ Todo(s, ch) = s.remaining /\ ch.n = k /\ ch.csid = c
  BY <1>3, <1>5 DEF Least, Todo
<1>9. ch \in ChunkType
  BY <1>3, <1>5, <1>8 DEF ChunkType
<1>10. /\ ch.fmt = 3 /\ ch.len = s.mlen /\ ch.kind = s.kind /\ ch.ext = s.ext /\ ch.stamp = FALSE /\ ch.msg = s.msg
  OBVIOUS
<1> HIDE DEF ch
<1>11. /\ t \in StateType /\ t.mlen = s.mlen /\ t.msg = s.msg /\ t.kind = s.kind /\ t.ext = s.ext
       /\ t.remaining = s.remaining - k
  <2>1. s.remaining > 0 => ch.len = s.mlen
    BY <1>10
  <2>2. ch.n = Least(Todo(s, ch), q.size)
    BY <1>8
  <2> HIDE DEF s, k
  <2>3. /\ Reached(s, ch) \in StateType
         /\ Reached(s, ch).mlen = ch.len /\ Reached(s, ch).msg = ch.msg /\ Reached(s, ch).kind = ch.kind
         /\ Reached(s, ch).remaining = Todo(s, ch) - ch.n /\ Reached(s, ch).ext = ch.ext
    BY <2>1, <2>2, <1>3, <1>9, Reaches
  <2> QED BY <2>3, <1>8, <1>10
<1>12. r \in Places(CSIDs) /\ r.states[c] = t /\ \A x \in CSIDs : x # c => r.states[x] = q.states[x]
  <2>1. s = q.states[ch.csid] /\ (s.remaining > 0 => ch.len = s.mlen) /\ ch.n = Least(Todo(s, ch), q.size)
    BY <1>8, <1>10
  <2> DEFINE n == 0
  <2>2. r = After(q, ch, Sizes, n) /\ n \in Nat /\ ch.csid \in CSIDs /\ q \in Places(CSIDs)
    BY <1>2, <1>8
  <2> HIDE DEF s, k, r, n
  <2>3. /\ r \in Places(CSIDs) /\ r.states[ch.csid] = Reached(s, ch)
        /\ \A x \in CSIDs : x # ch.csid => r.states[x] = q.states[x]
    <3>1. /\ q.states[ch.csid].remaining > 0 => ch.len = q.states[ch.csid].mlen
          /\ ch.n = Least(Todo(q.states[ch.csid], ch), q.size) /\ ChunkSizes(Sizes)
      BY <2>1, SizesAssumed
    <3>2. /\ After(q, ch, Sizes, n) \in Places(CSIDs)
          /\ After(q, ch, Sizes, n).states[ch.csid] = Reached(q.states[ch.csid], ch)
          /\ \A x \in CSIDs : x # ch.csid => After(q, ch, Sizes, n).states[x] = q.states[x]
      BY <2>2, <3>1, <1>9, Moves
    <3> QED BY <2>1, <2>2, <3>2
  <2> QED BY <2>3, <1>8
<1>13. r.size = (IF t.remaining = 0 /\ s.kind \in Sizes THEN s.kind ELSE q.size)
       /\ r.states = [q.states EXCEPT ![c] = t]
  BY <1>8, <1>10 DEF After
<1>14. s.kind \in Sizes \cup {0}
  BY <1>2 DEF Known
<1>15. DownMove(q, ch, r, B)
  <2>1. Turns(q, ch, r, FALSE, Sizes)
    BY <1>5, <1>8, <1>10, <1>13 DEF Turns
  <2>2. ch.csid \in CSIDs /\ ch.kind \in Sizes \cup {0} /\ q.states[ch.csid].remaining # 0
    BY <1>3, <1>5, <1>8, <1>10, <1>14
  <2> HIDE DEF r
  <2> QED BY <2>1, <2>2 DEF DownMove
<1>16. u \in Seq(Units) /\ Len(u) = Width(ch) /\ Laid(u, 0, ch)
  <2>1. h \in Units /\ h.t = "header" /\ h.fmt = 3 /\ h.csid = c
    <3> DEFINE f == 3
               l == 0
               e == FALSE
    <3>1. h = ChunkHeader(f, c, l, l, e) /\ f \in 0..3 /\ l \in Nat /\ e \in BOOLEAN /\ c \in CSIDs \cup OwnCSIDs
      OBVIOUS
    <3> HIDE DEF f, l, e, h
    <3>2. h \in Units /\ h.t = "header" /\ h.fmt = f /\ h.csid = c
      BY <3>1, Headers
    <3> QED BY <3>2 DEF f
  <2>2. u = <<h>> \o <<>> \o Pieces(ch.msg, ch.n)
    BY <1>8, <1>10
  <2> HIDE DEF h, u
  <2>3. ch.fmt \notin {0, 1} /\ <<>> = IF ch.stamp THEN <<Ext>> ELSE <<>>
    BY <1>10
  <2> QED BY <2>1, <2>2, <2>3, <1>8, <1>9, <1>10, Lays
<1> HIDE DEF u, r, t, s, k
<1>17. w \o u \in Seq(Units) /\ Leads(w \o u, DownMoves(B), p, r)
  BY <1>2, <1>9, <1>12, <1>15, <1>16, DownGrows DEF DownInv
<1>18. Kept(Sends(s), s.remaining - k) = Sends(t)
  <2>1. Sends(s) = [mlen |-> s.mlen, kind |-> s.kind, remaining |-> s.remaining, buf |-> <<Piece(s.msg)>>, ext |-> s.ext]
    BY <1>3, <1>5 DEF Sends
  <2>2. Sends(t) = [mlen |-> s.mlen, kind |-> s.kind, remaining |-> s.remaining - k, buf |-> <<Piece(s.msg)>>, ext |-> s.ext]
    BY <1>3, <1>5, <1>11 DEF Sends
  <2> QED BY <2>1, <2>2, ChangedKept
<1>19. sender' = [x \in CSIDs |-> Sends(r.states[x])]
  <2>1. sender' = [sender EXCEPT ![c] = Sends(t)]
    BY <1>7, <1>18
  <2> QED BY <2>1, <1>2, <1>12
<1>20. sendSize' = r.size
  <2>1. sender'[c].remaining = t.remaining /\ sender'[c].kind = s.kind
    BY <1>11, <1>12, <1>19 DEF Sends
  <2> QED BY <2>1, <1>7, <1>13, <1>14, SizesAssumed
<1>21. Known(r, B)
  BY <1>2, <1>11, <1>12 DEF Known, s
<1>22. Latest(r, B)
  <2>1. \A x \in CSIDs : r.states[x].msg = q.states[x].msg
    BY <1>11, <1>12 DEF s
  <2>2. \A m \in DOMAIN B : B[m].csid \in CSIDs
    <3>1. \A m \in DOMAIN B : B[m] \in MessageType
      BY DEF DownInv
    <3> QED BY <3>1 DEF MessageType
  <2> QED BY <2>1, <2>2, <1>2 DEF Latest
<1> QED
  <2>1. DownAt(p, r)'
    BY <1>1, <1>7, <1>12, <1>17, <1>19, <1>20, <1>21, <1>22 DEF DownAt
  <2> QED BY <2>1, <1>7, <1>17 DEF DownInv

\* The server begins a message.
LEMMA DownBegins ==
  ASSUME DownInv, NEW c \in CSIDs, NEW f \in 0..3, NEW l \in Lengths, NEW kind \in Sizes \cup {0},
         NEW e \in BOOLEAN, ServerBegins(c, f, l, kind, e, FALSE), UNCHANGED <<csidState, inChunk, delivered>>
  PROVE  DownInv'
<1>1. PICK p, q : DownAt(p, q)
  BY DEF DownInv
<1>0. PICK B : B = begun
  OBVIOUS
<1> DEFINE s == q.states[c]
           k == Least(l, q.size)
           m == Len(B) + 1
           g == [csid |-> c, len |-> l]
           B2 == Append(B, g)
           st == e /\ f # 3
           stamp == IF st THEN <<Ext>> ELSE <<>>
           ch == [csid |-> c, fmt |-> f, len |-> l, kind |-> kind, ext |-> e, stamp |-> st, msg |-> m, n |-> k]
           r == After(q, ch, Sizes, 0)
           t == Reached(s, ch)
           h == ChunkHeader(f, c, l, kind, e)
           u == <<h>> \o stamp \o Pieces(m, k)
           w == chunksDown
<1>2. /\ p \in Places(CSIDs) /\ q \in Places(CSIDs) /\ Leads(w, DownMoves(B), p, q)
      /\ sender = [x \in CSIDs |-> Sends(q.states[x])] /\ sendSize = q.size
      /\ Known(p, B) /\ Known(q, B) /\ Latest(q, B) /\ Settled(p, B, delivered)
  BY <1>0, <1>1 DEF DownAt
<1>3. /\ s \in StateType /\ s.mlen \in Nat /\ s.kind \in Nat /\ s.remaining \in Nat /\ s.ext \in BOOLEAN /\ s.msg \in Nat
      /\ s.remaining <= s.mlen /\ q.size \in Nat \ {0} /\ q.states \in [CSIDs -> StateType]
  BY <1>2 DEF Places, StateType
<1>4. /\ sender[c] = Sends(s) /\ Sends(s).remaining = s.remaining /\ Sends(s).mlen = s.mlen
      /\ Sends(s).kind = s.kind /\ Sends(s).ext = s.ext
  <2>1. sender[c] = Sends(s)
    BY <1>2
  <2>2. Sends(s).remaining = s.remaining /\ Sends(s).mlen = s.mlen /\ Sends(s).kind = s.kind /\ Sends(s).ext = s.ext
    BY DEF Sends
  <2> QED BY <2>1, <2>2
<1>5. /\ s.remaining = 0 /\ (s.mlen = 0 => f = 0) /\ (f \in {2, 3} => l = s.mlen /\ kind = s.kind)
      /\ (f = 3 => e = s.ext)
  <2> HIDE DEF s
  <2> QED BY <1>3, <1>4 DEF ServerBegins
<1>6. l \in Nat /\ l > 0 /\ kind \in Nat /\ B \in Seq(MessageType) /\ m \in Nat /\ m > 0 /\ g \in MessageType /\ w \in Seq(Units)
  <2>1. l \in Nat /\ l > 0 /\ kind \in Nat
    BY ChunksAssumption
  <2> QED BY <2>1, <1>0 DEF DownInv, MessageType
<1>7. /\ chunksDown' = w \o u /\ begun' = B2
      /\ sender' = [sender EXCEPT ![c] = [mlen |-> l, kind |-> kind, remaining |-> l - k,
                                          buf |-> <<Piece(m)>>, ext |-> e]]
      /\ sendSize' = IF sender'[c].remaining = 0 /\ sender'[c].kind # 0 THEN sender'[c].kind ELSE q.size
  <2>1. /\ (IF f \in {0, 1} THEN l ELSE sender[c].mlen) = l
        /\ (IF f \in {0, 1} THEN kind ELSE sender[c].kind) = kind
        /\ (IF f = 3 THEN sender[c].ext ELSE e) = e
        /\ Least(l, sendSize) = k
        /\ (IF (e /\ f # 3) \/ FALSE THEN <<Ext>> ELSE <<>>) = stamp
    <3>2. f \notin {0, 1} => f \in {2, 3}
      OBVIOUS
    <3>3. (IF (e /\ f # 3) \/ FALSE THEN <<Ext>> ELSE <<>>) = stamp
      OBVIOUS
    <3>4. Least(l, sendSize) = k
      BY <1>2
    <3> HIDE DEF k, stamp, s
    <3> QED BY <3>2, <3>3, <3>4, <1>4, <1>5
  <2>2. begun' = B2
    BY <2>1, <1>0 DEF ServerBegins
  <2>3. Len(begun') = m
    <3> HIDE DEF g
    <3> QED BY <2>2, <1>6, OneMore
  <2>4. chunksDown' = w \o u
    BY <2>1, <1>0 DEF ServerBegins
  <2>5. sender' = [sender EXCEPT ![c] = [mlen |-> l, kind |-> kind, remaining |-> l - k,
                                         buf |-> <<Piece(m)>>, ext |-> e]]
    BY <2>1, <2>3 DEF ServerBegins
  <2>6. sendSize' = Announces(sender'[c])
    BY DEF ServerBegins
  <2> QED BY <2>2, <2>4, <2>5, <2>6, <1>2 DEF Announces
<1>8. k \in Nat /\ Todo(s, ch) = l /\ ch.n = k /\ ch.csid = c
  BY <1>3, <1>5, <1>6 DEF Least, Todo
<1>9. ch \in ChunkType
  BY <1>6, <1>8 DEF ChunkType
<1>10. ch.fmt = f /\ ch.len = l /\ ch.kind = kind /\ ch.ext = e /\ ch.stamp = st /\ ch.msg = m
  OBVIOUS
<1> HIDE DEF ch
<1>11. /\ t \in StateType /\ t.mlen = l /\ t.msg = m /\ t.kind = kind /\ t.ext = e /\ t.remaining = l - k
  <2>1. s.remaining > 0 => ch.len = s.mlen
    BY <1>5
  <2>2. ch.n = Least(Todo(s, ch), q.size)
    BY <1>8
  <2> HIDE DEF s, k, m
  <2>3. /\ Reached(s, ch) \in StateType
         /\ Reached(s, ch).mlen = ch.len /\ Reached(s, ch).msg = ch.msg /\ Reached(s, ch).kind = ch.kind
         /\ Reached(s, ch).remaining = Todo(s, ch) - ch.n /\ Reached(s, ch).ext = ch.ext
    BY <2>1, <2>2, <1>3, <1>9, Reaches
  <2> QED BY <2>3, <1>8, <1>10
<1>12. r \in Places(CSIDs) /\ r.states[c] = t /\ \A x \in CSIDs : x # c => r.states[x] = q.states[x]
  <2>1. s = q.states[ch.csid] /\ (s.remaining > 0 => ch.len = s.mlen) /\ ch.n = Least(Todo(s, ch), q.size)
    BY <1>5, <1>8
  <2> DEFINE n == 0
  <2>2. r = After(q, ch, Sizes, n) /\ n \in Nat /\ ch.csid \in CSIDs /\ q \in Places(CSIDs)
    BY <1>2, <1>8
  <2> HIDE DEF s, k, r, n
  <2>3. /\ r \in Places(CSIDs) /\ r.states[ch.csid] = Reached(s, ch)
        /\ \A x \in CSIDs : x # ch.csid => r.states[x] = q.states[x]
    <3>1. /\ q.states[ch.csid].remaining > 0 => ch.len = q.states[ch.csid].mlen
          /\ ch.n = Least(Todo(q.states[ch.csid], ch), q.size) /\ ChunkSizes(Sizes)
      BY <2>1, SizesAssumed
    <3>2. /\ After(q, ch, Sizes, n) \in Places(CSIDs)
          /\ After(q, ch, Sizes, n).states[ch.csid] = Reached(q.states[ch.csid], ch)
          /\ \A x \in CSIDs : x # ch.csid => After(q, ch, Sizes, n).states[x] = q.states[x]
      BY <2>2, <3>1, <1>9, Moves
    <3> QED BY <2>1, <2>2, <3>2
  <2> QED BY <2>3, <1>8
<1>13. r.size = (IF t.remaining = 0 /\ kind \in Sizes THEN kind ELSE q.size)
       /\ r.states = [q.states EXCEPT ![c] = t]
  BY <1>8, <1>10 DEF After
<1>14. DOMAIN B = 1..Len(B) /\ DOMAIN B2 = 1..m /\ Len(B) \in Nat /\ B2[m] = g /\ B2 \in Seq(MessageType)
       /\ \A i \in 1..Len(B) : B2[i] = B[i]
  <2> HIDE DEF g
  <2> QED BY <1>6, OneMore
<1>15. \A x \in 1..Len(B) : B2[x].csid \in CSIDs /\ x <= q.states[B2[x].csid].msg
  <2>1. \A x \in 1..Len(B) : B[x] \in MessageType
    BY <1>6
  <2> HIDE DEF B2
  <2> QED BY <2>1, <1>2, <1>14 DEF Latest, MessageType
<1>16. DownMove(q, ch, r, B2)
  <2>1. Turns(q, ch, r, FALSE, Sizes)
    <3>1. (ch.fmt \in {2, 3} => ch.len = s.mlen /\ ch.kind = s.kind) /\ (ch.fmt = 3 => ch.ext = s.ext)
          /\ (ch.fmt # 0 => s.mlen > 0) /\ ~(s.remaining > 0)
      BY <1>3, <1>5, <1>10
    <3>2. ch.stamp = (ch.ext /\ (ch.fmt # 3 \/ FALSE))
      BY <1>10
    <3>3. ch.n = Least(Todo(s, ch), q.size)
      BY <1>8
    <3>4. q.states[ch.csid] = s /\ r.states = [q.states EXCEPT ![ch.csid] = t]
          /\ r.size = IF t.remaining = 0 /\ ch.kind \in Sizes THEN ch.kind ELSE q.size
      BY <1>8, <1>10, <1>13
    <3> HIDE DEF s, k, r
    <3> QED BY <3>1, <3>2, <3>3, <3>4 DEF Turns
  <2>2. ch.csid \in CSIDs /\ ch.kind \in Sizes \cup {0}
    BY <1>8, <1>10
  <2>3. ch.msg \in DOMAIN B2 /\ B2[ch.msg] = [csid |-> ch.csid, len |-> ch.len]
    BY <1>6, <1>8, <1>10, <1>14
  <2>4. \A x \in 1..(ch.msg - 1) : B2[x].csid = ch.csid => x <= q.states[ch.csid].msg
    <3>1. ch.msg - 1 = Len(B)
      BY <1>6, <1>10
    <3> HIDE DEF B2
    <3> QED BY <3>1, <1>15
  <2> HIDE DEF r, B2
  <2> QED BY <2>1, <2>2, <2>3, <2>4 DEF DownMove
<1>17. u \in Seq(Units) /\ Len(u) = Width(ch) /\ Laid(u, 0, ch)
  <2>1. h \in Units /\ h.t = "header" /\ h.fmt = f /\ h.csid = c /\ h.len = l /\ h.kind = kind /\ h.ext = e
    <3>1. c \in CSIDs \cup OwnCSIDs
      OBVIOUS
    <3>2. h = ChunkHeader(f, c, l, kind, e) /\ l \in Nat /\ kind \in Nat /\ f \in 0..3 /\ e \in BOOLEAN
      BY <1>6
    <3> HIDE DEF h
    <3> QED BY <3>1, <3>2, Headers
  <2>2. u = <<h>> \o stamp \o Pieces(ch.msg, ch.n)
    BY <1>8, <1>10
  <2>3. stamp = IF ch.stamp THEN <<Ext>> ELSE <<>>
    BY <1>10
  <2> HIDE DEF h, u, stamp
  <2> QED BY <2>1, <2>2, <2>3, <1>8, <1>9, <1>10, Lays
<1> HIDE DEF u, r, t, s, k, m, B2
<1>18. w \o u \in Seq(Units) /\ Leads(w \o u, DownMoves(B2), p, r)
  <2>1. DownMoves(B) \subseteq DownMoves(B2)
    <3> HIDE DEF g
    <3> QED BY <1>6, MoreMoves DEF B2
  <2> QED BY <2>1, <1>2, <1>6, <1>9, <1>12, <1>16, <1>17, DownGrows
<1>19. sender' = [x \in CSIDs |-> Sends(r.states[x])]
  <2>1. Sends(t) = [mlen |-> l, kind |-> kind, remaining |-> l - k, buf |-> <<Piece(m)>>, ext |-> e]
    BY <1>6, <1>11 DEF Sends
  <2>2. sender' = [sender EXCEPT ![c] = Sends(t)]
    BY <1>7, <2>1
  <2> QED BY <2>2, <1>2, <1>12
<1>20. sendSize' = r.size
  <2>1. sender'[c].remaining = t.remaining /\ sender'[c].kind = kind
    BY <1>11, <1>12, <1>19 DEF Sends
  <2> QED BY <2>1, <1>7, <1>13, SizesAssumed
<1>21. /\ Known(p, B2) /\ Settled(p, B2, delivered) /\ IntactOf(delivered, B2) /\ Known(q, B2)
  <2>1. B2 = Append(B, g) /\ IntactOf(delivered, B)
    BY <1>0 DEF B2, DownInv
  <2> HIDE DEF g
  <2> QED BY <2>1, <1>2, <1>6, StillKnown
<1>22. Known(r, B2)
  <2>1. t.kind \in Sizes \cup {0} /\ t.mlen # 0 /\ t.msg \in DOMAIN B2 /\ B2[t.msg] = [csid |-> c, len |-> t.mlen]
    BY <1>6, <1>11, <1>14
  <2> QED BY <2>1, <1>12, <1>21 DEF Known
<1>23. Latest(r, B2)
  <2> SUFFICES ASSUME NEW x \in DOMAIN B2 PROVE x <= r.states[B2[x].csid].msg
    BY DEF Latest
  <2>1. CASE x = m
    BY <2>1, <1>11, <1>12, <1>14, <1>6
  <2>2. CASE x # m
    <3>1. x \in 1..Len(B) /\ x <= m
      BY <2>2, <1>14, <1>6 DEF m
    <3>2. B2[x].csid \in CSIDs /\ x <= q.states[B2[x].csid].msg
      BY <3>1, <1>15
    <3> QED BY <3>1, <3>2, <1>11, <1>12
  <2> QED BY <2>1, <2>2
<1> QED
  <2>1. csidState' = csidState /\ inChunk' = inChunk /\ delivered' = delivered
        /\ csidState = [x \in CSIDs |-> Has(p.states[x])] /\ inChunk = p.size
    BY <1>1 DEF DownAt
  <2> HIDE DEF u, g
  <2>2. DownAt(p, r)'
    BY <2>1, <1>2, <1>7, <1>12, <1>18, <1>19, <1>20, <1>21, <1>22, <1>23 DEF DownAt
  <2>3. delivered \in Seq([msgs : SUBSET Nat, len : Nat])
    BY DEF DownInv
  <2> QED BY <2>1, <2>2, <2>3, <1>7, <1>14, <1>18, <1>21 DEF DownInv

\* Of a message that has come to its end all pieces are there, and no other.
LEMMA PutTogether ==
  ASSUME NEW t \in StateType, t.remaining = 0, t.mlen > 0
  PROVE  Assembled(Has(t)) = [msgs |-> {t.msg}, len |-> t.mlen]
<1> DEFINE u == Pieces(t.msg, t.mlen)
<1>1. t.mlen \in Nat /\ t.msg \in Nat /\ t.mlen - t.remaining = t.mlen
  BY DEF StateType
<1>2. Has(t).buf = u
  BY <1>1 DEF Has
<1>3. Len(u) = t.mlen /\ DOMAIN u = 1..t.mlen /\ \A i \in 1..t.mlen : u[i] = Piece(t.msg)
  BY <1>1 DEF Pieces
<1>4. Piece(t.msg).msg = t.msg
  BY DEF Piece, Unit
<1>5. 1 \in 1..t.mlen
  BY <1>1
<1> HIDE DEF u
<1>6. {u[i].msg : i \in DOMAIN u} = {t.msg}
  BY <1>3, <1>4, <1>5
<1> QED BY <1>2, <1>3, <1>6 DEF Assembled

\* What may have been put together.
Messages == [msgs : SUBSET Nat, len : Nat]

\* What has been put together once a chunk stream is where t says.
Together(D, t) == IF t.remaining = 0 THEN Append(D, Assembled(Has(t))) ELSE D

\* A chunk taken for what it is leaves all that has been put together as it should be.
LEMMA TakesOne ==
  ASSUME NEW B \in Seq(MessageType), NEW D \in Seq(Messages), NEW p \in Places(CSIDs), NEW q \in Places(CSIDs),
         NEW ch \in ChunkType, DownMove(p, ch, q, B), Known(p, B), Settled(p, B, D), IntactOf(D, B),
         NEW t, t = q.states[ch.csid],
         NEW D2, D2 = Together(D, t)
  PROVE  /\ Known(q, B) /\ Settled(q, B, D2) /\ IntactOf(D2, B) /\ D2 \in Seq(Messages)
         /\ NewSize(Has(t), p.size) = q.size
         /\ \A x \in CSIDs : x # ch.csid => q.states[x] = p.states[x]
<1> DEFINE c == ch.csid
           s == p.states[c]
           d == [msgs |-> {ch.msg}, len |-> ch.len]
<1>1. /\ s \in StateType /\ s.mlen \in Nat /\ s.remaining \in Nat /\ s.msg \in Nat /\ s.remaining <= s.mlen
      /\ c \in CSIDs /\ ch.len \in Nat /\ ch.len > 0 /\ ch.msg \in Nat /\ t \in StateType
      /\ p.states \in [CSIDs -> StateType]
  <2>1. c \in CSIDs
    BY DEF DownMove
  <2>2. p.states \in [CSIDs -> StateType] /\ q.states \in [CSIDs -> StateType]
    BY DEF Places
  <2>3. s \in StateType /\ t \in StateType
    BY <2>1, <2>2
  <2> HIDE DEF s, c
  <2>4. s.mlen \in Nat /\ s.remaining \in Nat /\ s.msg \in Nat /\ s.remaining <= s.mlen
    BY <2>3 DEF StateType
  <2>5. ch.len \in Nat /\ ch.len > 0 /\ ch.msg \in Nat
    BY DEF ChunkType
  <2> QED BY <2>1, <2>2, <2>3, <2>4, <2>5
<1>2. /\ q.states = [p.states EXCEPT ![c] = Reached(s, ch)]
      /\ q.size = IF Reached(s, ch).remaining = 0 /\ ch.kind \in Sizes THEN ch.kind ELSE p.size
      /\ s.remaining > 0 => ch.fmt = 3 /\ ch.msg = s.msg
      /\ ch.fmt \in {2, 3} => ch.len = s.mlen /\ ch.kind = s.kind
  BY DEF DownMove, Turns
<1>3. t = Reached(s, ch) /\ \A x \in CSIDs : x # c => q.states[x] = p.states[x]
  BY <1>1, <1>2
<1>4. t.mlen = ch.len /\ t.msg = ch.msg /\ t.kind = ch.kind
  BY <1>3 DEF Reached
<1>5. ch.msg \in DOMAIN B /\ B[ch.msg] = [csid |-> c, len |-> ch.len]
  <2>1. CASE s.remaining = 0
    BY <2>1 DEF DownMove
  <2>2. CASE s.remaining # 0
    <3>1. s.remaining > 0 /\ s.mlen # 0
      BY <2>2, <1>1
    <3>2. ch.msg = s.msg /\ ch.len = s.mlen
      BY <3>1, <1>2
    <3>3. s.msg \in DOMAIN B /\ B[s.msg] = [csid |-> c, len |-> s.mlen]
      BY <3>1, <1>1 DEF Known
    <3> QED BY <3>2, <3>3
  <2> QED BY <2>1, <2>2
<1>6. DOMAIN B = 1..Len(B) /\ Len(B) \in Nat /\ \A m \in 1..Len(B) : B[m] \in MessageType
  OBVIOUS
<1>7. \A m \in DOMAIN B : B[m].csid = c /\ m < ch.msg => \E j \in DOMAIN D : D[j].msgs = {m}
  <2> SUFFICES ASSUME NEW m \in DOMAIN B, B[m].csid = c, m < ch.msg PROVE \E j \in DOMAIN D : D[j].msgs = {m}
    OBVIOUS
  <2>1. m < s.msg \/ (m = s.msg /\ s.remaining = 0)
    <3>1. CASE s.remaining = 0
      <4>1. m \in 1..(ch.msg - 1)
        BY <1>1, <1>6
      <4>2. m <= s.msg
        BY <3>1, <4>1 DEF DownMove
      <4> QED BY <3>1, <4>2, <1>1, <1>6
    <3>2. CASE s.remaining # 0
      BY <3>2, <1>1, <1>2, SMTT(40)
    <3> QED BY <3>1, <3>2
  <2> QED BY <2>1 DEF Settled
<1>15. DOMAIN D = 1..Len(D) /\ Len(D) \in Nat
  OBVIOUS
<1>8. /\ t.remaining = 0 => /\ D2 = Append(D, d) /\ D2 \in Seq(Messages) /\ DOMAIN D2 = 1..(Len(D) + 1)
                            /\ D2[Len(D) + 1] = d /\ \A j \in 1..Len(D) : D2[j] = D[j]
      /\ t.remaining # 0 => D2 = D
  <2>1. t.remaining = 0 => D2 = Append(D, d)
    BY <1>1, <1>4, PutTogether DEF Together
  <2>4. t.remaining # 0 => D2 = D
    BY DEF Together
  <2>2. d \in Messages
    BY <1>1 DEF Messages
  <2> HIDE DEF d
  <2>3. /\ Append(D, d) \in Seq(Messages) /\ DOMAIN Append(D, d) = 1..(Len(D) + 1)
        /\ Append(D, d)[Len(D) + 1] = d /\ \A j \in 1..Len(D) : Append(D, d)[j] = D[j]
    BY <2>2
  <2>5. CASE t.remaining = 0
    <3>1. D2 = Append(D, d)
      BY <2>1, <2>5
    <3> QED BY <2>3, <2>5, <3>1
  <2>6. CASE t.remaining # 0
    BY <2>4, <2>6
  <2> QED BY <2>5, <2>6
<1>9. \A j \in DOMAIN D : j \in DOMAIN D2 /\ D2[j] = D[j]
  <2> HIDE DEF d
  <2>1. CASE t.remaining = 0
    BY <2>1, <1>8, <1>15
  <2>2. CASE t.remaining # 0
    BY <2>2, <1>8
  <2> QED BY <2>1, <2>2
<1> HIDE DEF s, c
<1>10. Known(q, B)
  <2> SUFFICES ASSUME NEW x \in CSIDs
               PROVE  /\ q.states[x].kind \in Sizes \cup {0}
                      /\ IF q.states[x].mlen = 0 THEN q.states[x].msg = 0
                         ELSE q.states[x].msg \in DOMAIN B /\ B[q.states[x].msg] = [csid |-> x, len |-> q.states[x].mlen]
    BY DEF Known
  <2>1. CASE x = c
    <3>1. ch.kind \in Sizes \cup {0} /\ q.states[x] = t
      BY <2>1 DEF DownMove, c
    <3> QED BY <2>1, <3>1, <1>1, <1>4, <1>5
  <2>2. CASE x # c
    BY <2>2, <1>3 DEF Known
  <2> QED BY <2>1, <2>2
<1>11. Settled(q, B, D2)
  <2> SUFFICES ASSUME NEW m \in DOMAIN B,
                      m < q.states[B[m].csid].msg
                        \/ (m = q.states[B[m].csid].msg /\ q.states[B[m].csid].remaining = 0)
               PROVE  \E j \in DOMAIN D2 : D2[j].msgs = {m}
    BY DEF Settled
  <2>1. CASE B[m].csid = c
    <3>1. m < ch.msg \/ (m = ch.msg /\ t.remaining = 0)
      BY <2>1, <1>4 DEF c
    <3>2. CASE m < ch.msg
      BY <2>1, <3>2, <1>7, <1>9
    <3>3. CASE m = ch.msg /\ t.remaining = 0
      <4>1. d.msgs = {m}
        BY <3>3
      <4> HIDE DEF d
      <4>2. Len(D) + 1 \in 1..(Len(D) + 1)
        BY <1>15
      <4>3. Len(D) + 1 \in DOMAIN D2 /\ D2[Len(D) + 1] = d
        BY <3>3, <4>2, <1>8
      <4> QED BY <4>1, <4>3
    <3> QED BY <3>1, <3>2, <3>3
  <2>2. CASE B[m].csid # c
    <3>1. B[m].csid \in CSIDs
      BY <1>6 DEF MessageType
    <3>2. q.states[B[m].csid] = p.states[B[m].csid]
      BY <2>2, <3>1, <1>3
    <3>3. \E j \in DOMAIN D : D[j].msgs = {m}
      BY <3>2 DEF Settled
    <3> QED BY <3>3, <1>9
  <2> QED BY <2>1, <2>2
<1>12. IntactOf(D2, B)
  <2>1. CASE t.remaining # 0
    BY <2>1, <1>8
  <2>2. CASE t.remaining = 0
    <3> SUFFICES ASSUME NEW i \in DOMAIN D2
                 PROVE  \E m \in DOMAIN B :
                          /\ D2[i] = [msgs |-> {m}, len |-> B[m].len]
                          /\ \A k \in 1..(m - 1) : B[k].csid = B[m].csid => \E j \in 1..(i - 1) : D2[j].msgs = {k}
      BY DEF IntactOf
    <3>1. CASE i \in DOMAIN D
      <4>1. PICK m \in DOMAIN B :
              /\ D[i] = [msgs |-> {m}, len |-> B[m].len]
              /\ \A k \in 1..(m - 1) : B[k].csid = B[m].csid => \E j \in 1..(i - 1) : D[j].msgs = {k}
        BY <3>1 DEF IntactOf
      <4>2. \A j \in 1..(i - 1) : D2[j] = D[j]
        <5>1. \A j \in 1..(i - 1) : j \in DOMAIN D
          BY <3>1, <1>15
        <5> QED BY <5>1, <1>9
      <4>3. \A k \in 1..(m - 1) : B[k].csid = B[m].csid => \E j \in 1..(i - 1) : D2[j].msgs = {k}
        BY <4>1, <4>2
      <4>4. D2[i] = [msgs |-> {m}, len |-> B[m].len]
        BY <3>1, <4>1, <1>9
      <4> QED BY <4>3, <4>4
    <3>2. CASE i = Len(D) + 1
      <4>1. D2[i] = [msgs |-> {ch.msg}, len |-> B[ch.msg].len] /\ B[ch.msg].csid = c
        BY <2>2, <3>2, <1>5, <1>8, <1>15
      <4>2. \A k \in 1..(ch.msg - 1) : k \in DOMAIN B /\ k < ch.msg
        BY <1>1, <1>5, <1>6
      <4>3. i - 1 = Len(D)
        BY <3>2, <1>15
      <4>4. \A k \in 1..(ch.msg - 1) : B[k].csid = B[ch.msg].csid => \E j \in 1..(i - 1) : D2[j].msgs = {k}
        BY <4>1, <4>2, <4>3, <1>7, <1>9, <1>15
      <4> QED BY <4>1, <4>4, <1>5
    <3>3. i \in DOMAIN D \/ i = Len(D) + 1
      <4>1. DOMAIN D2 = 1..(Len(D) + 1)
        BY <2>2, <1>8
      <4> QED BY <4>1, <1>15
    <3> QED BY <3>1, <3>2, <3>3
  <2> QED BY <2>1, <2>2
<1>13. NewSize(Has(t), p.size) = q.size
  <2>1. Has(t).remaining = t.remaining /\ Has(t).kind = ch.kind
    BY <1>4 DEF Has
  <2> QED BY <2>1, <1>2, <1>3 DEF NewSize
<1>14. D2 \in Seq(Messages)
  <2>1. CASE t.remaining = 0
    BY <2>1, <1>8
  <2>2. CASE t.remaining # 0
    BY <2>2, <1>8
  <2> QED BY <2>1, <2>2
<1> QED BY <1>3, <1>10, <1>11, <1>12, <1>13, <1>14 DEF c

\* The program takes one chunk, and nothing but that chunk.
LEMMA DownReads ==
  ASSUME DownInv, ReadMessage
  PROVE  ~garbled' /\ DownInv'
<1>1. PICK p, q : DownAt(p, q)
  BY DEF DownInv
<1>0. PICK w, B, D : w = chunksDown /\ B = begun /\ D = delivered
  OBVIOUS
<1>2. /\ p \in Places(CSIDs) /\ q \in Places(CSIDs) /\ Leads(w, DownMoves(B), p, q)
      /\ csidState = [x \in CSIDs |-> Has(p.states[x])] /\ inChunk = p.size
      /\ Known(p, B) /\ Known(q, B) /\ Latest(q, B) /\ Settled(p, B, D)
  BY <1>0, <1>1 DEF DownAt
<1>3. w \in Seq(Units) /\ w # <<>> /\ B \in Seq(MessageType) /\ D \in Seq(Messages) /\ IntactOf(D, B)
  BY <1>0 DEF DownInv, ReadMessage, Messages
<1>4. PICK ch \in ChunkType : \E r :
        /\ <<p, ch, r>> \in DownMoves(B) /\ Laid(w, 0, ch)
        /\ Leads(SubSeq(w, Width(ch) + 1, Len(w)), DownMoves(B), r, q)
  BY <1>2, <1>3, FirstChunk
<1>5. PICK r : /\ <<p, ch, r>> \in DownMoves(B) /\ Laid(w, 0, ch)
               /\ Leads(SubSeq(w, Width(ch) + 1, Len(w)), DownMoves(B), r, q)
  BY <1>4
<1>6. r \in Places(CSIDs) /\ DownMove(p, ch, r, B)
  BY <1>5 DEF DownMoves
<1>7. ch.csid \in CSIDs /\ Turns(p, ch, r, FALSE, Sizes)
  BY <1>6 DEF DownMove
<1> DEFINE c == ch.csid
           t == r.states[ch.csid]
           g == Chunk(w, csidState, inChunk, FALSE)
           D2 == Together(D, t)
<1>8. /\ Head(w).t = "header" /\ Head(w).csid = c
      /\ g.whole = TRUE /\ g.sound = TRUE /\ g.used = Width(ch) /\ g.state = Has(t)
  <2> DEFINE e == FALSE
  <2>1. csidState[ch.csid] = Has(p.states[ch.csid]) /\ inChunk = p.size /\ e \in BOOLEAN /\ Turns(p, ch, r, e, Sizes)
        /\ g = Chunk(w, csidState, p.size, e)
    BY <1>2, <1>7
  <2> HIDE DEF e, g
  <2>2. /\ Head(w).t = "header" /\ Head(w).csid = ch.csid
        /\ Took(Chunk(w, csidState, p.size, e), ch, r.states[ch.csid])
    <3>1. p \in Places(CSIDs) /\ r \in Places(CSIDs) /\ w \in Seq(Units) /\ Laid(w, 0, ch) /\ ch.csid \in CSIDs
      BY <1>2, <1>3, <1>5, <1>6, <1>7
    <3> HIDE DEF t, c, D2
    <3> QED BY <2>1, <3>1, Reads
  <2> QED BY <2>1, <2>2 DEF Took
<1>9. /\ garbled' = ~g.sound
      /\ chunksDown' = SubSeq(w, g.used + 1, Len(w))
      /\ csidState' = [csidState EXCEPT ![Head(w).csid] = g.state]
      /\ inChunk' = NewSize(g.state, inChunk)
      /\ delivered' = IF g.state.remaining = 0 THEN Append(D, Assembled(g.state)) ELSE D
      /\ begun' = B /\ sender' = sender /\ sendSize' = sendSize
  BY <1>0, <1>8 DEF ReadMessage, serverVars
<1> HIDE DEF g
<1>10. ~garbled'
  BY <1>8, <1>9
<1>11. Has(t).remaining = t.remaining
  BY DEF Has
<1>12. delivered' = D2
  BY <1>8, <1>9, <1>11 DEF Together
<1> HIDE DEF D2, t
<1>13. /\ Known(r, B) /\ Settled(r, B, D2) /\ IntactOf(D2, B) /\ D2 \in Seq(Messages)
       /\ NewSize(Has(t), p.size) = r.size
       /\ \A x \in CSIDs : x # ch.csid => r.states[x] = p.states[x]
  <2>1. t = r.states[ch.csid] /\ D2 = Together(D, t)
    BY DEF t, D2
  <2> QED BY <2>1, <1>2, <1>3, <1>6, TakesOne
<1>14. csidState' = [x \in CSIDs |-> Has(r.states[x])]
  <2>1. csidState' = [csidState EXCEPT ![c] = Has(t)]
    BY <1>8, <1>9
  <2>2. \A x \in CSIDs : (x = c => r.states[x] = t) /\ (x # c => r.states[x] = p.states[x])
    BY <1>13 DEF t
  <2> HIDE DEF c
  <2> QED BY <2>1, <2>2, <1>2
<1>15. inChunk' = r.size
  BY <1>2, <1>8, <1>9, <1>13
<1>16. chunksDown' = SubSeq(w, Width(ch) + 1, Len(w)) /\ chunksDown' \in Seq(Units)
  <2>1. chunksDown' = SubSeq(w, Width(ch) + 1, Len(w))
    BY <1>8, <1>9
  <2>2. Width(ch) \in Nat
    BY Widths
  <2> QED BY <2>1, <2>2, <1>3
<1>17. DownAt(r, q)'
  <2>1. sender' = [x \in CSIDs |-> Sends(q.states[x])] /\ sendSize' = q.size
    BY <1>1, <1>9 DEF DownAt
  <2> QED BY <2>1, <1>2, <1>5, <1>6, <1>9, <1>12, <1>13, <1>14, <1>15, <1>16 DEF DownAt
<1> QED BY <1>3, <1>9, <1>10, <1>12, <1>13, <1>16, <1>17 DEF DownInv, Messages

----------------------------------------------------------------------------
(* From the program to the server.                                         *)

\* A chunk of the program, the messages that are no acknowledgements being W: the last chunk of
\* such a message is that of the next of W.
UpMove(p, ch, q, W) ==
  /\ ch.csid \in OwnCSIDs /\ ch.kind \in {0, OutChunk, AckKind}
  /\ Turns(p, ch, q, TRUE, {OutChunk})
  /\ IF q.states[ch.csid].remaining = 0 /\ ch.kind # AckKind
     THEN ch.msg = p.count + 1 /\ ch.msg \in DOMAIN W /\ ch.len = W[ch.msg] /\ q.count = ch.msg
     ELSE q.count = p.count
UpMoves(W) ==
  {m \in Places(OwnCSIDs) \X ChunkType \X Places(OwnCSIDs) : UpMove(m[1], m[2], m[3], W)}

\* The units of a chunk lay it out.
LEMMA LaysWhole ==
  ASSUME NEW ch \in ChunkType,
         NEW u, u = <<ChunkHeader(ch.fmt, ch.csid, ch.len, ch.kind, ch.ext)>>
                      \o (IF ch.stamp THEN <<Ext>> ELSE <<>>) \o Pieces(ch.msg, ch.n)
  PROVE  u \in Seq(Units) /\ Len(u) = Width(ch) /\ Laid(u, 0, ch)
<1> DEFINE h == ChunkHeader(ch.fmt, ch.csid, ch.len, ch.kind, ch.ext)
           stamp == IF ch.stamp THEN <<Ext>> ELSE <<>>
<1>1. /\ ch.fmt \in 0..3 /\ ch.csid \in CSIDs \cup OwnCSIDs /\ ch.len \in Nat /\ ch.kind \in Nat
      /\ ch.ext \in BOOLEAN
  BY DEF ChunkType
<1>2. h \in Units /\ h.t = "header" /\ h.fmt = ch.fmt /\ h.csid = ch.csid
      /\ h.len = ch.len /\ h.kind = ch.kind /\ h.ext = ch.ext
  <2> DEFINE f == ch.fmt
             c == ch.csid
             l == ch.len
             k == ch.kind
             e == ch.ext
  <2>1. h = ChunkHeader(f, c, l, k, e) /\ f \in 0..3 /\ c \in CSIDs \cup OwnCSIDs /\ l \in Nat /\ k \in Nat
        /\ e \in BOOLEAN
    BY <1>1
  <2> HIDE DEF f, c, l, k, e, h
  <2>2. h \in Units /\ h.t = "header" /\ h.fmt = f /\ h.csid = c /\ h.len = l /\ h.kind = k /\ h.ext = e
    BY <2>1, Headers, SMTT(40)
  <2> QED BY <2>2 DEF f, c, l, k, e
<1>3. u = <<h>> \o stamp \o Pieces(ch.msg, ch.n) /\ stamp = IF ch.stamp THEN <<Ext>> ELSE <<>>
  OBVIOUS
<1> HIDE DEF h, stamp
<1> QED BY <1>2, <1>3, Lays

\* The units of one chunk of a message, k pieces of it.
PartUnits(c, kind, m, len, ext, f, k) ==
  <<ChunkHeader(f, c, len, kind, ext)>> \o (IF ext THEN <<Ext>> ELSE <<>>) \o Pieces(m, k)

\* The place r is where one chunk of a message leads from q, there being so much of it left before
\* and after.
Parting(W, q, r, c, kind, m, len, ext, f, before, after) ==
  /\ before > 0 /\ after = before - Least(before, q.size)
  /\ IF f = 0 THEN q.states[c].remaining = 0 /\ before = len
     ELSE q.states[c] = [mlen |-> len, kind |-> kind, remaining |-> before, ext |-> ext, msg |-> m]
  /\ r.states = [q.states EXCEPT ![c] =
                   [mlen |-> len, kind |-> kind, remaining |-> after, ext |-> ext, msg |-> m]]
  /\ r.size = IF after = 0 /\ kind = OutChunk THEN kind ELSE q.size
  /\ IF after = 0 /\ kind # AckKind THEN m = q.count + 1 /\ m \in DOMAIN W /\ len = W[m] /\ r.count = m
     ELSE r.count = q.count

\* One chunk of a message of the program is a move.
LEMMA PartCarried ==
  ASSUME NEW W, NEW q, NEW r, NEW c, NEW kind, NEW m, NEW len, NEW ext, NEW f, NEW before, NEW after,
         Parting(W, q, r, c, kind, m, len, ext, f, before, after),
         q \in Places(OwnCSIDs), r \in Places(OwnCSIDs), c \in OwnCSIDs, kind \in {0, OutChunk, AckKind},
         m \in Nat, len \in Nat, len > 0, ext \in BOOLEAN, f \in {0, 3}, before \in Nat, after \in Nat,
         NEW k, k = Least(before, q.size)
  PROVE  /\ PartUnits(c, kind, m, len, ext, f, k) \in Seq(Units)
         /\ Leads(PartUnits(c, kind, m, len, ext, f, k), UpMoves(W), q, r)
<1> DEFINE u == PartUnits(c, kind, m, len, ext, f, k)
           s == q.states[c]
           ch == [csid |-> c, fmt |-> f, len |-> len, kind |-> kind, ext |-> ext, stamp |-> ext, msg |-> m, n |-> k]
<1>0. /\ before > 0 /\ after = before - Least(before, q.size)
      /\ IF f = 0 THEN q.states[c].remaining = 0 /\ before = len
         ELSE q.states[c] = [mlen |-> len, kind |-> kind, remaining |-> before, ext |-> ext, msg |-> m]
      /\ r.states = [q.states EXCEPT ![c] =
                       [mlen |-> len, kind |-> kind, remaining |-> after, ext |-> ext, msg |-> m]]
      /\ r.size = IF after = 0 /\ kind = OutChunk THEN kind ELSE q.size
      /\ IF after = 0 /\ kind # AckKind THEN m = q.count + 1 /\ m \in DOMAIN W /\ len = W[m] /\ r.count = m
         ELSE r.count = q.count
  BY DEF Parting
<1>1. f \in 0..3 /\ kind \in Nat /\ (f # 0 => f = 3)
  BY DEF OutChunk, AckKind
<1>2. k \in Nat /\ s \in StateType /\ q.states \in [OwnCSIDs -> StateType]
  BY DEF Places, Least
<1>3. ch \in ChunkType
  BY <1>1, <1>2 DEF ChunkType
<1>4. /\ ch.csid = c /\ ch.fmt = f /\ ch.len = len /\ ch.kind = kind /\ ch.ext = ext /\ ch.stamp = ext
      /\ ch.msg = m /\ ch.n = k
  OBVIOUS
<1> HIDE DEF ch
<1>5. Todo(s, ch) = before
  <2>1. CASE f = 0
    BY <2>1, <1>0, <1>4 DEF Todo
  <2>2. CASE f # 0
    BY <2>2, <1>0, <1>4 DEF Todo
  <2> QED BY <2>1, <2>2
<1>6. Reached(s, ch) = [mlen |-> len, kind |-> kind, remaining |-> after, ext |-> ext, msg |-> m]
  BY <1>0, <1>4, <1>5 DEF Reached
<1>7. r.states[c].remaining = after
  BY <1>0, <1>2
<1>8. Turns(q, ch, r, TRUE, {OutChunk})
  <2>1. /\ s.remaining > 0 => ch.fmt = 3 /\ ch.msg = s.msg
        /\ ch.fmt # 0 => s.mlen > 0
        /\ ch.fmt \in {2, 3} => ch.len = s.mlen /\ ch.kind = s.kind
        /\ ch.fmt = 3 => ch.ext = s.ext
    <3>1. CASE f = 0
      BY <3>1, <1>0, <1>1, <1>4
    <3>2. CASE f # 0
      <4>1. s = [mlen |-> len, kind |-> kind, remaining |-> before, ext |-> ext, msg |-> m]
        BY <3>2, <1>0
      <4> HIDE DEF s
      <4> QED BY <3>2, <4>1, <1>1, <1>4
    <3> QED BY <3>1, <3>2
  <2>2. ch.n = Least(Todo(s, ch), q.size) /\ ch.stamp = (ch.ext /\ (ch.fmt # 3 \/ TRUE))
    BY <1>4, <1>5
  <2>3. r.states = [q.states EXCEPT ![ch.csid] = Reached(s, ch)]
    BY <1>0, <1>4, <1>6
  <2>4. r.size = IF Reached(s, ch).remaining = 0 /\ ch.kind \in {OutChunk} THEN ch.kind ELSE q.size
    BY <1>0, <1>4, <1>6
  <2>5. q.states[ch.csid] = s
    BY <1>4
  <2> HIDE DEF s
  <2> QED BY <2>1, <2>2, <2>3, <2>4, <2>5 DEF Turns
<1>9. UpMove(q, ch, r, W)
  BY <1>0, <1>4, <1>7, <1>8 DEF UpMove
<1>10. <<q, ch, r>> \in UpMoves(W)
  BY <1>3, <1>9 DEF UpMoves
<1>11. u \in Seq(Units) /\ Len(u) = Width(ch) /\ Laid(u, 0, ch)
  <2>1. u = <<ChunkHeader(ch.fmt, ch.csid, ch.len, ch.kind, ch.ext)>>
              \o (IF ch.stamp THEN <<Ext>> ELSE <<>>) \o Pieces(ch.msg, ch.n)
    BY <1>4 DEF PartUnits
  <2> QED BY <2>1, <1>3, LaysWhole
<1> HIDE DEF u
<1>12. u \in Seq(Units) /\ Leads(u, UpMoves(W), q, r)
  BY <1>10, <1>11, <1>3, OneChunk
<1> QED BY <1>12 DEF u

\* A message on chunk stream c leads from where the program is to where it has written one more.
Carried(u, W, q, c, kind, m) ==
  /\ u \in Seq(Units)
  /\ \E r \in Places(OwnCSIDs) :
       /\ Leads(u, UpMoves(W), q, r)
       /\ r.count = IF kind = AckKind THEN q.count ELSE m
       /\ r.states[c].remaining = 0 /\ \A x \in OwnCSIDs : x # c => r.states[x] = q.states[x]
       /\ r.size = IF kind = OutChunk THEN kind ELSE q.size

\* So much is left of a message after each of its n chunks.
Leaves(left, n, len, size) ==
  /\ left \in [0..n -> Nat] /\ left[0] = len /\ left[n] = 0 /\ \A i \in 0..n : left[i] <= len
  /\ \A i \in 1..n : left[i - 1] > 0 /\ left[i] = left[i - 1] - Least(left[i - 1], size)

\* The n chunks of a message.
Parts(us, n, left, c, kind, m, len, ext, size) ==
  /\ us \in Seq(Range(us)) /\ Len(us) = n
  /\ \A i \in 1..n : us[i] = PartUnits(c, kind, m, len, ext, IF i = 1 THEN 0 ELSE 3, Least(left[i - 1], size))

\* A message in n chunks, of which left[i] is to come after i of them.
LEMMA MessageCarried ==
  ASSUME NEW W, NEW q, NEW c, NEW kind, NEW m, NEW len, NEW ext, q \in Places(OwnCSIDs), c \in OwnCSIDs,
         q.states[c].remaining = 0, kind \in {0, OutChunk, AckKind}, m \in Nat, len \in Nat, len > 0, ext \in BOOLEAN,
         kind # AckKind => m = q.count + 1 /\ m \in DOMAIN W /\ len = W[m],
         NEW n, NEW left, NEW us, n \in Nat, n > 0, Leaves(left, n, len, q.size),
         Parts(us, n, left, c, kind, m, len, ext, q.size)
  PROVE  Carried(FlattenSeq(us), W, q, c, kind, m)
<1> DEFINE S(i) == [mlen |-> len, kind |-> kind, remaining |-> left[i], ext |-> ext, msg |-> m]
           z == IF kind = OutChunk THEN kind ELSE q.size
           e == IF kind = AckKind THEN q.count ELSE m
           P(i) == IF i = 0 THEN q
                   ELSE [states |-> [q.states EXCEPT ![c] = S(i)],
                         size |-> IF i = n THEN z ELSE q.size, count |-> IF i = n THEN e ELSE q.count]
<1>0. /\ left \in [0..n -> Nat] /\ left[0] = len /\ left[n] = 0
      /\ \A i \in 1..n : left[i - 1] > 0 /\ left[i] = left[i - 1] - Least(left[i - 1], q.size)
      /\ \A i \in 0..n : left[i] <= len
  BY DEF Leaves
<1>16. /\ us \in Seq(Range(us)) /\ Len(us) = n
       /\ \A i \in 1..n : us[i] = PartUnits(c, kind, m, len, ext, IF i = 1 THEN 0 ELSE 3, Least(left[i - 1], q.size))
  BY DEF Parts
<1>1. /\ q.states \in [OwnCSIDs -> StateType] /\ q.size \in Nat \ {0} /\ q.count \in Nat /\ kind \in Nat
      /\ z \in Nat \ {0} /\ e \in Nat
  BY DEF Places, OutChunk, AckKind
<1>2. \A i \in 0..n : S(i) \in StateType
  BY <1>0, <1>1 DEF StateType
<1>3. \A i \in 1..n : [q.states EXCEPT ![c] = S(i)] \in [OwnCSIDs -> StateType]
  <2> SUFFICES ASSUME NEW i \in 1..n PROVE [q.states EXCEPT ![c] = S(i)] \in [OwnCSIDs -> StateType]
    OBVIOUS
  <2>1. S(i) \in StateType
    BY <1>2
  <2> HIDE DEF S
  <2> QED BY <2>1, <1>1
<1>4. \A i \in 0..n : P(i) \in Places(OwnCSIDs)
  <2> SUFFICES ASSUME NEW i \in 0..n PROVE P(i) \in Places(OwnCSIDs)
    OBVIOUS
  <2>1. CASE i = 0
    BY <2>1
  <2>2. CASE i # 0
    <3>1. i \in 1..n
      BY <2>2
    <3> DEFINE v == [q.states EXCEPT ![c] = S(i)]
               y == IF i = n THEN z ELSE q.size
               k == IF i = n THEN e ELSE q.count
    <3>2. v \in [OwnCSIDs -> StateType] /\ y \in Nat \ {0} /\ k \in Nat
      BY <3>1, <1>1, <1>3
    <3>3. P(i) = [states |-> v, size |-> y, count |-> k]
      BY <2>2
    <3> HIDE DEF v, y, k, P
    <3> QED BY <3>2, <3>3 DEF Places
  <2> QED BY <2>1, <2>2
<1>5. \A i \in 1..n : us[i] \in Seq(Units) /\ Leads(us[i], UpMoves(W), P(i - 1), P(i))
  <2> SUFFICES ASSUME NEW i \in 1..n
               PROVE  us[i] \in Seq(Units) /\ Leads(us[i], UpMoves(W), P(i - 1), P(i))
    OBVIOUS
  <2> DEFINE a == P(i - 1)
             b == P(i)
             f == IF i = 1 THEN 0 ELSE 3
             before == left[i - 1]
             after == left[i]
             u == us[i]
  <2>1. a \in Places(OwnCSIDs) /\ b \in Places(OwnCSIDs)
    BY <1>4
  <2>2. before \in Nat /\ after \in Nat /\ before > 0 /\ f \in {0, 3} /\ (f = 0 <=> i = 1)
    BY <1>0
  <2>3. i - 1 # n /\ a.size = q.size /\ a.count = q.count /\ (i = 1 => a = q)
    OBVIOUS
  <2>4. after = before - Least(before, a.size)
    BY <1>0, <2>3
  <2>5. IF f = 0 THEN a.states[c].remaining = 0 /\ before = len
        ELSE a.states[c] = [mlen |-> len, kind |-> kind, remaining |-> before, ext |-> ext, msg |-> m]
    <3>1. CASE i = 1
      BY <3>1, <1>0
    <3>2. CASE i # 1
      BY <3>2, <1>1
    <3> QED BY <3>1, <3>2
  <2>6. b.states = [a.states EXCEPT ![c] =
                      [mlen |-> len, kind |-> kind, remaining |-> after, ext |-> ext, msg |-> m]]
    <3>1. b.states = [q.states EXCEPT ![c] = S(i)]
      OBVIOUS
    <3>2. CASE i = 1
      BY <3>1, <3>2
    <3>3. CASE i # 1
      <4>1. a.states = [q.states EXCEPT ![c] = S(i - 1)]
        BY <3>3
      <4> DEFINE x == S(i)
                 y == S(i - 1)
      <4>2. [[q.states EXCEPT ![c] = y] EXCEPT ![c] = x] = [q.states EXCEPT ![c] = x]
        <5> HIDE DEF x, y
        <5> QED BY <1>1
      <4> HIDE DEF a, b
      <4> QED BY <3>1, <4>1, <4>2
    <3> QED BY <3>2, <3>3
  <2>7. after = 0 <=> i = n
    <3>1. CASE i = n
      BY <3>1, <1>0
    <3>2. CASE i # n
      <4>1. i + 1 \in 1..n /\ (i + 1) - 1 = i
        BY <3>2
      <4>2. left[(i + 1) - 1] > 0
        BY <4>1, <1>0
      <4> QED BY <3>2, <4>1, <4>2
    <3> QED BY <3>1, <3>2
  <2>8. b.size = IF after = 0 /\ kind = OutChunk THEN kind ELSE a.size
    <3>1. b.size = IF i = n THEN z ELSE q.size
      OBVIOUS
    <3> HIDE DEF a, b, after
    <3> QED BY <3>1, <2>3, <2>7
  <2>9. IF after = 0 /\ kind # AckKind THEN m = a.count + 1 /\ m \in DOMAIN W /\ len = W[m] /\ b.count = m
        ELSE b.count = a.count
    <3>1. b.count = IF i = n THEN e ELSE q.count
      OBVIOUS
    <3> HIDE DEF a, b, after
    <3> QED BY <3>1, <2>3, <2>7
  <2>10. u = PartUnits(c, kind, m, len, ext, f, Least(before, a.size))
    BY <2>3, <1>16
  <2> HIDE DEF a, b, f, before, after, u
  <2>11. Parting(W, a, b, c, kind, m, len, ext, f, before, after)
    BY <2>2, <2>4, <2>5, <2>6, <2>8, <2>9 DEF Parting
  <2>12. u \in Seq(Units) /\ Leads(u, UpMoves(W), a, b)
    <3> DEFINE k == Least(before, a.size)
    <3>1. k = Least(before, a.size) /\ u = PartUnits(c, kind, m, len, ext, f, k)
      BY <2>10
    <3> HIDE DEF k
    <3>2. /\ PartUnits(c, kind, m, len, ext, f, k) \in Seq(Units)
          /\ Leads(PartUnits(c, kind, m, len, ext, f, k), UpMoves(W), a, b)
      BY <2>1, <2>2, <2>11, <3>1, PartCarried
    <3> QED BY <3>1, <3>2
  <2> QED BY <2>12 DEF u, a, b
<1>6. us \in Seq(Seq(Units))
  <2>1. \A i \in 1..n : us[i] \in Seq(Units)
    BY <1>5
  <2> DEFINE U == Seq(Units)
  <2> HIDE DEF U
  <2>2. us \in [1..n -> U]
    BY <2>1, <1>16 DEF U
  <2>3. us \in Seq(U)
    BY <2>2
  <2> QED BY <2>3 DEF U
<1>7. PICK f : /\ f[1] = us[1]
               /\ \A i \in 1..n : i # 1 => f[i] = f[i - 1] \o us[i]
               /\ FlattenSeq(us) = f[n]
  <2> DEFINE U == Seq(Units)
  <2> HIDE DEF U
  <2>1. us \in Seq(U)
    BY <1>6 DEF U
  <2>2. Len(us) = n
    BY <1>16
  <2> QED BY <2>1, <2>2, Flattened
<1> DEFINE T == {i \in Nat : i \in 1..n => f[i] \in Seq(Units) /\ Leads(f[i], UpMoves(W), q, P(i))}
<1>8. 0 \in T
  OBVIOUS
<1>9. \A i \in Nat : i \in T => i + 1 \in T
  <2> HIDE DEF P
  <2> SUFFICES ASSUME NEW i \in Nat, i \in T, i + 1 \in 1..n
               PROVE  f[i + 1] \in Seq(Units) /\ Leads(f[i + 1], UpMoves(W), q, P(i + 1))
    OBVIOUS
  <2>1. us[i + 1] \in Seq(Units) /\ Leads(us[i + 1], UpMoves(W), P(i), P(i + 1))
    <3>1. (i + 1) - 1 = i
      OBVIOUS
    <3> HIDE DEF P
    <3> QED BY <3>1, <1>5
  <2>2. CASE i = 0
    <3>1. f[i + 1] = us[i + 1]
      BY <2>2, <1>7
    <3>2. P(i) = q
      BY <2>2 DEF P
    <3> HIDE DEF P
    <3> QED BY <3>1, <3>2, <2>1
  <2>3. CASE i # 0
    <3>1. i \in 1..n /\ i + 1 # 1 /\ (i + 1) - 1 = i
      BY <2>3
    <3>2. f[i + 1] = f[i] \o us[i + 1]
      BY <3>1, <1>7
    <3>3. f[i] \in Seq(Units) /\ Leads(f[i], UpMoves(W), q, P(i))
      BY <3>1
    <3> DEFINE a == f[i]
               b == us[i + 1]
    <3>4. a \in Seq(Units) /\ b \in Seq(Units) /\ Leads(a, UpMoves(W), q, P(i)) /\ Leads(b, UpMoves(W), P(i), P(i + 1))
      BY <2>1, <3>3
    <3> HIDE DEF P, a, b
    <3>5. a \o b \in Seq(Units) /\ Leads(a \o b, UpMoves(W), q, P(i + 1))
      BY <3>4, Joined
    <3> QED BY <3>2, <3>5 DEF a, b
  <2> QED BY <2>2, <2>3
<1>10. n \in T
  <2> HIDE DEF T
  <2>1. Nat \subseteq T
    BY <1>8, <1>9, Induction
  <2> QED BY <2>1
<1>11. FlattenSeq(us) \in Seq(Units) /\ Leads(FlattenSeq(us), UpMoves(W), q, P(n))
  <2> HIDE DEF P
  <2> QED BY <1>7, <1>10
<1>12. /\ P(n).count = e /\ P(n).size = z /\ P(n).states[c] = S(n)
       /\ \A x \in OwnCSIDs : x # c => P(n).states[x] = q.states[x]
  BY <1>1
<1>13. P(n) \in Places(OwnCSIDs)
  BY <1>4
<1>14. S(n).remaining = 0
  BY <1>0
<1> DEFINE r == P(n)
<1>15. r \in Places(OwnCSIDs) /\ Leads(FlattenSeq(us), UpMoves(W), q, r) /\ r.count = e /\ r.size = z
       /\ r.states[c].remaining = 0 /\ \A x \in OwnCSIDs : x # c => r.states[x] = q.states[x]
  <2> HIDE DEF P, S
  <2> QED BY <1>11, <1>12, <1>13, <1>14
<1> HIDE DEF r
<1> QED BY <1>11, <1>15 DEF Carried

\* A message of the program is a chain of chunks from where nothing is left to where nothing is left.
LEMMA MessageSent ==
  ASSUME NEW W, NEW q, NEW c, NEW kind, NEW m, NEW len, NEW size, NEW ext,
         q \in Places(OwnCSIDs), c \in OwnCSIDs, q.states[c].remaining = 0, kind \in {0, OutChunk, AckKind},
         m \in Nat, len \in Nat, len > 0, ext \in BOOLEAN,
         kind # AckKind => m = q.count + 1 /\ m \in DOMAIN W /\ len = W[m],
         (len = 1 /\ size \in 1..2) \/ (size = OutChunk /\ q.size = OutChunk)
  PROVE  Carried(SendMessage(c, kind, m, len, size, ext), W, q, c, kind, m)
<1> DEFINE n == (len + size - 1) \div size
           us == [i \in 1..n |-> PartUnits(c, kind, m, len, ext, IF i = 1 THEN 0 ELSE 3, Least(size, len - (i - 1) * size))]
<1>1. SendMessage(c, kind, m, len, size, ext) = FlattenSeq(us)
  <2>1. \A i \in 1..n : i = 1 <=> i - 1 = 0
    <3>1. \A i \in Int : i = 1 <=> i - 1 = 0
      OBVIOUS
    <3> HIDE DEF n
    <3> QED BY <3>1
  <2> DEFINE vs == [i \in 1..n |-> <<ChunkHeader(IF i - 1 = 0 THEN 0 ELSE 3, c, len, kind, ext)>>
                                     \o (IF ext THEN <<Ext>> ELSE <<>>) \o Pieces(m, Least(size, len - (i - 1) * size))]
  <2>2. us = vs
    <3> HIDE DEF n
    <3> QED BY <2>1 DEF PartUnits
  <2>3. SendMessage(c, kind, m, len, size, ext) = FlattenSeq(vs)
    BY DEF SendMessage
  <2> HIDE DEF us, vs
  <2> QED BY <2>2, <2>3
<1>2. n \in Nat => us \in Seq(Range(us)) /\ Len(us) = n
  <2> SUFFICES ASSUME n \in Nat PROVE us \in Seq(Range(us)) /\ Len(us) = n
    OBVIOUS
  <2>1. us = [i \in 1..n |-> us[i]] /\ DOMAIN us = 1..n
    <3> HIDE DEF n
    <3> QED OBVIOUS
  <2> HIDE DEF n, us
  <2>2. \A i \in 1..n : us[i] \in Range(us)
    BY <2>1 DEF Range
  <2> QED BY <2>1, <2>2
<1>3. q.size \in Nat /\ q.size > 0
  BY DEF Places
<1>4. \A i \in 1..n : us[i] = PartUnits(c, kind, m, len, ext, IF i = 1 THEN 0 ELSE 3, Least(size, len - (i - 1) * size))
  <2> HIDE DEF n
  <2> QED OBVIOUS
<1>5. CASE len = 1 /\ size \in 1..2
  <2> DEFINE left == [i \in 0..1 |-> IF i = 0 THEN 1 ELSE 0]
  <2>1. n = 1
    BY <1>5
  <2> HIDE DEF n, us
  <2>2. left \in [0..n -> Nat] /\ left[0] = len /\ left[n] = 0 /\ \A i \in 0..n : left[i] <= len
    BY <2>1, <1>5
  <2>3. \A i \in 1..n : left[i - 1] > 0 /\ left[i] = left[i - 1] - Least(left[i - 1], q.size)
    BY <2>1, <1>3 DEF Least
  <2>4. Least(size, len - (1 - 1) * size) = 1 /\ Least(left[1 - 1], q.size) = 1
    BY <1>3, <1>5 DEF Least
  <2>5. \A i \in 1..n : us[i] = PartUnits(c, kind, m, len, ext, IF i = 1 THEN 0 ELSE 3, Least(left[i - 1], q.size))
    <3>1. \A i \in 1..n : i = 1
      BY <2>1
    <3> HIDE DEF left
    <3> QED BY <3>1, <2>4, <1>4
  <2> HIDE DEF left
  <2>6. n \in Nat /\ n > 0
    BY <2>1
  <2>7. Carried(FlattenSeq(us), W, q, c, kind, m)
    <3>1. Leaves(left, n, len, q.size) /\ Parts(us, n, left, c, kind, m, len, ext, q.size)
      BY <2>2, <2>3, <2>5, <2>6, <1>2 DEF Leaves, Parts
    <3> QED BY <3>1, <2>6, MessageCarried
  <2> QED BY <2>7, <1>1
<1>6. CASE size = OutChunk /\ q.size = OutChunk
  <2> DEFINE left == [i \in 0..n |-> IF 2 * i < len THEN len - 2 * i ELSE 0]
  <2>1. n \in Nat /\ n > 0 /\ 2 * n >= len /\ 2 * (n - 1) < len
    <3>1. n = (len + 1) \div 2
      BY <1>6 DEF OutChunk
    <3> HIDE DEF n
    <3> QED BY <3>1
  <2> HIDE DEF n, us
  <2>2. left \in [0..n -> Nat] /\ left[0] = len /\ left[n] = 0 /\ \A i \in 0..n : left[i] <= len
    BY <2>1
  <2>3. \A i \in 1..n : /\ left[i - 1] = len - 2 * (i - 1) /\ left[i - 1] > 0
                        /\ left[i] = left[i - 1] - Least(left[i - 1], q.size)
    <3> SUFFICES ASSUME NEW i \in 1..n
                 PROVE  /\ left[i - 1] = len - 2 * (i - 1) /\ left[i - 1] > 0
                        /\ left[i] = left[i - 1] - Least(left[i - 1], q.size)
      OBVIOUS
    <3>1. i - 1 \in 0..n /\ i \in 0..n /\ 2 * (i - 1) < len
      BY <2>1
    <3>2. left[i - 1] = len - 2 * (i - 1) /\ left[i] = IF 2 * i < len THEN len - 2 * i ELSE 0
      BY <3>1
    <3> HIDE DEF left
    <3> QED BY <3>1, <3>2, <1>6 DEF Least, OutChunk
  <2>4. \A i \in 1..n : Least(size, len - (i - 1) * size) = Least(left[i - 1], q.size)
    <3> SUFFICES ASSUME NEW i \in 1..n PROVE Least(size, len - (i - 1) * size) = Least(left[i - 1], q.size)
      OBVIOUS
    <3>1. len - (i - 1) * size = left[i - 1] /\ left[i - 1] \in Nat
      BY <2>3, <1>6 DEF OutChunk
    <3> HIDE DEF left
    <3> QED BY <3>1, <1>6 DEF Least, OutChunk
  <2>5. \A i \in 1..n : us[i] = PartUnits(c, kind, m, len, ext, IF i = 1 THEN 0 ELSE 3, Least(left[i - 1], q.size))
    <3> HIDE DEF left
    <3> QED BY <2>4, <1>4
  <2> HIDE DEF left
  <2>7. Carried(FlattenSeq(us), W, q, c, kind, m)
    <3>1. Leaves(left, n, len, q.size) /\ Parts(us, n, left, c, kind, m, len, ext, q.size)
      BY <2>1, <2>2, <2>3, <2>5, <1>2 DEF Leaves, Parts
    <3> QED BY <3>1, <2>1, MessageCarried
  <2> QED BY <2>7, <1>1
<1> QED BY <1>5, <1>6

\* Every message that was begun has been written to its end, and they are the messages W.
Rests(q, W) ==
  /\ \A c \in OwnCSIDs : q.states[c].remaining = 0
  /\ q.count = Len(W) /\ q.size = IF W = <<>> THEN 1 ELSE OutChunk

\* The wire of the program leads from where the server is, as a reader, to where all is written.
UpAt(p, q) ==
  /\ p \in Places(OwnCSIDs) /\ q \in Places(OwnCSIDs)
  /\ Leads(chunksUp, UpMoves(written), p, q) /\ Rests(q, written)
  /\ peer = [c \in OwnCSIDs |-> Has(p.states[c])] /\ peerSize = p.size /\ p.count = Len(received)

\* What has come is what was written, in order.
ArrivedOf(D, W) == \A i \in DOMAIN D : i \in DOMAIN W /\ D[i] = [msgs |-> {i}, len |-> W[i]]

\* What holds between writer and server.
UpInv ==
  /\ written \in Seq(Nat \ {0}) /\ chunksUp \in Seq(Units) /\ received \in Seq(Messages) /\ bytesIn \in Nat
  /\ ArrivedOf(received, written)
  /\ \E p, q : UpAt(p, q)

\* Nothing is under way at first.
LEMMA UpStarts == ChunksInit => UpInv
<1> SUFFICES ASSUME ChunksInit PROVE UpInv
  OBVIOUS
<1> DEFINE p == [states |-> [c \in OwnCSIDs |-> Blank], size |-> 1, count |-> 0]
<1>1. Blank \in StateType /\ Blank.mlen = 0 /\ Blank.remaining = 0 /\ Blank.msg = 0 /\ Blank.kind = 0 /\ Blank.ext = FALSE
  BY DEF Blank, StateType
<1>2. p \in Places(OwnCSIDs) /\ \A c \in OwnCSIDs : p.states[c] = Blank
  BY <1>1 DEF Places
<1>3. p.size = 1 /\ p.count = 0
  OBVIOUS
<1>4. Has(Blank) = Fresh
  <2>1. Pieces(Blank.msg, Blank.mlen - Blank.remaining) = <<>>
    BY <1>1, NoPieces
  <2> QED BY <2>1, <1>1 DEF Has, Fresh
<1>5. written = <<>> /\ chunksUp = <<>> /\ received = <<>> /\ bytesIn = 0 /\ peerSize = 1
      /\ peer = [c \in OwnCSIDs |-> Fresh]
  BY DEF ChunksInit
<1>6. Leads(chunksUp, UpMoves(written), p, p)
  BY <1>5, NoChunks
<1> HIDE DEF p
<1>7. peer = [c \in OwnCSIDs |-> Has(p.states[c])]
  BY <1>2, <1>4, <1>5
<1>8. Rests(p, written)
  BY <1>1, <1>2, <1>3, <1>5 DEF Rests
<1>9. UpAt(p, p)
  BY <1>2, <1>3, <1>5, <1>6, <1>7, <1>8 DEF UpAt
<1>10. ArrivedOf(received, written)
  BY <1>5 DEF ArrivedOf
<1> QED BY <1>5, <1>9, <1>10 DEF UpInv

\* The wire of the program grows by one message.
LEMMA UpGrows ==
  ASSUME NEW A, NEW W, NEW w, NEW u, NEW p, NEW q, NEW c, NEW kind, NEW m,
         UpMoves(A) \subseteq UpMoves(W), w \in Seq(Units), Leads(w, UpMoves(A), p, q),
         Carried(u, W, q, c, kind, m), \A x \in OwnCSIDs : q.states[x].remaining = 0
  PROVE  /\ w \o u \in Seq(Units)
         /\ \E r \in Places(OwnCSIDs) :
              /\ Leads(w \o u, UpMoves(W), p, r) /\ \A x \in OwnCSIDs : r.states[x].remaining = 0
              /\ r.count = IF kind = AckKind THEN q.count ELSE m
              /\ r.size = IF kind = OutChunk THEN kind ELSE q.size
<1>1. u \in Seq(Units)
  BY DEF Carried
<1>2. PICK r \in Places(OwnCSIDs) :
        /\ Leads(u, UpMoves(W), q, r)
        /\ r.count = IF kind = AckKind THEN q.count ELSE m
        /\ r.states[c].remaining = 0 /\ \A x \in OwnCSIDs : x # c => r.states[x] = q.states[x]
        /\ r.size = IF kind = OutChunk THEN kind ELSE q.size
  BY DEF Carried
<1>3. Leads(w, UpMoves(W), p, q)
  BY Wider
<1>4. Leads(w \o u, UpMoves(W), p, r)
  BY <1>1, <1>2, <1>3, Joined
<1>5. \A x \in OwnCSIDs : r.states[x].remaining = 0
  BY <1>2
<1> QED BY <1>1, <1>2, <1>4, <1>5

\* An acknowledgement goes between two messages.
LEMMA UpAcks ==
  ASSUME UpInv, NEW n \in Nat, chunksUp' = chunksUp \o SendMessage(2, AckKind, n, 1, OutChunk, FALSE),
         bytesIn' \in Nat, UNCHANGED <<written, received, peer, peerSize>>
  PROVE  UpInv'
<1>1. PICK p, q : UpAt(p, q)
  BY DEF UpInv
<1>0. PICK w, W : w = chunksUp /\ W = written
  OBVIOUS
<1>2. /\ p \in Places(OwnCSIDs) /\ q \in Places(OwnCSIDs) /\ Leads(w, UpMoves(W), p, q) /\ Rests(q, W)
      /\ w \in Seq(Units)
  BY <1>0, <1>1 DEF UpAt, UpInv
<1>3. \A x \in OwnCSIDs : q.states[x].remaining = 0
  BY <1>2 DEF Rests
<1> DEFINE u == SendMessage(2, AckKind, n, 1, OutChunk, FALSE)
<1>4. Carried(u, W, q, 2, AckKind, n)
  <2> DEFINE c == 2
             len == 1
             kind == AckKind
             size == OutChunk
             e == FALSE
  <2>1. /\ c \in OwnCSIDs /\ len \in Nat /\ len > 0 /\ kind \in {0, OutChunk, AckKind} /\ kind = AckKind
        /\ len = 1 /\ size \in 1..2 /\ e \in BOOLEAN /\ q.states[c].remaining = 0
    BY <1>3 DEF OwnCSIDs, OutChunk
  <2> HIDE DEF c, len, kind, size, e
  <2>2. Carried(SendMessage(c, kind, n, len, size, e), W, q, c, kind, n)
    BY <2>1, <1>2, MessageSent
  <2> QED BY <2>2 DEF c, len, kind, size, e
<1> HIDE DEF u
<1>5. PICK r \in Places(OwnCSIDs) :
        /\ Leads(w \o u, UpMoves(W), p, r) /\ \A x \in OwnCSIDs : r.states[x].remaining = 0
        /\ r.count = IF AckKind = AckKind THEN q.count ELSE n
        /\ r.size = IF AckKind = OutChunk THEN AckKind ELSE q.size
  BY <1>2, <1>3, <1>4, UpGrows
<1>6. w \o u \in Seq(Units)
  BY <1>2, <1>3, <1>4, UpGrows
<1>7. Rests(r, W)
  BY <1>2, <1>5 DEF Rests, AckKind, OutChunk
<1>8. chunksUp' = w \o u /\ written' = W /\ received' = received /\ peer' = peer /\ peerSize' = peerSize
  BY <1>0 DEF u
<1>9. peer = [c \in OwnCSIDs |-> Has(p.states[c])] /\ peerSize = p.size /\ p.count = Len(received)
  BY <1>1 DEF UpAt
<1>10. UpAt(p, r)'
  BY <1>2, <1>5, <1>7, <1>8, <1>9 DEF UpAt
<1>11. written \in Seq(Nat \ {0}) /\ received \in Seq(Messages) /\ ArrivedOf(received, W)
  BY <1>0 DEF UpInv
<1> QED BY <1>0, <1>6, <1>8, <1>10, <1>11 DEF UpInv

\* W2 is W and l at its end.
Longer(W2, W, l) == W2 = Append(W, l)

\* One more message takes no move away, and none of those that have come.
LEMMA MoreUpMoves ==
  ASSUME NEW W, NEW l, NEW W2, W \in Seq(Nat \ {0}), l \in Nat \ {0}, Longer(W2, W, l)
  PROVE  /\ W2 \in Seq(Nat \ {0}) /\ Len(W2) = Len(W) + 1 /\ W2[Len(W) + 1] = l /\ Len(W) \in Nat /\ W2 # <<>>
         /\ DOMAIN W = 1..Len(W) /\ DOMAIN W2 = 1..(Len(W) + 1) /\ \A i \in 1..Len(W) : W2[i] = W[i]
         /\ UpMoves(W) \subseteq UpMoves(W2)
         /\ \A D : ArrivedOf(D, W) => ArrivedOf(D, W2)
<1>1. /\ W2 \in Seq(Nat \ {0}) /\ Len(W2) = Len(W) + 1 /\ W2[Len(W) + 1] = l /\ Len(W) \in Nat /\ W2 # <<>>
      /\ DOMAIN W = 1..Len(W) /\ DOMAIN W2 = 1..(Len(W) + 1) /\ \A i \in 1..Len(W) : W2[i] = W[i]
  BY DEF Longer
<1>2. \A i \in DOMAIN W : i \in DOMAIN W2 /\ W2[i] = W[i]
  BY <1>1
<1>3. UpMoves(W) \subseteq UpMoves(W2)
  <2> SUFFICES ASSUME NEW a \in UpMoves(W) PROVE a \in UpMoves(W2)
    OBVIOUS
  <2> DEFINE p == a[1]
             ch == a[2]
             q == a[3]
  <2>1. a \in Places(OwnCSIDs) \X ChunkType \X Places(OwnCSIDs) /\ UpMove(p, ch, q, W)
    BY DEF UpMoves
  <2> HIDE DEF p, ch, q
  <2>2. UpMove(p, ch, q, W2)
    BY <2>1, <1>2 DEF UpMove
  <2> QED BY <2>1, <2>2 DEF UpMoves, p, ch, q
<1>4. \A D : ArrivedOf(D, W) => ArrivedOf(D, W2)
  BY <1>2 DEF ArrivedOf
<1> QED BY <1>1, <1>3, <1>4

\* The program writes one more message, the messages it has written being W2 from here on.
Writes(W2, c, kind, l, size, e) ==
  /\ Longer(W2, written, l)
  /\ written = <<>> => kind = OutChunk /\ l = 1 /\ size = 1
  /\ written # <<>> => kind = 0 /\ size = OutChunk
  /\ written' = W2 /\ chunksUp' = chunksUp \o SendMessage(c, kind, Len(W2), l, size, e)
  /\ UNCHANGED <<bytesIn, received, peer, peerSize>>

\* One more message is written behind the others.
LEMMA UpGoesOn ==
  ASSUME UpInv, NEW c, NEW kind, NEW l, NEW size, NEW e, c \in OwnCSIDs, kind \in {0, OutChunk}, l \in Nat \ {0},
         e \in BOOLEAN, NEW W2, Writes(W2, c, kind, l, size, e)
  PROVE  UpInv'
<1>1. PICK p, q : UpAt(p, q)
  BY DEF UpInv
<1>0. PICK w, W : w = chunksUp /\ W = written
  OBVIOUS
<1>2. /\ p \in Places(OwnCSIDs) /\ q \in Places(OwnCSIDs) /\ Leads(w, UpMoves(W), p, q) /\ Rests(q, W)
      /\ w \in Seq(Units) /\ W \in Seq(Nat \ {0})
  BY <1>0, <1>1 DEF UpAt, UpInv
<1>3. /\ \A x \in OwnCSIDs : q.states[x].remaining = 0
      /\ q.count = Len(W) /\ q.size = IF W = <<>> THEN 1 ELSE OutChunk
  BY <1>2 DEF Rests
<1> DEFINE m == Len(W2)
           u == SendMessage(c, kind, m, l, size, e)
<1>4. /\ W2 \in Seq(Nat \ {0}) /\ m = Len(W) + 1 /\ W2[m] = l /\ Len(W) \in Nat /\ W2 # <<>>
      /\ m \in DOMAIN W2 /\ UpMoves(W) \subseteq UpMoves(W2) /\ (ArrivedOf(received, W) => ArrivedOf(received, W2))
  <2>1. Longer(W2, W, l) /\ W \in Seq(Nat \ {0}) /\ l \in Nat \ {0}
    BY <1>0, <1>2 DEF Writes
  <2> HIDE DEF u
  <2>2. /\ W2 \in Seq(Nat \ {0}) /\ Len(W2) = Len(W) + 1 /\ W2[Len(W) + 1] = l /\ Len(W) \in Nat /\ W2 # <<>>
        /\ DOMAIN W2 = 1..(Len(W) + 1) /\ UpMoves(W) \subseteq UpMoves(W2)
        /\ (ArrivedOf(received, W) => ArrivedOf(received, W2))
    BY <2>1, MoreUpMoves
  <2> QED BY <2>2
<1> HIDE DEF m
<1>5. Carried(u, W2, q, c, kind, m)
  <2>1. /\ q.states[c].remaining = 0 /\ kind \in {0, OutChunk, AckKind} /\ m \in Nat /\ l \in Nat /\ l > 0
        /\ (kind # AckKind => m = q.count + 1 /\ m \in DOMAIN W2 /\ l = W2[m])
    BY <1>3, <1>4
  <2>2. (l = 1 /\ size \in 1..2) \/ (size = OutChunk /\ q.size = OutChunk)
    BY <1>0, <1>3 DEF Writes
  <2> HIDE DEF u
  <2> QED BY <2>1, <2>2, <1>2, MessageSent DEF u
<1> HIDE DEF u
<1>6. /\ w \o u \in Seq(Units)
      /\ \E r \in Places(OwnCSIDs) :
           /\ Leads(w \o u, UpMoves(W2), p, r) /\ \A x \in OwnCSIDs : r.states[x].remaining = 0
           /\ r.count = IF kind = AckKind THEN q.count ELSE m
           /\ r.size = IF kind = OutChunk THEN kind ELSE q.size
  <2> DEFINE kk == kind
  <2>1. /\ UpMoves(W) \subseteq UpMoves(W2) /\ w \in Seq(Units) /\ Leads(w, UpMoves(W), p, q)
        /\ Carried(u, W2, q, c, kk, m) /\ \A x \in OwnCSIDs : q.states[x].remaining = 0
    BY <1>2, <1>3, <1>4, <1>5
  <2> HIDE DEF kk
  <2>2. /\ w \o u \in Seq(Units)
        /\ \E r \in Places(OwnCSIDs) :
             /\ Leads(w \o u, UpMoves(W2), p, r) /\ \A x \in OwnCSIDs : r.states[x].remaining = 0
             /\ r.count = IF kk = AckKind THEN q.count ELSE m
             /\ r.size = IF kk = OutChunk THEN kk ELSE q.size
    BY <2>1, UpGrows
  <2> QED BY <2>2 DEF kk
<1>7. PICK r \in Places(OwnCSIDs) :
        /\ Leads(w \o u, UpMoves(W2), p, r) /\ \A x \in OwnCSIDs : r.states[x].remaining = 0
        /\ r.count = IF kind = AckKind THEN q.count ELSE m
        /\ r.size = IF kind = OutChunk THEN kind ELSE q.size
  BY <1>6
<1>8. Rests(r, W2)
  <2>1. kind # AckKind /\ 0 # OutChunk
    BY DEF AckKind, OutChunk
  <2>2. r.size = OutChunk
    BY <2>1, <1>0, <1>3, <1>7 DEF Writes
  <2> QED BY <2>1, <2>2, <1>4, <1>7 DEF Rests, m
<1>9. chunksUp' = w \o u /\ written' = W2 /\ received' = received /\ bytesIn' = bytesIn
      /\ peer' = peer /\ peerSize' = peerSize
  BY <1>0 DEF u, m, Writes
<1>10. peer = [x \in OwnCSIDs |-> Has(p.states[x])] /\ peerSize = p.size /\ p.count = Len(received)
  BY <1>1 DEF UpAt
<1>11. UpAt(p, r)'
  BY <1>2, <1>7, <1>8, <1>9, <1>10 DEF UpAt
<1>12. received \in Seq(Messages) /\ ArrivedOf(received, W) /\ bytesIn \in Nat
  BY <1>0 DEF UpInv
<1> QED BY <1>4, <1>6, <1>9, <1>11, <1>12 DEF UpInv

\* What the program writes keeps the order.
LEMMA UpWrites ==
  ASSUME UpInv, WriteTag
  PROVE  UpInv'
<1>1. UNCHANGED <<bytesIn, received, peer, peerSize>>
  BY DEF WriteTag, serverVars
<1>2. written \in Seq(Nat \ {0})
  BY DEF UpInv
<1>3. CASE written = <<>> /\ written' = <<1>> /\ chunksUp' = chunksUp \o SendMessage(2, OutChunk, 1, 1, 1, FALSE)
  <2> DEFINE c == 2
             l == 1
             e == FALSE
             W2 == Append(written, l)
  <2>0. PICK V : V = W2
    OBVIOUS
  <2>1. W2 = <<1>> /\ Len(W2) = 1
    BY <1>3
  <2>2. /\ c \in OwnCSIDs /\ OutChunk \in {0, OutChunk} /\ l \in Nat \ {0} /\ e \in BOOLEAN /\ l = 1
        /\ written' = V /\ chunksUp' = chunksUp \o SendMessage(c, OutChunk, Len(V), l, l, e) /\ V = Append(written, l)
    <3>1. c \in OwnCSIDs /\ OutChunk \in {0, OutChunk} /\ l \in Nat \ {0} /\ e \in BOOLEAN /\ l = 1
      BY DEF OwnCSIDs
    <3>2. written' = V /\ V = Append(written, l) /\ Len(V) = 1
      BY <2>0, <2>1, <1>3
    <3>3. chunksUp' = chunksUp \o SendMessage(c, OutChunk, 1, l, l, e)
      BY <1>3
    <3> QED BY <3>1, <3>2, <3>3
  <2> HIDE DEF c, l, e, W2
  <2>3. Writes(V, c, OutChunk, l, l, e)
    BY <2>2, <1>1, <1>3 DEF Writes, Longer
  <2> QED BY <2>2, <2>3, UpGoesOn
<1>4. CASE /\ written # <<>>
           /\ \E l \in Lengths, e \in BOOLEAN :
                /\ written' = Append(written, l)
                /\ chunksUp' = chunksUp \o SendMessage(4, 0, Len(written'), l, OutChunk, e)
  <2>1. PICK l \in Lengths, e \in BOOLEAN :
          /\ written' = Append(written, l)
          /\ chunksUp' = chunksUp \o SendMessage(4, 0, Len(written'), l, OutChunk, e)
    BY <1>4
  <2>0. PICK V : V = Append(written, l)
    OBVIOUS
  <2> DEFINE c == 4
             k == 0
  <2>2. /\ c \in OwnCSIDs /\ k \in {0, OutChunk} /\ l \in Nat \ {0} /\ e \in BOOLEAN /\ k = 0
        /\ written' = V /\ chunksUp' = chunksUp \o SendMessage(c, k, Len(V), l, OutChunk, e)
    BY <2>0, <2>1, ChunksAssumption DEF OwnCSIDs
  <2> HIDE DEF c, k
  <2>3. Writes(V, c, k, l, OutChunk, e)
    BY <2>0, <2>2, <1>1, <1>4 DEF Writes, Longer
  <2> QED BY <2>2, <2>3, UpGoesOn
<1> QED BY <1>3, <1>4 DEF WriteTag

\* The server takes one chunk, and nothing but that chunk.
LEMMA UpReads ==
  ASSUME UpInv, ServerReads
  PROVE  ~peerGarbled' /\ UpInv'
<1>1. PICK p, q : UpAt(p, q)
  BY DEF UpInv
<1>0. PICK w, W, D : w = chunksUp /\ W = written /\ D = received
  OBVIOUS
<1>2. /\ p \in Places(OwnCSIDs) /\ q \in Places(OwnCSIDs) /\ Leads(w, UpMoves(W), p, q) /\ Rests(q, W)
      /\ peer = [x \in OwnCSIDs |-> Has(p.states[x])] /\ peerSize = p.size /\ p.count = Len(D)
  BY <1>0, <1>1 DEF UpAt
<1>3. w \in Seq(Units) /\ w # <<>> /\ W \in Seq(Nat \ {0}) /\ D \in Seq(Messages) /\ ArrivedOf(D, W)
  BY <1>0 DEF UpInv, ServerReads
<1>4. PICK ch \in ChunkType : \E r :
        /\ <<p, ch, r>> \in UpMoves(W) /\ Laid(w, 0, ch)
        /\ Leads(SubSeq(w, Width(ch) + 1, Len(w)), UpMoves(W), r, q)
  BY <1>2, <1>3, FirstChunk
<1>5. PICK r : /\ <<p, ch, r>> \in UpMoves(W) /\ Laid(w, 0, ch)
               /\ Leads(SubSeq(w, Width(ch) + 1, Len(w)), UpMoves(W), r, q)
  BY <1>4
<1>6. r \in Places(OwnCSIDs) /\ UpMove(p, ch, r, W)
  BY <1>5 DEF UpMoves
<1>7. ch.csid \in OwnCSIDs /\ Turns(p, ch, r, TRUE, {OutChunk}) /\ ch.kind \in {0, OutChunk, AckKind}
  BY <1>6 DEF UpMove
<1> DEFINE c == ch.csid
           t == r.states[ch.csid]
           g == Chunk(w, peer, peerSize, TRUE)
           v == Has(t)
<1>8. /\ Head(w).t = "header" /\ Head(w).csid = c
      /\ g.whole = TRUE /\ g.sound = TRUE /\ g.used = Width(ch) /\ g.state = v
  <2> DEFINE e == TRUE
             sizes == {OutChunk}
  <2>1. peer[ch.csid] = Has(p.states[ch.csid]) /\ e \in BOOLEAN /\ Turns(p, ch, r, e, sizes)
        /\ g = Chunk(w, peer, p.size, e)
    BY <1>2, <1>7
  <2> HIDE DEF e, g, sizes, t, c, v
  <2>2. /\ Head(w).t = "header" /\ Head(w).csid = ch.csid
        /\ Took(Chunk(w, peer, p.size, e), ch, r.states[ch.csid])
    <3>1. p \in Places(OwnCSIDs) /\ r \in Places(OwnCSIDs) /\ w \in Seq(Units) /\ Laid(w, 0, ch) /\ ch.csid \in OwnCSIDs
      BY <1>2, <1>3, <1>5, <1>6, <1>7
    <3> QED BY <2>1, <3>1, Reads
  <2> QED BY <2>1, <2>2 DEF Took, c, v, t
<1>9. /\ peerGarbled' = ~g.sound
      /\ chunksUp' = SubSeq(w, g.used + 1, Len(w))
      /\ peer' = [peer EXCEPT ![Head(w).csid] = g.state]
      /\ IF g.state.remaining # 0 THEN peerSize' = peerSize /\ received' = D
         ELSE IF g.state.kind = AckKind THEN peerSize' = peerSize /\ received' = D
         ELSE /\ received' = Append(D, Assembled(g.state))
              /\ peerSize' = IF g.state.kind = 0 THEN peerSize ELSE g.state.kind
      /\ written' = W /\ bytesIn' = bytesIn
  BY <1>0, <1>8 DEF ServerReads, programVars
<1> HIDE DEF g
<1>10. ~peerGarbled'
  BY <1>8, <1>9
<1> DEFINE s == p.states[c]
<1>11. /\ r.states = [p.states EXCEPT ![c] = Reached(s, ch)]
       /\ r.size = IF Reached(s, ch).remaining = 0 /\ ch.kind \in {OutChunk} THEN ch.kind ELSE p.size
  BY <1>7 DEF Turns
<1>12. /\ t = Reached(s, ch) /\ \A x \in OwnCSIDs : x # c => r.states[x] = p.states[x]
       /\ t \in StateType
  BY <1>2, <1>6, <1>7, <1>11 DEF Places
<1>13. t.mlen = ch.len /\ t.msg = ch.msg /\ t.kind = ch.kind /\ ch.len \in Nat /\ ch.len > 0
  BY <1>12 DEF Reached, ChunkType
<1>14. v.remaining = t.remaining /\ v.kind = ch.kind
  BY <1>13 DEF Has
<1> HIDE DEF s
<1>15. peer' = [x \in OwnCSIDs |-> Has(r.states[x])]
  <2>1. peer' = [peer EXCEPT ![c] = Has(t)]
    BY <1>8, <1>9
  <2>2. \A x \in OwnCSIDs : (x = c => r.states[x] = t) /\ (x # c => r.states[x] = p.states[x])
    BY <1>12
  <2> HIDE DEF c, t, v
  <2> QED BY <2>1, <2>2, <1>2
<1> HIDE DEF v
<1>16. chunksUp' = SubSeq(w, Width(ch) + 1, Len(w)) /\ chunksUp' \in Seq(Units)
  <2>1. chunksUp' = SubSeq(w, Width(ch) + 1, Len(w))
    BY <1>8, <1>9
  <2>2. Width(ch) \in Nat
    BY Widths
  <2> QED BY <2>1, <2>2, <1>3
<1> HIDE DEF t
<1>17. /\ peerSize' = r.size /\ r.count = Len(received') /\ received' \in Seq(Messages)
       /\ ArrivedOf(received', W)
  <2>1. CASE t.remaining # 0 \/ ch.kind = AckKind
    <3>1. received' = D /\ peerSize' = p.size
      BY <2>1, <1>2, <1>8, <1>9, <1>14
    <3>2. r.size = p.size
      BY <2>1, <1>11, <1>12 DEF AckKind, OutChunk
    <3>3. r.count = p.count
      BY <2>1, <1>6 DEF UpMove, t
    <3> QED BY <3>1, <3>2, <3>3, <1>2, <1>3
  <2>2. CASE t.remaining = 0 /\ ch.kind # AckKind
    <3> DEFINE d == [msgs |-> {ch.msg}, len |-> ch.len]
    <3>1. ch.msg = p.count + 1 /\ ch.msg \in DOMAIN W /\ ch.len = W[ch.msg] /\ r.count = ch.msg
      BY <2>2, <1>6 DEF UpMove, t
    <3>2. Assembled(v) = d
      BY <2>2, <1>12, <1>13, PutTogether DEF v
    <3>3. received' = Append(D, d) /\ peerSize' = IF ch.kind = 0 THEN p.size ELSE ch.kind
      BY <2>2, <3>2, <1>2, <1>8, <1>9, <1>14
    <3>4. peerSize' = r.size
      BY <2>2, <3>3, <1>7, <1>11, <1>12 DEF OutChunk
    <3>5. d \in Messages
      BY <1>3, <3>1, <1>13 DEF Messages
    <3>6. DOMAIN D = 1..Len(D) /\ Len(D) \in Nat /\ ch.msg = Len(D) + 1
      BY <1>2, <1>3, <3>1
    <3> HIDE DEF d
    <3>7. /\ received' \in Seq(Messages) /\ Len(received') = ch.msg /\ received'[ch.msg] = d
          /\ DOMAIN received' = 1..ch.msg /\ \A i \in 1..Len(D) : received'[i] = D[i]
      BY <1>3, <3>3, <3>5, <3>6
    <3>8. ArrivedOf(received', W)
      <4>0. PICK D2 : D2 = received'
        OBVIOUS
      <4> SUFFICES ASSUME NEW i \in DOMAIN D2 PROVE i \in DOMAIN W /\ D2[i] = [msgs |-> {i}, len |-> W[i]]
        BY <4>0 DEF ArrivedOf
      <4>1. CASE i = ch.msg
        BY <4>0, <4>1, <3>1, <3>7 DEF d
      <4>2. CASE i # ch.msg
        <5>1. i \in DOMAIN D /\ D2[i] = D[i]
          BY <4>0, <4>2, <3>6, <3>7
        <5> QED BY <5>1, <1>3 DEF ArrivedOf
      <4> QED BY <4>1, <4>2
    <3> QED BY <3>1, <3>4, <3>7, <3>8
  <2> QED BY <2>1, <2>2
<1>18. UpAt(r, q)'
  BY <1>2, <1>5, <1>6, <1>9, <1>15, <1>16, <1>17 DEF UpAt
<1>19. bytesIn \in Nat
  BY DEF UpInv
<1> QED BY <1>3, <1>9, <1>10, <1>16, <1>17, <1>18, <1>19 DEF UpInv

----------------------------------------------------------------------------
(* Whatever the server says, in step or not.                               *)

\* What the server sends: units, the headers among them of its chunk streams.
DownUnits == {u \in Units : u.t = "header" => u.csid \in CSIDs}

\* What either end may remember of a chunk stream.
Remembered == [mlen : Nat, kind : Nat, remaining : Nat, buf : Seq(Units), ext : BOOLEAN]

DownTyped ==
  /\ chunksDown \in Seq(DownUnits) /\ begun \in Seq(MessageType)
  /\ csidState \in [CSIDs -> Remembered] /\ inChunk \in Nat
  /\ sender \in [CSIDs -> Remembered] /\ sendSize \in Nat
  /\ \A c \in CSIDs : sender[c].remaining > 0 => sender[c].buf # <<>>

LEMMA LeastTyped ==
  ASSUME NEW a \in Nat, NEW b \in Nat
  PROVE  Least(a, b) \in Nat /\ Least(a, b) <= a
BY DEF Least

LEMMA FreshTyped == Fresh \in Remembered
BY DEF Fresh, Remembered

LEMMA ExtTyped == Ext \in DownUnits
BY DEF Ext, Unit, Units, DownUnits

LEMMA PieceTyped ==
  ASSUME NEW m \in Nat
  PROVE  Piece(m) \in Units /\ Piece(m) \in DownUnits
<1> DEFINE u == Unit("piece")
           x == [u EXCEPT !.msg = m]
<1>1. u \in Units /\ u.t = "piece"
  BY DEF Unit, Units
<1> HIDE DEF u
<1>2. x \in Units /\ x.t = "piece"
  BY <1>1 DEF Units
<1> HIDE DEF x
<1>3. x \in DownUnits
  BY <1>2 DEF DownUnits
<1>4. Piece(m) = x
  BY DEF Piece, x, u
<1> QED BY <1>2, <1>3, <1>4

LEMMA PiecesTyped ==
  ASSUME NEW m \in Nat, NEW k \in Nat
  PROVE  Pieces(m, k) \in Seq(DownUnits)
<1> DEFINE x == Piece(m)
<1>1. x \in DownUnits
  BY PieceTyped
<1> HIDE DEF x
<1>2. [i \in 1..k |-> x] \in Seq(DownUnits)
  BY <1>1
<1> QED BY <1>2 DEF Pieces, x

\* A chunk made of what has its type.
LEMMA UnitsTyped ==
  ASSUME NEW f \in 0..3, NEW c \in CSIDs, NEW l \in Nat, NEW k \in Nat, NEW e \in BOOLEAN,
         NEW stamped \in BOOLEAN, NEW m \in Nat, NEW n \in Nat
  PROVE  <<ChunkHeader(f, c, l, k, e)>> \o (IF stamped THEN <<Ext>> ELSE <<>>) \o Pieces(m, n) \in Seq(DownUnits)
<1> DEFINE h == ChunkHeader(f, c, l, k, e)
           x == IF stamped THEN <<Ext>> ELSE <<>>
           y == Pieces(m, n)
<1>1. h \in DownUnits
  <2>1. c \in CSIDs \cup OwnCSIDs /\ h = ChunkHeader(f, c, l, k, e)
    OBVIOUS
  <2> HIDE DEF h
  <2>2. h \in Units /\ h.csid = c
    BY <2>1, Headers
  <2> QED BY <2>2 DEF DownUnits
<1>2. x \in Seq(DownUnits) /\ y \in Seq(DownUnits)
  BY ExtTyped, PiecesTyped
<1> HIDE DEF h, x, y
<1>3. <<h>> \o x \o y \in Seq(DownUnits)
  BY <1>1, <1>2
<1> QED BY <1>3 DEF h, x, y

LEMMA BeginsTyped ==
  ASSUME NEW s \in Remembered, NEW h \in Units
  PROVE  Begins(s, h) \in Remembered
<1>1. /\ h.len \in Nat /\ h.kind \in Nat /\ h.ext \in BOOLEAN /\ <<>> \in Seq(Units)
      /\ s.mlen \in Nat /\ s.kind \in Nat /\ s.remaining \in Nat /\ s.buf \in Seq(Units) /\ s.ext \in BOOLEAN
  BY DEF Units, Remembered
<1>2. [mlen |-> h.len, kind |-> h.kind, remaining |-> h.len, buf |-> <<>>, ext |-> h.ext] \in Remembered
  BY <1>1 DEF Remembered
<1>3. [s EXCEPT !.remaining = s.mlen, !.buf = <<>>, !.ext = h.ext] \in Remembered
  BY <1>1 DEF Remembered
<1>4. [s EXCEPT !.remaining = s.mlen, !.buf = <<>>] \in Remembered
  BY <1>1 DEF Remembered
<1> QED BY <1>2, <1>3, <1>4 DEF Begins

\* A chunk that is all there, whatever it is taken for.
LEMMA ChunkTyped ==
  ASSUME NEW w \in Seq(DownUnits), w # <<>>, Head(w).t = "header",
         NEW states \in [CSIDs -> Remembered], NEW size \in Nat, NEW repeats \in BOOLEAN,
         Chunk(w, states, size, repeats).whole
  PROVE  /\ Chunk(w, states, size, repeats).state \in Remembered
         /\ Chunk(w, states, size, repeats).used \in 0..Len(w)
<1> DEFINE h == Head(w)
           s == Begins(states[h.csid], h)
           stamped == IF h.fmt = 3 THEN repeats /\ s.ext ELSE h.ext
           skip == IF stamped THEN 2 ELSE 1
           want == Least(s.remaining, size)
           data == SubSeq(w, skip + 1, skip + want)
           sum == s.buf \o data
           g == Chunk(w, states, size, repeats)
<1>1. h \in Units /\ h.csid \in CSIDs
  BY DEF DownUnits
<1>2. s \in Remembered
  BY <1>1, BeginsTyped
<1>3. skip \in Nat
  OBVIOUS
<1> HIDE DEF skip
<1>4. s.remaining \in Nat /\ s.buf \in Seq(Units)
  BY <1>2 DEF Remembered
<1>5. want \in Nat /\ want <= s.remaining /\ s.remaining - want \in Nat
  <2> DEFINE a == s.remaining
  <2> HIDE DEF s
  <2> HIDE DEF a
  <2>1. a \in Nat
    BY <1>4 DEF a
  <2>2. Least(a, size) \in Nat /\ Least(a, size) <= a
    BY <2>1, LeastTyped
  <2> QED BY <2>1, <2>2 DEF a
<1> HIDE DEF want
<1>6. g.whole = (skip + want <= Len(w)) /\ g.used = skip + want
      /\ (g.whole => g.state = [s EXCEPT !.remaining = @ - want, !.buf = @ \o data])
  BY DEF Chunk, skip, want
<1>7. skip + want <= Len(w)
  BY <1>6
<1>8. w \in Seq(Units) /\ Len(w) \in Nat
  <2>1. DownUnits \subseteq Units
    BY DEF DownUnits
  <2> QED BY <2>1
<1>9. data \in Seq(Units)
  BY <1>3, <1>5, <1>7, <1>8, CutOut
<1> HIDE DEF data, s, g
<1>10. sum \in Seq(Units)
  BY <1>4, <1>9
<1>11. g.state = [s EXCEPT !.remaining = s.remaining - want, !.buf = sum]
  BY <1>6, <1>7
<1> HIDE DEF sum
<1>12. [s EXCEPT !.remaining = s.remaining - want, !.buf = sum] \in Remembered
  <2>1. s.remaining - want \in Nat
    BY <1>5
  <2> QED BY <2>1, <1>2, <1>10 DEF Remembered
<1>13. g.used \in 0..Len(w)
  BY <1>3, <1>5, <1>6, <1>7, <1>8
<1> QED BY <1>11, <1>12, <1>13 DEF g

LEMMA TypedAtFirst == ChunksInit => DownTyped
<1> SUFFICES ASSUME ChunksInit PROVE DownTyped
  OBVIOUS
<1>1. \A c \in CSIDs : sender[c] = Fresh /\ Fresh.remaining = 0
  BY DEF ChunksInit, Fresh
<1>2. csidState \in [CSIDs -> Remembered] /\ sender \in [CSIDs -> Remembered]
  BY FreshTyped DEF ChunksInit
<1> QED BY <1>1, <1>2 DEF ChunksInit, DownTyped

\* The reader keeps its types when it has lost its place, and counts what it takes.
LEMMA TypedReads ==
  ASSUME DownTyped, ReadMessage
  PROVE  DownTyped' /\ \E n \in Nat : bytesIn' = bytesIn + n \/ bytesIn' = bytesIn
<1>1. /\ chunksDown \in Seq(DownUnits) /\ chunksDown # <<>> /\ begun \in Seq(MessageType)
      /\ csidState \in [CSIDs -> Remembered] /\ inChunk \in Nat
      /\ sender' = sender /\ sendSize' = sendSize /\ begun' = begun
  BY DEF DownTyped, ReadMessage, serverVars
<1>2. CASE Head(chunksDown).t # "header"
  <2>1. UNCHANGED <<chunksDown, csidState, inChunk, bytesIn>>
    BY <1>2 DEF ReadMessage, programVars
  <2> QED BY <2>1, <1>1 DEF DownTyped
<1>3. CASE Head(chunksDown).t = "header"
  <2> DEFINE g == Chunk(chunksDown, csidState, inChunk, FALSE)
             c == Head(chunksDown).csid
  <2>1. /\ g.whole /\ chunksDown' = SubSeq(chunksDown, g.used + 1, Len(chunksDown))
        /\ csidState' = [csidState EXCEPT ![c] = g.state]
        /\ inChunk' = NewSize(g.state, inChunk) /\ bytesIn' = bytesIn + g.used
    BY <1>3 DEF ReadMessage, Counted
  <2>2. c \in CSIDs
    <3>1. Head(chunksDown) \in DownUnits
      BY <1>1
    <3> QED BY <3>1, <1>3 DEF DownUnits
  <2>3. g.state \in Remembered /\ g.used \in 0..Len(chunksDown)
    <3> DEFINE e == FALSE
    <3>1. e \in BOOLEAN /\ g = Chunk(chunksDown, csidState, inChunk, e)
      OBVIOUS
    <3> HIDE DEF g, e
    <3> QED BY <3>1, <1>1, <1>3, <2>1, ChunkTyped
  <2> HIDE DEF g, c
  <2>4. g.used \in Nat /\ SubSeq(chunksDown, g.used + 1, Len(chunksDown)) \in Seq(DownUnits)
    BY <1>1, <2>3
  <2>5. inChunk' \in Nat
    <3>1. g.state.kind \in Nat
      BY <2>3 DEF Remembered
    <3> QED BY <3>1, <1>1, <2>1 DEF NewSize
  <2>6. csidState' \in [CSIDs -> Remembered]
    BY <1>1, <2>1, <2>3
  <2>7. DownTyped'
    BY <1>1, <2>1, <2>4, <2>5, <2>6 DEF DownTyped
  <2> QED BY <2>1, <2>4, <2>7
<1> QED BY <1>2, <1>3

\* The server keeps them, and may say an extended timestamp again.
LEMMA TypedContinues ==
  ASSUME DownTyped, NEW c \in CSIDs, NEW again \in BOOLEAN, ServerContinues(c, again), UNCHANGED <<csidState, inChunk>>
  PROVE  DownTyped'
<1> DEFINE s == sender[c]
           k == Least(s.remaining, sendSize)
           m == s.buf[1].msg
           u == <<ChunkHeader(3, c, 0, 0, FALSE)>> \o (IF again THEN <<Ext>> ELSE <<>>) \o Pieces(m, k)
           s2 == [s EXCEPT !.remaining = s.remaining - k]
<1>1. /\ chunksDown \in Seq(DownUnits) /\ sender \in [CSIDs -> Remembered] /\ sendSize \in Nat
      /\ s \in Remembered /\ s.remaining \in Nat /\ s.buf \in Seq(Units) /\ s.remaining > 0 /\ s.buf # <<>>
      /\ s.kind \in Nat
  BY DEF DownTyped, ServerContinues, Remembered
<1>2. m \in Nat
  <2>1. s.buf[1] \in Units
    BY <1>1
  <2> QED BY <2>1 DEF Units
<1>3. k \in Nat /\ k <= s.remaining /\ s.remaining - k \in Nat
  BY <1>1 DEF Least
<1>4. /\ chunksDown' = chunksDown \o u /\ begun' = begun
      /\ sender' = [sender EXCEPT ![c] = s2]
      /\ sendSize' = Announces(sender'[c])
  BY DEF ServerContinues
<1> HIDE DEF k, m
<1>5. u \in Seq(DownUnits)
  <2> DEFINE f == 3
             l == 0
             e == FALSE
  <2>1. f \in 0..3 /\ l \in Nat /\ e \in BOOLEAN
        /\ u = <<ChunkHeader(f, c, l, l, e)>> \o (IF again THEN <<Ext>> ELSE <<>>) \o Pieces(m, k)
    OBVIOUS
  <2> HIDE DEF f, l, e, u
  <2> QED BY <2>1, <1>2, <1>3, UnitsTyped
<1>6. s2 \in Remembered /\ s2.buf = s.buf /\ s2.kind = s.kind
  <2> HIDE DEF s
  <2> QED BY <1>1, <1>3 DEF Remembered
<1> HIDE DEF u, s2, s
<1>7. chunksDown' \in Seq(DownUnits) /\ sender' \in [CSIDs -> Remembered] /\ sender'[c] = s2
  BY <1>1, <1>4, <1>5, <1>6
<1>8. sendSize' \in Nat
  BY <1>1, <1>4, <1>6, <1>7 DEF Announces
<1>9. \A x \in CSIDs : sender'[x].remaining > 0 => sender'[x].buf # <<>>
  BY <1>1, <1>4, <1>6, <1>7 DEF DownTyped
<1> QED BY <1>4, <1>7, <1>8, <1>9 DEF DownTyped

LEMMA TypedBegins ==
  ASSUME DownTyped, NEW c \in CSIDs, NEW f \in 0..3, NEW l \in Lengths, NEW kind \in Sizes \cup {0},
         NEW e \in BOOLEAN, NEW again \in BOOLEAN, ServerBegins(c, f, l, kind, e, again),
         UNCHANGED <<csidState, inChunk>>
  PROVE  DownTyped'
<1> DEFINE s == sender[c]
           len == IF f \in {0, 1} THEN l ELSE s.mlen
           what == IF f \in {0, 1} THEN kind ELSE s.kind
           ext == IF f = 3 THEN s.ext ELSE e
           k == Least(len, sendSize)
           stamped == (ext /\ f # 3) \/ again
           m == Len(begun) + 1
           g == [csid |-> c, len |-> len]
           u == <<ChunkHeader(f, c, len, what, ext)>> \o (IF stamped THEN <<Ext>> ELSE <<>>) \o Pieces(m, k)
           s2 == [mlen |-> len, kind |-> what, remaining |-> len - k, buf |-> <<Piece(Len(begun'))>>, ext |-> ext]
<1>1. /\ chunksDown \in Seq(DownUnits) /\ sender \in [CSIDs -> Remembered] /\ sendSize \in Nat
      /\ begun \in Seq(MessageType) /\ s \in Remembered
  BY DEF DownTyped
<1>2. s.mlen \in Nat /\ s.kind \in Nat /\ s.ext \in BOOLEAN /\ l \in Nat /\ kind \in Nat
  BY <1>1, ChunksAssumption DEF Remembered
<1>3. len \in Nat /\ what \in Nat /\ ext \in BOOLEAN
  BY <1>2
<1>4. /\ chunksDown' = chunksDown \o u /\ begun' = Append(begun, g)
      /\ sender' = [sender EXCEPT ![c] = s2] /\ sendSize' = Announces(sender'[c])
  BY DEF ServerBegins
<1> HIDE DEF len, what, ext
<1>5. k \in Nat /\ k <= len /\ len - k \in Nat
  BY <1>1, <1>3 DEF Least
<1> HIDE DEF k
<1>6. g \in MessageType
  BY <1>3 DEF MessageType
<1> HIDE DEF g
<1>7. begun' \in Seq(MessageType) /\ Len(begun') = m /\ m \in Nat
  BY <1>1, <1>4, <1>6
<1> HIDE DEF m
<1>8. stamped \in BOOLEAN
  OBVIOUS
<1> HIDE DEF stamped
<1>9. u \in Seq(DownUnits)
  BY <1>3, <1>5, <1>7, <1>8, UnitsTyped
<1>10. s2 \in Remembered /\ s2.buf # <<>> /\ s2.kind = what
  <2> DEFINE y == Piece(Len(begun'))
             b == <<y>>
  <2>1. y \in Units
    BY <1>7, PieceTyped
  <2> HIDE DEF y
  <2>2. b \in Seq(Units) /\ b # <<>>
    BY <2>1
  <2>3. s2 = [mlen |-> len, kind |-> what, remaining |-> len - k, buf |-> b, ext |-> ext]
    BY DEF y
  <2> HIDE DEF s2, b
  <2> QED BY <2>2, <2>3, <1>3, <1>5 DEF Remembered
<1> HIDE DEF u, s2
<1>11. chunksDown' \in Seq(DownUnits) /\ sender' \in [CSIDs -> Remembered] /\ sender'[c] = s2
  BY <1>1, <1>4, <1>9, <1>10
<1>12. sendSize' \in Nat
  BY <1>1, <1>3, <1>4, <1>10, <1>11 DEF Announces
<1>13. \A x \in CSIDs : sender'[x].remaining > 0 => sender'[x].buf # <<>>
  BY <1>1, <1>4, <1>10, <1>11 DEF DownTyped
<1> QED BY <1>7, <1>11, <1>12, <1>13 DEF DownTyped

LEMMA TypedStays ==
  DownTyped /\ UNCHANGED <<chunksDown, begun, csidState, inChunk, sender, sendSize>> => DownTyped'
BY DEF DownTyped

\* What the reader takes moves nothing that goes the other way but the acknowledgement it may add.
LEMMA AcksFollow ==
  ASSUME UpInv, DownTyped, ReadMessage
  PROVE  UpInv'
<1>1. bytesIn \in Nat /\ \E n \in Nat : bytesIn' = bytesIn + n \/ bytesIn' = bytesIn
  BY TypedReads DEF UpInv
<1>2. PICK k \in Nat : k = bytesIn'
  BY <1>1
<1>3. UNCHANGED <<written, received, peer, peerSize>>
  BY DEF ReadMessage, serverVars, programVars
<1>4. chunksUp' = chunksUp \/ chunksUp' = chunksUp \o SendMessage(2, AckKind, k, 1, OutChunk, FALSE)
  BY <1>2 DEF ReadMessage
<1>5. CASE chunksUp' = chunksUp
  BY <1>2, <1>3, <1>5 DEF UpInv, UpAt
<1>6. CASE chunksUp' = chunksUp \o SendMessage(2, AckKind, k, 1, OutChunk, FALSE)
  <2>1. bytesIn' \in Nat
    BY <1>2
  <2> QED BY <1>3, <1>6, <2>1, UpAcks
<1> QED BY <1>4, <1>5, <1>6

\* Each direction keeps to itself.
LEMMA UpStays == UpInv /\ UNCHANGED <<chunksUp, written, received, bytesIn, peer, peerSize>> => UpInv'
BY DEF UpInv, UpAt

LEMMA DownStays ==
  DownInv /\ UNCHANGED <<chunksDown, begun, delivered, csidState, inChunk, sender, sendSize>> => DownInv'
BY DEF DownInv, DownAt

----------------------------------------------------------------------------

\* What the program reads is a chain of chunks until the server says an extended timestamp again.
DownHolds == repeated \/ (~garbled /\ DownInv)

\* The inductive invariant.
ChunksInv == ~peerGarbled /\ UpInv /\ DownTyped /\ DownHolds

\* The wire of the program is a chain of chunks in every reachable state, that of the server as
\* long as it can be.
LEMMA ChunksInvHolds == ChunksSpec => []ChunksInv
<1>1. ChunksInit => ChunksInv
  BY DownStarts, UpStarts, TypedAtFirst DEF ChunksInv, DownHolds, ChunksInit
<1>2. ChunksInv /\ [ChunksNext]_chunksVars => ChunksInv'
  <2> SUFFICES ASSUME ChunksInv, [ChunksNext]_chunksVars PROVE ChunksInv'
    OBVIOUS
  <2>0. ~peerGarbled /\ UpInv /\ DownTyped /\ (repeated \/ (~garbled /\ DownInv))
    BY DEF ChunksInv, DownHolds
  <2>1. CASE ReadMessage
    <3>1. repeated' = repeated /\ peerGarbled' = peerGarbled
      BY <2>1 DEF ReadMessage, serverVars
    <3>2. UpInv' /\ DownTyped'
      BY <2>0, <2>1, AcksFollow, TypedReads
    <3>3. DownHolds'
      BY <2>0, <2>1, <3>1, DownReads DEF DownHolds
    <3> QED BY <2>0, <3>1, <3>2, <3>3 DEF ChunksInv
  <2>2. CASE WriteTag
    <3>1. UNCHANGED <<chunksDown, begun, delivered, csidState, inChunk, sender, sendSize, garbled, repeated, peerGarbled>>
      BY <2>2 DEF WriteTag, serverVars
    <3>2. DownHolds' /\ DownTyped'
      BY <2>0, <3>1, DownStays, TypedStays DEF DownHolds
    <3>3. UpInv'
      BY <2>0, <2>2, UpWrites
    <3> QED BY <2>0, <3>1, <3>2, <3>3 DEF ChunksInv
  <2>3. CASE ServerSends
    <3>1. UNCHANGED <<chunksUp, written, received, bytesIn, peer, peerSize, garbled, peerGarbled,
                      csidState, inChunk, delivered>>
      BY <2>3 DEF ServerSends, programVars
    <3>2. PICK c \in CSIDs, again \in BOOLEAN :
            /\ \/ ServerContinues(c, again)
               \/ \E f \in 0..3, l \in Lengths, k \in Sizes \cup {0}, e \in BOOLEAN :
                    ServerBegins(c, f, l, k, e, again)
            /\ repeated' = (repeated \/ again)
      BY <2>3 DEF ServerSends
    <3>3. DownTyped' /\ (DownInv /\ again = FALSE => DownInv')
      <4>1. CASE ServerContinues(c, again)
        <5>1. DownTyped'
          BY <2>0, <3>1, <4>1, TypedContinues
        <5>2. ASSUME DownInv, again = FALSE PROVE DownInv'
          <6>1. ServerContinues(c, FALSE)
            BY <4>1, <5>2
          <6> QED BY <3>1, <5>2, <6>1, DownContinues
        <5> QED BY <5>1, <5>2
      <4>2. CASE \E f \in 0..3, l \in Lengths, k \in Sizes \cup {0}, e \in BOOLEAN : ServerBegins(c, f, l, k, e, again)
        <5>1. PICK f \in 0..3, l \in Lengths, k \in Sizes \cup {0}, e \in BOOLEAN : ServerBegins(c, f, l, k, e, again)
          BY <4>2
        <5>2. DownTyped'
          BY <2>0, <3>1, <5>1, TypedBegins
        <5>3. ASSUME DownInv, again = FALSE PROVE DownInv'
          <6>1. ServerBegins(c, f, l, k, e, FALSE)
            BY <5>1, <5>3
          <6> QED BY <3>1, <5>3, <6>1, DownBegins
        <5> QED BY <5>2, <5>3
      <4> QED BY <3>2, <4>1, <4>2
    <3>4. DownHolds'
      BY <2>0, <3>1, <3>2, <3>3 DEF DownHolds
    <3>5. UpInv'
      BY <2>0, <3>1, UpStays
    <3> QED BY <2>0, <3>1, <3>3, <3>4, <3>5 DEF ChunksInv
  <2>4. CASE ServerReads
    <3>1. UNCHANGED <<chunksDown, begun, delivered, csidState, inChunk, sender, sendSize, garbled, repeated>>
      BY <2>4 DEF ServerReads, programVars
    <3>2. DownHolds' /\ DownTyped'
      BY <2>0, <3>1, DownStays, TypedStays DEF DownHolds
    <3> QED BY <2>0, <2>4, <3>2, UpReads DEF ChunksInv
  <2>5. CASE UNCHANGED chunksVars
    <3>1. UNCHANGED <<chunksDown, begun, delivered, csidState, inChunk, sender, sendSize, garbled, repeated,
                      peerGarbled, chunksUp, written, received, bytesIn, peer, peerSize>>
      BY <2>5 DEF chunksVars, serverVars, programVars
    <3> QED BY <2>0, <3>1, UpStays, DownStays, TypedStays DEF ChunksInv, DownHolds
  <2> QED BY <2>1, <2>2, <2>3, <2>4, <2>5 DEF ChunksNext
<1> QED BY <1>1, <1>2, PTL DEF ChunksSpec

\* What the program writes the server always takes for what it is, whole and in order; so does the
\* program what the server sends, on each chunk stream, until the server says an extended timestamp
\* again (conn.go: readMessage, sendMessage).
THEOREM ArriveWholeAndInOrder == ChunksSpec => []WholeAndInOrder
<1>1. ChunksInv => WholeAndInOrder
  <2> SUFFICES ASSUME ChunksInv PROVE WholeAndInOrder
    OBVIOUS
  <2>1. repeated \/ (~garbled /\ Intact)
    BY DEF ChunksInv, DownHolds, DownInv, IntactOf, Intact
  <2>2. OutIntact
    BY DEF ChunksInv, UpInv, ArrivedOf, OutIntact
  <2> QED BY <2>1, <2>2 DEF WholeAndInOrder
<1>2. ChunksSpec => []ChunksInv
  BY ChunksInvHolds
<1> QED BY <1>1, <1>2, PTL

=============================================================================
