---------------------------- MODULE ContainerProofs ----------------------------
(***************************************************************************)
(* Proofs about ProgramContainer, with the bindings it parses, and about   *)
(* Metadata.                                                               *)
(***************************************************************************)
EXTENDS ProgramContainer, Metadata, NumberingProofs, SequenceTheorems

-----------------------------------------------------------------------------
(* ProgramContainer: where things are written.                             *)

\* Aligning never moves a place back.
LEMMA AlignedIsLater ==
  ASSUME NEW x \in Nat, NEW align \in {1, 8}
  PROVE  alignTo(x, align) \in Nat /\ alignTo(x, align) >= x
<1>1. CASE align = 1
  BY <1>1 DEF alignTo
<1>2. CASE align = 8
  BY <1>2 DEF alignTo
<1>. QED
  BY <1>1, <1>2

\* The places that writeElement finds for the first m parts.
PlacesFor(at, m, start, lens, align) ==
  at = [i \in 1..m |-> IF i = 1 THEN start ELSE alignTo(at[i - 1] + lens[i - 1], align)]

\* There are such places for any list of parts: writeElement is a function.
LEMMA PlacesExist ==
  ASSUME NEW start \in Nat, NEW lens \in Seq(Nat), NEW align \in {1, 8}
  PROVE  \E at \in [1..(Len(lens) + 1) -> Nat] : PlacesFor(at, Len(lens) + 1, start, lens, align)
<1>. DEFINE n == Len(lens)
            Found(m) == \E at \in [1..m -> Nat] : PlacesFor(at, m, start, lens, align)
            T == {m \in Nat : m >= 1 /\ m <= n + 1 /\ ~Found(m)}
<1>1. n \in Nat /\ \A i \in 1..n : lens[i] \in Nat
  OBVIOUS
<1>2. Found(1)
  <2>1. [i \in 1..1 |-> start] \in [1..1 -> Nat]
    OBVIOUS
  <2>2. PlacesFor([i \in 1..1 |-> start], 1, start, lens, align)
    BY DEF PlacesFor
  <2>. QED
    BY <2>1, <2>2
<1>3. ASSUME NEW m \in Nat, m >= 1, m <= n, Found(m) PROVE Found(m + 1)
  <2>1. PICK at \in [1..m -> Nat] : PlacesFor(at, m, start, lens, align)
    BY <1>3
  <2>. DEFINE last == alignTo(at[m] + lens[m], align)
              more == [i \in 1..(m + 1) |-> IF i <= m THEN at[i] ELSE last]
  <2>2. at[m] + lens[m] \in Nat
    <3>1. m \in 1..m /\ m \in 1..n
      BY <1>3, <1>1
    <3>. QED
      BY <3>1, <1>1
  <2>3. last \in Nat
    BY <2>2, AlignedIsLater
  <2>. HIDE DEF last
  <2>4. more \in [1..(m + 1) -> Nat]
    BY <2>3
  <2>5. \A i \in 1..m : at[i] = IF i = 1 THEN start ELSE alignTo(at[i - 1] + lens[i - 1], align)
    BY <2>1, Zenon DEF PlacesFor
  <2>6. ASSUME NEW i \in 1..(m + 1)
        PROVE  more[i] = IF i = 1 THEN start ELSE alignTo(more[i - 1] + lens[i - 1], align)
    <3>1. CASE i <= m
      <4>1. i \in 1..m /\ more[i] = at[i]
        BY <3>1
      <4>2. i # 1 => more[i - 1] = at[i - 1]
        BY <3>1
      <4>. QED
        BY <2>5, <4>1, <4>2
    <3>2. CASE i = m + 1
      <4>1. i # 1 /\ more[i] = last /\ i - 1 = m /\ more[m] = at[m]
        BY <3>2, <1>3
      <4>. QED
        BY <4>1 DEF last
    <3>. QED
      BY <3>1, <3>2
  <2>7. PlacesFor(more, m + 1, start, lens, align)
    <3>1. more = [i \in 1..(m + 1) |-> more[i]]
      OBVIOUS
    <3>. HIDE DEF more
    <3>. QED
      BY <3>1, <2>6 DEF PlacesFor
  <2>. HIDE DEF more
  <2>. QED
    BY <2>4, <2>7
<1>4. T = {}
  <2>. SUFFICES ASSUME T # {} PROVE FALSE
    OBVIOUS
  <2>. HIDE DEF Found
  <2>1. T \in SUBSET Nat
    OBVIOUS
  <2>2. PICK m \in T : \A k \in T : m <= k
    <3>. HIDE DEF T
    <3>. QED
      BY <2>1, LeastNumber
  <2>3. m \in Nat /\ m >= 1 /\ m <= n + 1 /\ ~Found(m)
    OBVIOUS
  <2>4. m # 1
    BY <1>2, <2>3
  <2>5. m - 1 \in Nat /\ m - 1 >= 1 /\ m - 1 <= n /\ m - 1 <= n + 1
    BY <2>3, <2>4, <1>1
  <2>6. m - 1 \notin T
    <3>. HIDE DEF T
    <3>. QED
      BY <2>2, <2>3
  <2>7. Found(m - 1)
    BY <2>5, <2>6
  <2>8. Found((m - 1) + 1)
    BY <1>3, <2>5, <2>7
  <2>. QED
    BY <2>3, <2>8
<1>. QED
  <2>1. n + 1 \in Nat /\ n + 1 >= 1 /\ n + 1 <= n + 1
    BY <1>1
  <2>. HIDE DEF Found
  <2>2. Found(n + 1)
    BY <1>4, <2>1
  <2>. QED
    BY <2>2 DEF Found

\* Of three parts in turn the last is behind the first.
LEMMA Onward ==
  ASSUME NEW a \in Nat, NEW b \in Nat, NEW c \in Nat, NEW x \in Nat, NEW y \in Nat,
         a + x <= b, b + y <= c
  PROVE  a + x <= c
OBVIOUS

\* Each part is behind the one before it.
InTurn(at, lens, n) == \A i \in 1..n : at[i] + lens[i] <= at[i + 1]

\* Then it is behind all before it.
LEMMA Behind ==
  ASSUME NEW n \in Nat, NEW at \in [1..(n + 1) -> Nat], NEW lens \in [1..n -> Nat],
         InTurn(at, lens, n), NEW i \in 1..n, NEW j \in 1..(n + 1), i < j
  PROVE  at[i] + lens[i] <= at[j]
<1>. DEFINE U == {k \in Nat : k > i /\ k <= n + 1 /\ ~(at[i] + lens[i] <= at[k])}
<1>. SUFFICES ASSUME j \in U PROVE FALSE
  OBVIOUS
<1>1. U \in SUBSET Nat /\ U # {}
  OBVIOUS
<1>. HIDE DEF U
<1>2. PICK m \in U : \A k \in U : m <= k
  BY <1>1, LeastNumber
<1>3. m \in Nat /\ m > i /\ m <= n + 1 /\ ~(at[i] + lens[i] <= at[m])
  BY DEF U
<1>4. m # i + 1
  BY <1>3 DEF InTurn
<1>5. m - 1 \in Nat /\ m - 1 > i /\ m - 1 <= n /\ m - 1 \in 1..n /\ (m - 1) + 1 = m
  BY <1>3, <1>4
<1>6. m - 1 \notin U
  BY <1>2, <1>3, <1>5
<1>7. at[i] + lens[i] <= at[m - 1]
  BY <1>5, <1>6 DEF U
<1>8. at[m - 1] + lens[m - 1] <= at[m]
  BY <1>5 DEF InTurn
<1>9. at[m - 1] \in Nat /\ lens[m - 1] \in Nat /\ at[m] \in Nat /\ at[i] \in Nat /\ lens[i] \in Nat
  BY <1>3, <1>5, SMTT(20)
<1>10. \A b, y \in Nat : at[i] + lens[i] <= b /\ b + y <= at[m] => at[i] + lens[i] <= at[m]
  BY <1>9, Onward
<1>. QED
  BY <1>3, <1>7, <1>8, <1>9, <1>10, Zenon

\* Each part is written behind those before it.
LEMMA WrittenApart ==
  ASSUME NEW start \in Nat, NEW lens \in Seq(Nat), NEW align \in {1, 8}
  PROVE  LET at == writeElement(start, lens, align) IN
         /\ at \in [1..(Len(lens) + 1) -> Nat]
         /\ \A i \in 1..(Len(lens) + 1) : start <= at[i]
         /\ \A i, j \in 1..(Len(lens) + 1) : i < j => at[i] + lens[i] <= at[j]
<1>. DEFINE n == Len(lens)
            at == writeElement(start, lens, align)
<1>1. n \in Nat /\ \A i \in 1..n : lens[i] \in Nat
  OBVIOUS
<1>2. at = CHOOSE f : PlacesFor(f, n + 1, start, lens, align)
  BY DEF writeElement, PlacesFor
<1>. HIDE DEF at
<1>3. PlacesFor(at, n + 1, start, lens, align)
  BY <1>2, PlacesExist
<1>4. PICK p \in [1..(n + 1) -> Nat] : PlacesFor(p, n + 1, start, lens, align)
  BY PlacesExist
<1>. DEFINE T == {i \in Nat : i >= 1 /\ i <= n + 1 /\ ~(at[i] \in Nat /\ at[i] >= start)}
<1>5. \A i \in 1..(n + 1) : at[i] = IF i = 1 THEN start ELSE alignTo(at[i - 1] + lens[i - 1], align)
  BY <1>3, Zenon DEF PlacesFor
<1>6. ASSUME NEW i \in 1..n, at[i] \in Nat
      PROVE  at[i + 1] \in Nat /\ at[i] + lens[i] <= at[i + 1]
  <2>1. i + 1 \in 1..(n + 1) /\ i + 1 # 1 /\ (i + 1) - 1 = i
    BY <1>1
  <2>2. at[i + 1] = alignTo(at[i] + lens[i], align)
    BY <1>5, <2>1
  <2>3. at[i] + lens[i] \in Nat
    BY <1>1, <1>6
  <2>. QED
    BY <2>2, <2>3, AlignedIsLater
<1>7. T = {}
  <2>. SUFFICES ASSUME T # {} PROVE FALSE
    OBVIOUS
  <2>1. T \in SUBSET Nat
    OBVIOUS
  <2>2. PICK m \in T : \A k \in T : m <= k
    <3>. HIDE DEF T
    <3>. QED
      BY <2>1, LeastNumber
  <2>3. m \in Nat /\ m >= 1 /\ m <= n + 1 /\ ~(at[m] \in Nat /\ at[m] >= start)
    OBVIOUS
  <2>4. m # 1
    <3>1. 1 \in 1..(n + 1)
      BY <1>1
    <3>2. at[1] = start
      BY <1>5, <3>1
    <3>. QED
      BY <2>3, <3>2
  <2>5. m - 1 \in Nat /\ m - 1 >= 1 /\ m - 1 <= n
    BY <2>3, <2>4, <1>1
  <2>6. m - 1 \notin T
    <3>. HIDE DEF T
    <3>. QED
      BY <2>2, <2>3
  <2>7. at[m - 1] \in Nat /\ at[m - 1] >= start
    BY <2>5, <2>6, <1>1
  <2>8. m - 1 \in 1..n /\ (m - 1) + 1 = m
    BY <2>5, <2>3, <1>1
  <2>9. at[m] \in Nat /\ at[m - 1] + lens[m - 1] <= at[m]
    BY <1>6, <2>7, <2>8
  <2>. QED
    BY <2>3, <2>7, <2>8, <2>9, <1>1, SMTT(20)
<1>8. \A i \in 1..(n + 1) : at[i] \in Nat /\ at[i] >= start
  BY <1>7, <1>1
<1>9. at \in [1..(n + 1) -> Nat]
  <2>1. at = [i \in 1..(n + 1) |-> at[i]]
    BY <1>3, Zenon DEF PlacesFor
  <2>. QED
    BY <2>1, <1>8
<1>10. \A i \in 1..n : at[i] + lens[i] <= at[i + 1]
  BY <1>6, <1>8, <1>1
<1>11. \A i \in 1..n : \A j \in 1..(n + 1) : i < j => at[i] + lens[i] <= at[j]
  <2>1. lens \in [1..n -> Nat]
    OBVIOUS
  <2>. HIDE DEF n
  <2>. QED
    BY <1>1, <1>9, <1>10, <2>1, Behind DEF InTurn
<1>. QED
  <2>1. \A i \in 1..(n + 1) : start <= at[i]
    BY <1>8
  <2>2. \A i, j \in 1..(n + 1) : i < j => at[i] + lens[i] <= at[j]
    BY <1>11, <1>1
  <2>. QED
    BY <1>9, <2>1, <2>2 DEF at

\* Rows of a table.
Rows == [name : Nat, start : Nat, size : Nat, offset : Nat]

\* The layout of segments with names: every part has room of its own behind the
\* header.
LEMMA LaidOut ==
  ASSUME NEW H, NEW segs \in Seq(Rows), NEW align \in {1, 8},
         \A i \in 1..Len(segs) : NameAt(H, segs[i].name) \in DOMAIN SegmentName
  PROVE  LET L == Layout(H, segs, align)
             n == Len(segs)
         IN /\ L.size \in Nat /\ L.names \in [1..n -> Nat] /\ L.starts \in [1..n -> Nat]
            /\ \A i \in 1..n : L.names[i] > 0 /\ L.names[i] < L.size
            /\ \A i, j \in 1..n : i < j => L.names[i] < L.names[j]
            /\ \A i \in 1..n : L.starts[i] > 0 /\ L.starts[i] + segs[i].size <= L.size
            /\ \A i, j \in 1..n : i < j => L.starts[i] + segs[i].size <= L.starts[j]
<1>. DEFINE n == Len(segs)
            header == SizeofQAicQpc + n * SizeofQpcSegment
            nb == [i \in 1..n |-> SegmentName[NameAt(H, segs[i].name)]]
            sb == [i \in 1..n |-> segs[i].size]
            names == writeElement(header, nb, align)
            starts == writeElement(names[n + 1], sb, align)
            L == Layout(H, segs, align)
<1>1. n \in Nat /\ \A i \in 1..n : segs[i].size \in Nat
  <2>1. \A i \in 1..n : segs[i] \in Rows
    OBVIOUS
  <2>. QED
    BY <2>1, SMTT(20) DEF Rows
<1>2. \A x \in DOMAIN SegmentName : SegmentName[x] \in Nat /\ SegmentName[x] > 0
  BY DEF SegmentName
<1>3. nb \in Seq(Nat) /\ Len(nb) = n /\ \A i \in 1..n : nb[i] > 0 /\ nb[i] \in Nat
  BY <1>1, <1>2
<1>4. sb \in Seq(Nat) /\ Len(sb) = n /\ \A i \in 1..n : sb[i] = segs[i].size
  BY <1>1
<1>5. header \in Nat /\ header > 0
  BY <1>1 DEF SizeofQAicQpc, SizeofQpcSegment
<1>6. L = [names |-> [i \in 1..n |-> names[i]], starts |-> [i \in 1..n |-> starts[i]],
           size |-> starts[n + 1]]
  BY DEF Layout
<1>. HIDE DEF n, header, nb, sb, L
<1>7. /\ names \in [1..(n + 1) -> Nat]
      /\ \A i \in 1..(n + 1) : header <= names[i]
      /\ \A i, j \in 1..(n + 1) : i < j => names[i] + nb[i] <= names[j]
  BY <1>3, <1>5, WrittenApart
<1>. HIDE DEF names
<1>8. n + 1 \in 1..(n + 1) /\ names[n + 1] \in Nat
  BY <1>1, <1>7
<1>9. /\ starts \in [1..(n + 1) -> Nat]
      /\ \A i \in 1..(n + 1) : names[n + 1] <= starts[i]
      /\ \A i, j \in 1..(n + 1) : i < j => starts[i] + sb[i] <= starts[j]
  BY <1>4, <1>8, WrittenApart
<1>. HIDE DEF starts
<1>10. L.size = starts[n + 1] /\ \A i \in 1..n : L.names[i] = names[i] /\ L.starts[i] = starts[i]
  BY <1>6
<1>11. L.size \in Nat /\ L.names \in [1..n -> Nat] /\ L.starts \in [1..n -> Nat]
  BY <1>6, <1>7, <1>8, <1>9, <1>1
<1>12. ASSUME NEW i \in 1..n
       PROVE  L.names[i] > 0 /\ L.names[i] < L.size /\ L.starts[i] > 0 /\ L.starts[i] + segs[i].size <= L.size
  <2>1. i \in 1..(n + 1) /\ i < n + 1
    BY <1>1
  <2>2. names[i] \in Nat /\ starts[i] \in Nat /\ starts[n + 1] \in Nat /\ nb[i] \in Nat /\ nb[i] > 0
    BY <2>1, <1>7, <1>8, <1>9, <1>3
  <2>3. header <= names[i] /\ names[i] + nb[i] <= names[n + 1] /\ names[n + 1] <= starts[n + 1]
    BY <2>1, <1>7, <1>8, <1>9
  <2>4. names[n + 1] <= starts[i] /\ starts[i] + sb[i] <= starts[n + 1] /\ header <= names[n + 1]
    BY <2>1, <1>7, <1>8, <1>9
  <2>5. sb[i] = segs[i].size /\ segs[i].size \in Nat
    BY <1>1, <1>4
  <2>6. L.size = starts[n + 1] /\ L.names[i] = names[i] /\ L.starts[i] = starts[i]
    BY <1>10
  <2>7. names[i] > 0 /\ names[i] < starts[n + 1]
    BY <2>2, <2>3, <1>5, <1>8
  <2>8. starts[i] > 0 /\ starts[i] + segs[i].size <= starts[n + 1]
    BY <2>2, <2>4, <2>5, <1>5, <1>8
  <2>. QED
    BY <2>6, <2>7, <2>8
<1>13. ASSUME NEW i \in 1..n, NEW j \in 1..n, i < j
       PROVE  L.names[i] < L.names[j] /\ L.starts[i] + segs[i].size <= L.starts[j]
  <2>1. i \in 1..(n + 1) /\ j \in 1..(n + 1)
    BY <1>1
  <2>2. names[i] \in Nat /\ names[j] \in Nat /\ nb[i] \in Nat /\ nb[i] > 0
    BY <2>1, <1>7, <1>3
  <2>3. names[i] + nb[i] <= names[j] /\ starts[i] + sb[i] <= starts[j]
    BY <2>1, <1>7, <1>9, <1>13
  <2>4. names[i] < names[j]
    BY <2>2, <2>3
  <2>5. sb[i] = segs[i].size
    BY <1>4
  <2>. QED
    BY <2>3, <2>4, <2>5, <1>10
<1>. QED
  BY <1>11, <1>12, <1>13 DEF L, n

-----------------------------------------------------------------------------
(* ProgramContainer: what pointers read.                                   *)

\* Allocations lie in their places.
Laid(H) == DOMAIN H \subseteq Places /\ \A b \in DOMAIN H : Sound(H[b])

\* A string is read where it was written.
LEMMA NameRead ==
  ASSUME NEW H, Laid(H), NEW b \in DOMAIN H, NEW p \in Int, p - b \in DOMAIN H[b].names
  PROVE  NameAt(H, p) = H[b].names[p - b]
<1>. DEFINE hits == {c \in DOMAIN H : p - c \in DOMAIN H[c].names}
<1>1. \A c \in DOMAIN H : c \in Places /\ c \in Nat /\ DOMAIN H[c].names \subseteq 0..(Room - 1)
  BY RoomAssumption DEF Laid, Sound
<1>2. ASSUME NEW c \in hits PROVE c = b
  <2>1. p - c \in 0..(Room - 1) /\ p - b \in 0..(Room - 1) /\ c \in Nat /\ b \in Nat
    BY <1>1
  <2>2. c \in Places /\ b \in Places
    BY <1>1
  <2>3. (c < b => c + Room <= b) /\ (b < c => b + Room <= c)
    BY <2>2, RoomAssumption
  <2>. QED
    BY <2>1, <2>3, RoomAssumption
<1>3. b \in hits
  OBVIOUS
<1>4. NameAt(H, p) = IF hits = {} THEN Wild ELSE H[CHOOSE c \in hits : TRUE].names[p - CHOOSE c \in hits : TRUE]
  BY DEF NameAt
<1>. HIDE DEF hits
<1>5. (CHOOSE c \in hits : TRUE) = b
  BY <1>2, <1>3
<1>. QED
  BY <1>3, <1>4, <1>5

\* Data are read where they were written.
LEMMA DataRead ==
  ASSUME NEW H, Laid(H), NEW b \in DOMAIN H, NEW o \in DOMAIN H[b].bodies,
         NEW p \in Int, NEW n \in Nat, n > 0, b + o <= p, p + n <= b + o + H[b].bodies[o].len
  PROVE  DataAt(H, p, n) = Slice(H[b].bodies[o].of, p - b - o, n)
<1>. DEFINE Holding(c, u) == c + u <= p /\ p + n <= c + u + H[c].bodies[u].len
            hits == {c \in DOMAIN H : \E u \in DOMAIN H[c].bodies : Holding(c, u)}
            bb == CHOOSE c \in hits : TRUE
            oo == CHOOSE u \in DOMAIN H[bb].bodies : Holding(bb, u)
            s == H[bb].bodies[oo]
<1>1. ASSUME NEW c \in DOMAIN H
      PROVE  /\ c \in Places /\ c \in Nat
             /\ \A u \in DOMAIN H[c].bodies :
                  /\ u \in Nat /\ H[c].bodies[u].len \in Nat /\ u + H[c].bodies[u].len <= Room
                  /\ H[c].bodies[u] = Slice(H[c].bodies[u].of, 0, H[c].bodies[u].len)
             /\ \A u, v \in DOMAIN H[c].bodies : u < v => u + H[c].bodies[u].len <= v
  BY RoomAssumption DEF Laid, Sound
<1>2. ASSUME NEW c \in DOMAIN H, NEW u \in DOMAIN H[c].bodies, Holding(c, u) PROVE c = b
  <2>1. c \in Nat /\ b \in Nat /\ u \in Nat /\ o \in Nat
    BY <1>1
  <2>2. H[c].bodies[u].len \in Nat /\ H[b].bodies[o].len \in Nat
    BY <1>1
  <2>3. u + H[c].bodies[u].len <= Room /\ o + H[b].bodies[o].len <= Room
    BY <1>1
  <2>4. (c < b => c + Room <= b) /\ (b < c => b + Room <= c)
    BY <1>1, RoomAssumption
  <2>. QED
    BY <1>2, <2>1, <2>2, <2>3, <2>4, RoomAssumption
<1>3. ASSUME NEW u \in DOMAIN H[b].bodies, Holding(b, u) PROVE u = o
  <2>1. b \in Nat /\ u \in Nat /\ o \in Nat /\ H[b].bodies[u].len \in Nat /\ H[b].bodies[o].len \in Nat
    BY <1>1
  <2>2. (u < o => u + H[b].bodies[u].len <= o) /\ (o < u => o + H[b].bodies[o].len <= u)
    BY <1>1
  <2>. QED
    BY <1>3, <2>1, <2>2
<1>4. Holding(b, o) /\ b \in hits
  OBVIOUS
<1>5. DataAt(H, p, n) = IF hits = {} THEN NoData ELSE Slice(s.of, s.from + (p - bb - oo), n)
  BY DEF DataAt
<1>6. bb = b
  <2>1. \A c \in hits : c = b
    BY <1>2
  <2>. HIDE DEF hits
  <2>. QED
    BY <2>1, <1>4
<1>7. oo = o
  <2>. HIDE DEF bb, Holding
  <2>. QED
    BY <1>3, <1>4, <1>6
<1>8. s = Slice(s.of, 0, s.len) /\ s = H[b].bodies[o]
  <2>. HIDE DEF bb, oo
  <2>. QED
    BY <1>6, <1>7, <1>1
<1>9. s.from = 0
  <2>. HIDE DEF s
  <2>. QED
    BY <1>8 DEF Slice
<1>. HIDE DEF bb, oo, hits, s
<1>10. b \in Nat /\ o \in Nat
  BY <1>1
<1>11. s.from + (p - bb - oo) = p - b - o
  BY <1>6, <1>7, <1>9, <1>10
<1>. QED
  BY <1>4, <1>5, <1>8, <1>11

-----------------------------------------------------------------------------
(* ProgramContainer: the first of a list that is asked for.                *)

\* The section of a name that a search finds is the first of that name.
LEMMA FirstSection ==
  ASSUME NEW sections, Len(sections) \in Nat, NEW name
  PROVE  LET i == SectionIndex(sections, name) IN
         /\ i = 0 <=> \A k \in 1..Len(sections) : sections[k].name # name
         /\ i # 0 => /\ i \in 1..Len(sections) /\ sections[i].name = name
                     /\ \A k \in 1..Len(sections) : sections[k].name = name => i <= k
<1>. DEFINE I == {k \in 1..Len(sections) : sections[k].name = name}
            i == SectionIndex(sections, name)
<1>1. i = IF I # {} THEN CHOOSE x \in I : \A y \in I : x <= y ELSE 0
  BY DEF SectionIndex, SelectInSeq, Min
<1>2. I \in SUBSET Nat
  OBVIOUS
<1>3. I # {} => i \in I /\ \A y \in I : i <= y
  <2>. HIDE DEF I, i
  <2>. QED
    BY <1>1, <1>2, LeastNumber
<1>4. 0 \notin I
  OBVIOUS
<1>5. i = 0 <=> I = {}
  <2>. HIDE DEF I, i
  <2>. QED
    BY <1>1, <1>3, <1>4
<1>. HIDE DEF i
<1>. QED
  BY <1>3, <1>5 DEF i

\* So is the row of a table.
LEMMA FirstRow ==
  ASSUME NEW H, NEW table, Len(table) \in Nat, NEW name
  PROVE  LET i == SegmentIndex(H, table, name) IN
         /\ i = 0 <=> \A k \in 1..Len(table) : NameAt(H, table[k].name) # name
         /\ i # 0 => i \in 1..Len(table) /\ NameAt(H, table[i].name) = name
<1>. DEFINE I == {k \in 1..Len(table) : NameAt(H, table[k].name) = name}
            i == SegmentIndex(H, table, name)
<1>1. i = IF I # {} THEN CHOOSE x \in I : \A y \in I : x <= y ELSE 0
  BY DEF SegmentIndex, SelectInSeq, Min
<1>2. I \in SUBSET Nat
  OBVIOUS
<1>3. I # {} => i \in I
  <2>. HIDE DEF I, i
  <2>. QED
    BY <1>1, <1>2, LeastNumber
<1>4. 0 \notin I
  OBVIOUS
<1>5. i = 0 <=> I = {}
  <2>. HIDE DEF I, i
  <2>. QED
    BY <1>1, <1>3, <1>4
<1>. HIDE DEF i
<1>. QED
  BY <1>3, <1>5 DEF i

\* What is found depends on the names only.
LEMMA SameRow ==
  ASSUME NEW H, NEW G, NEW table, NEW name,
         \A k \in 1..Len(table) : NameAt(G, table[k].name) = NameAt(H, table[k].name)
  PROVE  SegmentIndex(G, table, name) = SegmentIndex(H, table, name)
<1>1. {k \in 1..Len(table) : NameAt(G, table[k].name) = name}
      = {k \in 1..Len(table) : NameAt(H, table[k].name) = name}
  OBVIOUS
<1>. QED
  BY <1>1 DEF SegmentIndex, SelectInSeq

-----------------------------------------------------------------------------
(* ProgramContainer: converted sections.                                   *)

\* Lists with the same names are searched with the same result.
LEMMA SameNames ==
  ASSUME NEW s, NEW t, Len(s) = Len(t), \A k \in 1..Len(s) : s[k].name = t[k].name, NEW name
  PROVE  SectionIndex(s, name) = SectionIndex(t, name)
<1>1. {k \in 1..Len(s) : s[k].name = name} = {k \in 1..Len(t) : t[k].name = name}
  OBVIOUS
<1>. QED
  BY <1>1 DEF SectionIndex, SelectInSeq

\* What ConvertNetworkElfSection does to the sections of an ELF.
Convert(s) == convertNetworkElfSection(s, Metadata, MetadataFb, Conv)

\* A sequence is the function of its indices.
LEMMA IsList ==
  ASSUME NEW R, NEW s \in Seq(R)
  PROVE  /\ Len(s) \in Nat /\ DOMAIN s = 1..Len(s) /\ s = [k \in 1..Len(s) |-> s[k]]
         /\ \A k \in 1..Len(s) : s[k] \in R
  OBVIOUS

\* Name and data of a section replaced.
LEMMA RecordIs ==
  ASSUME NEW r, NEW x, NEW y, r = [name |-> x, data |-> y], NEW u, NEW v
  PROVE  [r EXCEPT !.name = u, !.data = v] = [name |-> u, data |-> v]
<1>1. [r EXCEPT !.name = u] = [name |-> u, data |-> y]
  OBVIOUS
<1>2. [[name |-> u, data |-> y] EXCEPT !.data = v] = [name |-> u, data |-> v]
  OBVIOUS
<1>. QED
  BY <1>1, <1>2, Zenon

\* Part of a sequence, as a function.
LEMMA PartIs ==
  ASSUME NEW s, NEW m \in Int, NEW n \in Int
  PROVE  SubSeq(s, m, n) = [k \in 1..(n - m + 1) |-> s[m + k - 1]]
<1>. DEFINE S == {s[i] : i \in m..n}
            p == SubSeq(s, m, n)
<1>1. \A i \in m..n : s[i] \in S
  OBVIOUS
<1>. HIDE DEF S
<1>2. /\ p \in Seq(S)
      /\ Len(p) = IF m <= n THEN n - m + 1 ELSE 0
      /\ \A i \in 1..(n - m + 1) : p[i] = s[m + i - 1]
  BY <1>1, SubSeqProperties
<1>. HIDE DEF p
<1>3. 1..Len(p) = 1..(n - m + 1)
  BY <1>2
<1>4. p = [k \in 1..Len(p) |-> p[k]]
  BY <1>2
<1>. QED
  BY <1>2, <1>3, <1>4 DEF p

\* A function of 1..n into S is a sequence.
LEMMA ListIs ==
  ASSUME NEW R, NEW n \in Nat, NEW s, s = [k \in 1..n |-> s[k]], \A k \in 1..n : s[k] \in R
  PROVE  s \in Seq(R) /\ Len(s) = n
  OBVIOUS

\* c is s with other data in its converted section, or with that section right
\* behind its source.
Replaced(s, c, src, dst) ==
  /\ Len(c) = Len(s) /\ c = [k \in 1..Len(s) |-> c[k]]
  /\ \A k \in 1..Len(s) : k # dst => c[k] = s[k]
  /\ c[dst] = [name |-> MetadataFb, data |-> Conv[s[src].data]]
  /\ SectionIndex(c, Metadata) = src /\ SectionIndex(c, MetadataFb) = dst
  /\ src # dst /\ src \in 1..Len(s) /\ dst \in 1..Len(s)

\* The sections c with that of the flatbuffer behind the one at src.
Inserted(s, c, src) ==
  /\ src \in 1..Len(s)
  /\ Len(c) = Len(s) + 1 /\ c = [k \in 1..(Len(s) + 1) |-> c[k]]
  /\ \A k \in 1..src : c[k] = s[k]
  /\ c[src + 1] = [name |-> MetadataFb, data |-> Conv[s[src].data]]
  /\ \A k \in (src + 2)..(Len(s) + 1) : c[k] = s[k - 1]
  /\ SectionIndex(c, Metadata) = src /\ SectionIndex(c, MetadataFb) = src + 1

\* A section that is there gets new data.
LEMMA ConvertInPlace ==
  ASSUME NEW N, NEW D, NEW s \in Seq([name : N, data : D]),
         SectionIndex(s, Metadata) # 0, SectionIndex(s, MetadataFb) # 0
  PROVE  Replaced(s, Convert(s), SectionIndex(s, Metadata), SectionIndex(s, MetadataFb))
<1>. DEFINE c == Convert(s)
            src == SectionIndex(s, Metadata)
            dst == SectionIndex(s, MetadataFb)
            n == Len(s)
            d == Conv[s[src].data]
<1>1. n \in Nat /\ \A k \in 1..n : s[k] \in [name : N, data : D]
  BY IsList
<1>2. src \in 1..n /\ s[src].name = Metadata /\ dst \in 1..n /\ s[dst].name = MetadataFb
  BY <1>1, FirstSection
<1>3. src # dst
  BY <1>2 DEF Metadata, MetadataFb
<1>4. c = [s EXCEPT ![dst] = [@ EXCEPT !.data = d]]
  BY DEF Convert, convertNetworkElfSection
<1>. HIDE DEF c, src, dst, d
<1>5. DOMAIN s = 1..n /\ s = [k \in 1..n |-> s[k]]
  BY IsList
<1>6. c = [k \in 1..n |-> IF k = dst THEN [s[dst] EXCEPT !.data = d] ELSE s[k]]
  BY <1>4, <1>5
<1>7. Len(c) = n
  BY <1>6, <1>1
<1>8. [s[dst] EXCEPT !.data = d] = [name |-> MetadataFb, data |-> d]
  <2>1. s[dst] \in [name : N, data : D]
    BY <1>1, <1>2
  <2>2. s[dst] = [name |-> s[dst].name, data |-> s[dst].data]
    BY <2>1
  <2>. QED
    BY <2>2, <1>2
<1>9. \A k \in 1..n : c[k] = IF k = dst THEN [name |-> MetadataFb, data |-> d] ELSE s[k]
  BY <1>6, <1>8
<1>10. \A k \in 1..n : c[k].name = s[k].name
  BY <1>9, <1>2
<1>11. SectionIndex(c, Metadata) = src /\ SectionIndex(c, MetadataFb) = dst
  BY <1>7, <1>10, SameNames DEF src, dst
<1>12. c = [k \in 1..n |-> c[k]]
  BY <1>6
<1>13. Replaced(s, c, src, dst)
  BY <1>2, <1>3, <1>7, <1>9, <1>11, <1>12 DEF Replaced, d
<1>. QED
  BY <1>13 DEF c, src, dst

\* One that is not there comes right behind its source.
LEMMA ConvertInserts ==
  ASSUME NEW N, NEW D, NEW s \in Seq([name : N, data : D]),
         SectionIndex(s, Metadata) # 0, SectionIndex(s, MetadataFb) = 0
  PROVE  Inserted(s, Convert(s), SectionIndex(s, Metadata))
<1>. DEFINE c == Convert(s)
            src == SectionIndex(s, Metadata)
            n == Len(s)
            d == Conv[s[src].data]
<1>1. n \in Nat /\ \A k \in 1..n : s[k] \in [name : N, data : D]
  BY IsList
<1>2. src \in 1..n /\ s[src].name = Metadata /\ \A k \in 1..n : s[k].name = Metadata => src <= k
  BY <1>1, FirstSection
<1>3. \A k \in 1..n : s[k].name # MetadataFb
  BY <1>1, FirstSection
<1>4. c = [k \in 1..(n + 1) |-> IF k <= src THEN s[k]
                                ELSE IF k = src + 1 THEN [s[src] EXCEPT !.name = MetadataFb, !.data = d]
                                ELSE s[k - 1]]
  BY DEF Convert, convertNetworkElfSection
<1>. HIDE DEF c, src, d
<1>5. [s[src] EXCEPT !.name = MetadataFb, !.data = d] = [name |-> MetadataFb, data |-> d]
  <2>1. s[src] \in [name : N, data : D]
    BY <1>1, <1>2
  <2>2. s[src] = [name |-> s[src].name, data |-> s[src].data]
    BY <2>1
  <2>. QED
    BY <2>2, RecordIs
<1>6. Len(c) = n + 1 /\ c = [k \in 1..(n + 1) |-> c[k]]
  BY <1>4, <1>1
<1>7. \A k \in 1..(n + 1) : c[k] = IF k <= src THEN s[k]
                                   ELSE IF k = src + 1 THEN [name |-> MetadataFb, data |-> d] ELSE s[k - 1]
  BY <1>4, <1>5
<1>8. \A k \in 1..src : c[k] = s[k]
  BY <1>7, <1>2, <1>1
<1>9. c[src + 1] = [name |-> MetadataFb, data |-> d]
  BY <1>7, <1>2, <1>1
<1>10. \A k \in (src + 2)..(n + 1) : c[k] = s[k - 1]
  BY <1>7, <1>2, <1>1
<1>11. SectionIndex(c, Metadata) = src
  <2>0. src \in 1..src
    BY <1>2, <1>1
  <2>1a. src \in 1..Len(c)
    BY <1>2, <1>6, <1>1
  <2>1b. c[src] = s[src]
    BY <2>0, <1>8
  <2>1. src \in 1..Len(c) /\ c[src].name = Metadata
    BY <2>1a, <2>1b, <1>2
  <2>2. ASSUME NEW k \in 1..Len(c), c[k].name = Metadata PROVE src <= k
    <3>1. CASE k <= src
      <4>1. k \in 1..n /\ c[k] = s[k]
        BY <3>1, <1>2, <1>8
      <4>. QED
        BY <4>1, <1>2, <2>2
    <3>. QED
      BY <3>1, <1>2
  <2>3. SectionIndex(c, Metadata) # 0
    BY <2>1, <1>6, <1>1, FirstSection
  <2>4. SectionIndex(c, Metadata) \in 1..Len(c) /\ c[SectionIndex(c, Metadata)].name = Metadata
        /\ SectionIndex(c, Metadata) <= src
    BY <2>1, <2>3, <1>6, <1>1, FirstSection
  <2>5. src <= SectionIndex(c, Metadata)
    BY <2>2, <2>4
  <2>. QED
    BY <2>4, <2>5, <1>2
<1>12. SectionIndex(c, MetadataFb) = src + 1
  <2>1. src + 1 \in 1..Len(c) /\ c[src + 1].name = MetadataFb
    BY <1>2, <1>6, <1>9, <1>1
  <2>2. ASSUME NEW k \in 1..Len(c), c[k].name = MetadataFb PROVE src + 1 <= k
    <3>1. CASE k <= src
      <4>1. k \in 1..n /\ c[k] = s[k]
        BY <3>1, <1>2, <1>8
      <4>. QED
        BY <4>1, <1>3, <2>2
    <3>. QED
      BY <3>1, <1>2
  <2>3. SectionIndex(c, MetadataFb) # 0
    BY <2>1, <1>6, <1>1, FirstSection
  <2>4. SectionIndex(c, MetadataFb) \in 1..Len(c) /\ c[SectionIndex(c, MetadataFb)].name = MetadataFb
        /\ SectionIndex(c, MetadataFb) <= src + 1
    BY <2>1, <2>3, <1>6, <1>1, FirstSection
  <2>5. src + 1 <= SectionIndex(c, MetadataFb)
    BY <2>2, <2>4
  <2>. QED
    BY <2>4, <2>5, <1>2
<1>13. Inserted(s, c, src)
  BY <1>2, <1>6, <1>8, <1>9, <1>10, <1>11, <1>12 DEF Inserted, d
<1>. QED
  BY <1>13 DEF c, src

\* To convert again changes nothing.
LEMMA ConvertTwice ==
  ASSUME NEW N, NEW D, NEW s \in Seq([name : N, data : D]), SectionIndex(s, Metadata) # 0
  PROVE  Convert(Convert(s)) = Convert(s) /\ SectionIndex(Convert(s), Metadata) # 0
<1>. DEFINE c == Convert(s)
            src == SectionIndex(s, Metadata)
            d == Conv[s[src].data]
            NN == N \cup {MetadataFb}
            DD == D \cup {d}
<1>1. PICK dst : /\ dst \in 1..Len(c) /\ dst # src /\ Len(c) \in Nat
                 /\ c = [k \in 1..Len(c) |-> c[k]]
                 /\ \A k \in 1..Len(c) : k # dst => c[k] \in [name : N, data : D]
                 /\ c[dst] = [name |-> MetadataFb, data |-> d] /\ c[src] = s[src]
                 /\ SectionIndex(c, Metadata) = src /\ SectionIndex(c, MetadataFb) = dst
                 /\ src \in 1..Len(c)
  <2>0. Len(s) \in Nat /\ \A k \in 1..Len(s) : s[k] \in [name : N, data : D]
    BY IsList
  <2>1. CASE SectionIndex(s, MetadataFb) # 0
    <3>. DEFINE dst == SectionIndex(s, MetadataFb)
    <3>1. /\ Len(c) = Len(s) /\ c = [k \in 1..Len(s) |-> c[k]]
          /\ \A k \in 1..Len(s) : k # dst => c[k] = s[k]
          /\ c[dst] = [name |-> MetadataFb, data |-> d]
          /\ SectionIndex(c, Metadata) = src /\ SectionIndex(c, MetadataFb) = dst
          /\ src # dst /\ src \in 1..Len(s) /\ dst \in 1..Len(s)
      BY <2>1, ConvertInPlace DEF Replaced
    <3>. HIDE DEF c, src, d, dst
    <3>. QED
      BY <2>0, <3>1
  <2>2. CASE SectionIndex(s, MetadataFb) = 0
    <3>1. /\ src \in 1..Len(s)
          /\ Len(c) = Len(s) + 1 /\ c = [k \in 1..(Len(s) + 1) |-> c[k]]
          /\ \A k \in 1..src : c[k] = s[k]
          /\ c[src + 1] = [name |-> MetadataFb, data |-> d]
          /\ \A k \in (src + 2)..(Len(s) + 1) : c[k] = s[k - 1]
          /\ SectionIndex(c, Metadata) = src /\ SectionIndex(c, MetadataFb) = src + 1
      <4>1. Inserted(s, c, src)
        BY <2>2, ConvertInserts
      <4>. HIDE DEF c, src
      <4>. QED
        BY <4>1 DEF Inserted
    <3>. HIDE DEF c, src, d
    <3>2. \A k \in 1..Len(c) : k # src + 1 => c[k] \in [name : N, data : D]
      <4>. SUFFICES ASSUME NEW k \in 1..Len(c), k # src + 1 PROVE c[k] \in [name : N, data : D]
        OBVIOUS
      <4>1. CASE k <= src
        <5>1. k \in 1..src /\ k \in 1..Len(s)
          BY <4>1, <3>1, <2>0
        <5>. QED
          BY <5>1, <3>1, <2>0
      <4>2. CASE k > src
        <5>1. k \in (src + 2)..(Len(s) + 1) /\ k - 1 \in 1..Len(s)
          BY <4>2, <3>1, <2>0
        <5>. QED
          BY <5>1, <3>1, <2>0
      <4>. QED
        BY <4>1, <4>2, <3>1
    <3>3. src + 1 \in 1..Len(c) /\ src \in 1..Len(c) /\ src \in 1..src /\ src + 1 # src /\ Len(c) \in Nat
      BY <3>1, <2>0
    <3>4. c[src] = s[src]
      BY <3>1, <3>3
    <3>. QED
      BY <3>1, <3>2, <3>3, <3>4
  <2>. QED
    BY <2>1, <2>2
<1>. HIDE DEF c, d
<1>2. c \in Seq([name : NN, data : DD])
  <2>1. \A k \in 1..Len(c) : c[k] \in [name : NN, data : DD]
    BY <1>1
  <2>. HIDE DEF NN, DD
  <2>. QED
    BY <2>1, <1>1, ListIs
<1>3. src # 0
  OBVIOUS
<1>. HIDE DEF src, NN, DD
<1>4. dst # 0
  BY <1>1
<1>5. /\ Len(Convert(c)) = Len(c) /\ Convert(c) = [k \in 1..Len(c) |-> Convert(c)[k]]
      /\ \A k \in 1..Len(c) : k # dst => Convert(c)[k] = c[k]
      /\ Convert(c)[dst] = [name |-> MetadataFb, data |-> Conv[c[src].data]]
  <2>1. SectionIndex(c, Metadata) = src /\ SectionIndex(c, MetadataFb) = dst
    BY <1>1
  <2>2. Replaced(c, Convert(c), SectionIndex(c, Metadata), SectionIndex(c, MetadataFb))
    BY <1>2, <1>3, <1>4, <2>1, ConvertInPlace
  <2>. QED
    BY <2>1, <2>2 DEF Replaced
<1>6. Conv[c[src].data] = d
  BY <1>1 DEF d
<1>7. \A k \in 1..Len(c) : Convert(c)[k] = c[k]
  BY <1>1, <1>5, <1>6
<1>8. Convert(c) = c
  BY <1>1, <1>5, <1>7
<1>. QED
  BY <1>1, <1>3, <1>8 DEF c

\* Without the converted section a list is what it was.
LEMMA ConvertKeepsOrder ==
  ASSUME NEW N, NEW D, NEW s \in Seq([name : N, data : D]), SectionIndex(s, Metadata) # 0,
         SectionIndex(s, MetadataFb) # 0 => SectionIndex(s, MetadataFb) = SectionIndex(s, Metadata) + 1
  PROVE  /\ Unconverted(Convert(s)) = Unconverted(s)
         /\ SectionIndex(Convert(s), MetadataFb) = SectionIndex(Convert(s), Metadata) + 1
<1>. DEFINE c == Convert(s)
            src == SectionIndex(s, Metadata)
            dst == SectionIndex(s, MetadataFb)
            n == Len(s)
<1>1. n \in Nat /\ DOMAIN s = 1..n /\ s = [k \in 1..n |-> s[k]] /\ \A k \in 1..n : s[k] \in [name : N, data : D]
  BY IsList
<1>2. CASE dst # 0
  <2>1. /\ Len(c) = n /\ c = [k \in 1..n |-> c[k]]
        /\ \A k \in 1..n : k # dst => c[k] = s[k]
        /\ SectionIndex(c, Metadata) = src /\ SectionIndex(c, MetadataFb) = dst
        /\ dst \in 1..n
    <3>1. Replaced(s, c, src, dst)
      BY <1>2, ConvertInPlace
    <3>. HIDE DEF c, src, dst
    <3>. QED
      BY <3>1 DEF Replaced
  <2>. HIDE DEF c, src, dst
  <2>2. SubSeq(c, 1, dst - 1) = SubSeq(s, 1, dst - 1)
    <3>1. SubSeq(c, 1, dst - 1) = [k \in 1..(dst - 1 - 1 + 1) |-> c[1 + k - 1]]
      BY <2>1, PartIs
    <3>2. SubSeq(s, 1, dst - 1) = [k \in 1..(dst - 1 - 1 + 1) |-> s[1 + k - 1]]
      BY <2>1, PartIs
    <3>3. \A k \in 1..(dst - 1 - 1 + 1) : c[1 + k - 1] = s[1 + k - 1]
      BY <2>1, <1>1
    <3>. QED
      BY <3>1, <3>2, <3>3
  <2>3. SubSeq(c, dst + 1, Len(c)) = SubSeq(s, dst + 1, Len(s))
    BY <2>1, <1>1
  <2>4. RemoveAt(c, dst) = RemoveAt(s, dst)
    BY <2>2, <2>3 DEF RemoveAt
  <2>5. Unconverted(c) = RemoveAt(c, dst)
    BY <2>1 DEF Unconverted
  <2>6. Unconverted(s) = RemoveAt(s, dst)
    BY <1>2 DEF Unconverted, dst
  <2>. QED
    BY <1>2, <2>1, <2>4, <2>5, <2>6 DEF c, src, dst
<1>3. CASE dst = 0
  <2>1. /\ src \in 1..n /\ Len(c) = n + 1 /\ c = [k \in 1..(n + 1) |-> c[k]]
        /\ \A k \in 1..src : c[k] = s[k]
        /\ \A k \in (src + 2)..(n + 1) : c[k] = s[k - 1]
        /\ SectionIndex(c, Metadata) = src /\ SectionIndex(c, MetadataFb) = src + 1
    <3>1. Inserted(s, c, src)
      BY <1>3, ConvertInserts
    <3>. HIDE DEF c, src
    <3>. QED
      BY <3>1 DEF Inserted
  <2>. HIDE DEF c, src, dst
  <2>2. SubSeq(c, 1, (src + 1) - 1) = [k \in 1..src |-> s[k]]
    <3>1. SubSeq(c, 1, (src + 1) - 1) = [k \in 1..((src + 1) - 1 - 1 + 1) |-> c[1 + k - 1]]
      BY <2>1, PartIs
    <3>2. 1..((src + 1) - 1 - 1 + 1) = 1..src
      BY <2>1
    <3>3. \A k \in 1..src : c[1 + k - 1] = s[k]
      <4>. SUFFICES ASSUME NEW k \in 1..src PROVE c[1 + k - 1] = s[k]
        OBVIOUS
      <4>1. k \in Nat /\ 1 + k - 1 = k
        BY <2>1
      <4>2. c[k] = s[k]
        BY <2>1
      <4>. QED
        BY <4>1, <4>2
    <3>. QED
      BY <3>1, <3>2, <3>3
  <2>3. SubSeq(c, (src + 1) + 1, Len(c)) = [k \in 1..(n - src) |-> s[src + k]]
    <3>1. SubSeq(c, (src + 1) + 1, Len(c)) = [k \in 1..(n - src) |-> c[src + 1 + k]]
      BY <2>1, <1>1
    <3>2. \A k \in 1..(n - src) : c[src + 1 + k] = s[src + k]
      <4>. SUFFICES ASSUME NEW k \in 1..(n - src) PROVE c[src + 1 + k] = s[src + k]
        OBVIOUS
      <4>1. src + 1 + k \in (src + 2)..(n + 1) /\ (src + 1 + k) - 1 = src + k
        BY <2>1, <1>1
      <4>. QED
        BY <4>1, <2>1
    <3>. QED
      BY <3>1, <3>2
  <2>4. s = [k \in 1..src |-> s[k]] \o [k \in 1..(n - src) |-> s[src + k]]
    BY <2>1, <1>1, SMTT(20)
  <2>5. Unconverted(c) = RemoveAt(c, src + 1)
    <3>1. src + 1 # 0
      BY <2>1
    <3>. QED
      BY <2>1, <3>1 DEF Unconverted
  <2>6. Unconverted(s) = s
    BY <1>3 DEF Unconverted, dst
  <2>7. RemoveAt(c, src + 1) = s
    BY <2>2, <2>3, <2>4 DEF RemoveAt
  <2>. QED
    BY <2>1, <2>5, <2>6, <2>7 DEF c, src
<1>. QED
  BY <1>2, <1>3

-----------------------------------------------------------------------------
(* ProgramContainer: what was compiled and what may be made of it.         *)

\* Compiled, Data and Names of a container c.
SegmentOf(c, n) == c.segs[CHOOSE i \in DOMAIN c.segs : NameIn(c, c.segs[i]) = n]

\* The bytes of the segment n, as the compiler wrote them, and all names.
DataOf(c, n)    == DataIn(c, SegmentOf(c, n))
NamesOf(c)      == {NameIn(c, s) : s \in Range(c.segs)}

\* The data a segment of name n may have: the compiled, or with a section
\* converted.
Converted(d) ==
  Slice([d.of EXCEPT !.sections = Convert(d.of.sections)], 0,
        d.len + Len(Convert(d.of.sections)) - Len(d.of.sections))

\* The segment n of c has the bytes d: those of the compiler, or of its network.elf
\* with the section converted.
Form(c, n, d) ==
  \/ d = DataOf(c, n)
  \/ /\ n = "networkElf" /\ SectionIndex(DataOf(c, n).of.sections, Metadata) # 0
     /\ d = Converted(DataOf(c, n))

\* A name of the compiler has a segment.
LEMMA SegmentIs ==
  ASSUME NEW c \in Containers, NEW i \in 1..Len(c.segs)
  PROVE  LET s == c.segs[i]
             n == NameIn(c, s)
         IN /\ s \in Rows /\ n \in NamesOf(c) /\ n \in DOMAIN SegmentName
            /\ SegmentOf(c, n) = s
            /\ s.name - AppMem \in DOMAIN c.mem.names
            /\ s.start - AppMem \in DOMAIN c.mem.bodies
            /\ DataOf(c, n) = DataIn(c, s) /\ DataIn(c, s).len = s.size
            /\ DataIn(c, s) = Slice(DataIn(c, s).of, 0, s.size)
            /\ s.offset <= s.size /\ (n # "constants" => s.offset = 0)
            /\ n = "networkElf" => s.size > 0 /\ ElfFile(DataIn(c, s).of)
<1>. DEFINE s == c.segs[i]
            n == NameIn(c, s)
<1>1. c.segs \in Seq(Rows) /\ DOMAIN c.segs = 1..Len(c.segs) /\ Sound(c.mem)
  BY CompilerAssumption DEF Rows
<1>2. s \in Rows /\ s \in ToSet(c.segs) /\ s \in Range(c.segs)
  BY <1>1 DEF ToSet, Range
<1>3. /\ s.name - AppMem \in DOMAIN c.mem.names /\ n \in DOMAIN SegmentName
      /\ s.start - AppMem \in DOMAIN c.mem.bodies /\ DataIn(c, s).len = s.size
      /\ s.offset <= s.size /\ (s.offset > 0 => n = "constants")
      /\ n = "networkElf" => s.size > 0 /\ ElfFile(DataIn(c, s).of)
  BY <1>2, CompilerAssumption
<1>4. n \in NamesOf(c)
  BY <1>2 DEF NamesOf
<1>5. SegmentOf(c, n) = s
  <2>. DEFINE j == CHOOSE j \in DOMAIN c.segs : NameIn(c, c.segs[j]) = n
  <2>1. j \in DOMAIN c.segs /\ NameIn(c, c.segs[j]) = n
    <3>1. i \in DOMAIN c.segs
      BY <1>1
    <3>. QED
      BY <3>1, Zenon
  <2>. HIDE DEF j
  <2>2. j = i
    BY <2>1, <1>1, CompilerAssumption
  <2>3. SegmentOf(c, n) = c.segs[j]
    BY DEF SegmentOf, j
  <2>. QED
    BY <2>2, <2>3
<1>6. DataOf(c, n) = DataIn(c, s)
  BY <1>5 DEF DataOf
<1>7. DataIn(c, s) = Slice(DataIn(c, s).of, 0, s.size)
  <2>1. DataIn(c, s) = c.mem.bodies[s.start - AppMem]
    BY DEF DataIn
  <2>2. DataIn(c, s) = Slice(DataIn(c, s).of, 0, DataIn(c, s).len)
    BY <1>1, <1>3, <2>1 DEF Sound
  <2>. QED
    BY <1>3, <2>2
<1>8. s.offset \in Nat
  BY <1>2 DEF Rows
<1>. HIDE DEF s, n
<1>9. n # "constants" => s.offset = 0
  BY <1>3, <1>8
<1>. QED
  BY <1>2, <1>3, <1>4, <1>5, <1>6, <1>7, <1>9 DEF s, n

\* What SegmentsIntact calls Compiled is that segment.
LEMMA CompiledIs ==
  ASSUME NEW c \in Containers, NEW n \in NamesOf(c)
  PROVE  /\ \E i \in 1..Len(c.segs) : SegmentOf(c, n) = c.segs[i] /\ NameIn(c, c.segs[i]) = n
         /\ SegmentOf(c, n) \in Rows /\ NameIn(c, SegmentOf(c, n)) = n /\ n \in DOMAIN SegmentName
         /\ DataOf(c, n).len = SegmentOf(c, n).size /\ SegmentOf(c, n).size \in Nat
         /\ DataOf(c, n) = Slice(DataOf(c, n).of, 0, SegmentOf(c, n).size)
         /\ SegmentOf(c, n).offset \in Nat /\ SegmentOf(c, n).offset <= SegmentOf(c, n).size
         /\ n # "constants" => SegmentOf(c, n).offset = 0
         /\ n = "networkElf" => SegmentOf(c, n).size > 0 /\ ElfFile(DataOf(c, n).of)
<1>1. DOMAIN c.segs = 1..Len(c.segs)
  BY CompilerAssumption
<1>2. PICK i \in 1..Len(c.segs) : NameIn(c, c.segs[i]) = n
  BY <1>1 DEF NamesOf, Range
<1>3. SegmentOf(c, n) = c.segs[i] /\ DataOf(c, n) = DataIn(c, c.segs[i]) /\ c.segs[i] \in Rows
  BY <1>2, SegmentIs
<1>4. c.segs[i].size \in Nat /\ c.segs[i].offset \in Nat
  BY <1>3 DEF Rows
<1>5. /\ n \in DOMAIN SegmentName /\ DataIn(c, c.segs[i]).len = c.segs[i].size
      /\ DataIn(c, c.segs[i]) = Slice(DataIn(c, c.segs[i]).of, 0, c.segs[i].size)
      /\ c.segs[i].offset <= c.segs[i].size /\ (n # "constants" => c.segs[i].offset = 0)
      /\ n = "networkElf" => c.segs[i].size > 0 /\ ElfFile(DataIn(c, c.segs[i]).of)
  BY <1>2, SegmentIs
<1>. QED
  BY <1>2, <1>3, <1>4, <1>5

\* The sections of an ELF, which may be converted once or more.
LEMMA ConvertedIs ==
  ASSUME NEW c \in Containers, "networkElf" \in NamesOf(c),
         SectionIndex(DataOf(c, "networkElf").of.sections, Metadata) # 0
  PROVE  LET e == DataOf(c, "networkElf")
             d == Converted(e)
         IN /\ d.of.sections = Convert(e.of.sections)
            /\ d.len \in Nat /\ d.len > 0 /\ d = Slice(d.of, 0, d.len)
            /\ SectionIndex(d.of.sections, Metadata) # 0
            /\ Converted(d) = d
            /\ Unconverted(d.of.sections) = Unconverted(e.of.sections)
            /\ SectionIndex(d.of.sections, MetadataFb) = SectionIndex(d.of.sections, Metadata) + 1
<1>. DEFINE e == DataOf(c, "networkElf")
            s == e.of.sections
            d == Converted(e)
            of == [e.of EXCEPT !.sections = Convert(s)]
            size == e.len + Len(Convert(s)) - Len(s)
<1>1. e.len \in Nat /\ e.len > 0 /\ ElfFile(e.of)
  BY CompiledIs
<1>2. /\ "sections" \in DOMAIN e.of
      /\ s \in Seq([name : {x.name : x \in ToSet(s)}, data : {x.data : x \in ToSet(s)}])
      /\ SectionIndex(s, MetadataFb) # 0 => SectionIndex(s, MetadataFb) = SectionIndex(s, Metadata) + 1
  BY <1>1 DEF ElfFile
<1>3. SectionIndex(s, Metadata) # 0
  OBVIOUS
<1>. HIDE DEF s
<1>4. /\ Convert(Convert(s)) = Convert(s) /\ SectionIndex(Convert(s), Metadata) # 0
      /\ Len(Convert(s)) \in Nat /\ Len(Convert(s)) >= Len(s) /\ Len(s) \in Nat
  <2>1. Convert(Convert(s)) = Convert(s) /\ SectionIndex(Convert(s), Metadata) # 0
    BY <1>2, <1>3, ConvertTwice
  <2>2. Len(s) \in Nat
    BY <1>2, IsList
  <2>3. Len(Convert(s)) = Len(s) \/ Len(Convert(s)) = Len(s) + 1
    <3>1. CASE SectionIndex(s, MetadataFb) = 0
      <4>1. Inserted(s, Convert(s), SectionIndex(s, Metadata))
        BY <1>2, <1>3, <3>1, ConvertInserts
      <4>. QED
        BY <4>1 DEF Inserted
    <3>2. CASE SectionIndex(s, MetadataFb) # 0
      <4>1. Replaced(s, Convert(s), SectionIndex(s, Metadata), SectionIndex(s, MetadataFb))
        BY <1>2, <1>3, <3>2, ConvertInPlace
      <4>. QED
        BY <4>1 DEF Replaced
    <3>. QED
      BY <3>1, <3>2
  <2>. QED
    BY <2>1, <2>2, <2>3
<1>5. /\ Unconverted(Convert(s)) = Unconverted(s)
      /\ SectionIndex(Convert(s), MetadataFb) = SectionIndex(Convert(s), Metadata) + 1
  BY <1>2, <1>3, ConvertKeepsOrder
<1>6. d = [of |-> of, from |-> 0, len |-> size]
  BY DEF Converted, Slice, s
<1>7. of.sections = Convert(s)
  BY <1>2
<1>8. size \in Nat /\ size > 0
  BY <1>1, <1>4
<1>9. [of EXCEPT !.sections = Convert(s)] = of
  BY <1>7
<1>. HIDE DEF of, size, d, e
<1>10. d.of = of /\ d.len = size /\ d = Slice(d.of, 0, d.len)
  BY <1>6 DEF Slice
<1>11. Converted(d) = d
  <2>1. Converted(d) = Slice([of EXCEPT !.sections = Convert(Convert(s))], 0,
                             size + Len(Convert(Convert(s))) - Len(Convert(s)))
    BY <1>7, <1>10 DEF Converted
  <2>2. size + Len(Convert(s)) - Len(Convert(s)) = size
    BY <1>4, <1>8
  <2>. QED
    BY <2>1, <2>2, <1>4, <1>9, <1>10
<1>. QED
  BY <1>4, <1>5, <1>7, <1>8, <1>10, <1>11 DEF s, d, e

\* The bytes of the compiler are a form of them.
LEMMA FormIs ==
  ASSUME NEW c \in Containers, NEW n \in NamesOf(c), NEW d, Form(c, n, d)
  PROVE  /\ d.len \in Nat /\ d = Slice(d.of, 0, d.len)
         /\ n # "networkElf" => d = DataOf(c, n)
         /\ n = "networkElf" => d.len > 0
<1>1. CASE d = DataOf(c, n)
  BY <1>1, CompiledIs
<1>2. CASE n = "networkElf" /\ SectionIndex(DataOf(c, n).of.sections, Metadata) # 0
           /\ d = Converted(DataOf(c, n))
  BY <1>2, ConvertedIs
<1>. QED
  BY <1>1, <1>2 DEF Form

\* A conversion of the network.elf is a form of it too.
LEMMA FormConverts ==
  ASSUME NEW c \in Containers, "networkElf" \in NamesOf(c), NEW d, Form(c, "networkElf", d),
         SectionIndex(d.of.sections, Metadata) # 0
  PROVE  Form(c, "networkElf", Converted(d))
<1>1. CASE d = DataOf(c, "networkElf")
  BY <1>1 DEF Form
<1>2. CASE SectionIndex(DataOf(c, "networkElf").of.sections, Metadata) # 0
           /\ d = Converted(DataOf(c, "networkElf"))
  BY <1>2, ConvertedIs DEF Form
<1>. QED
  BY <1>1, <1>2 DEF Form

\* A form of network.elf is an ELF.
LEMMA FormKeepsSections ==
  ASSUME NEW c \in Containers, "networkElf" \in NamesOf(c), NEW d, Form(c, "networkElf", d)
  PROVE  /\ Unconverted(d.of.sections) = Unconverted(DataOf(c, "networkElf").of.sections)
         /\ SectionIndex(d.of.sections, MetadataFb) # 0 =>
              SectionIndex(d.of.sections, MetadataFb) = SectionIndex(d.of.sections, Metadata) + 1
<1>1. CASE d = DataOf(c, "networkElf")
  <2>1. ElfFile(DataOf(c, "networkElf").of)
    BY CompiledIs
  <2>. QED
    BY <1>1, <2>1 DEF ElfFile
<1>2. CASE SectionIndex(DataOf(c, "networkElf").of.sections, Metadata) # 0
           /\ d = Converted(DataOf(c, "networkElf"))
  BY <1>2, ConvertedIs
<1>. QED
  BY <1>1, <1>2 DEF Form

-----------------------------------------------------------------------------
(* ProgramContainer: what is in a buffer.                                  *)

\* The names of the rows of a table: those of the compiler, unless it is empty.
Listing(c, names, n) ==
  /\ names \in [1..n -> NamesOf(c)]
  /\ n = 0 \/ \A x \in NamesOf(c) : \E i \in 1..n : names[i] = x

\* A row that points into a block that begins at base, to the segment n.
RowIn(c, block, base, n, s) ==
  /\ s \in Rows /\ base <= s.start /\ s.start + s.size < base + Room
  /\ s.name - base \in DOMAIN block.names /\ block.names[s.name - base] = n
  /\ s.offset = SegmentOf(c, n).offset
  /\ \E d : /\ Form(c, n, d) /\ d.len = s.size
            /\ s.size > 0 => /\ s.start - base \in DOMAIN block.bodies
                             /\ block.bodies[s.start - base] = d

\* What a reader of the row finds, and of all rows of a table.
RowSeen(c, H, n, s) ==
  /\ s \in Rows /\ NameAt(H, s.name) = n
  /\ s.offset = SegmentOf(c, n).offset
  /\ \E d : /\ Form(c, n, d) /\ d.len = s.size
            /\ s.size > 0 => DataAt(H, s.start, s.size) = d

\* Whoever follows the rows of a table through the heap H finds what was compiled.
Sees(c, H, table) ==
  /\ table \in Seq(Rows)
  /\ \E names : /\ Listing(c, names, Len(table))
                /\ \A i \in 1..Len(table) : RowSeen(c, H, names[i], table[i])

\* A row that leads into a sound block reads its name and bytes there.
LEMMA RowRead ==
  ASSUME NEW c \in Containers, NEW H, Laid(H), NEW b \in DOMAIN H, NEW n \in NamesOf(c), NEW s,
         RowIn(c, H[b], b, n, s)
  PROVE  RowSeen(c, H, n, s)
<1>1. s \in Rows /\ s.name \in Nat /\ s.start \in Nat /\ s.size \in Nat
  BY DEF RowIn, Rows
<1>2. b \in Nat
  BY RoomAssumption DEF Laid
<1>3. NameAt(H, s.name) = n
  <2>1. s.name - b \in DOMAIN H[b].names /\ H[b].names[s.name - b] = n
    BY DEF RowIn
  <2>. QED
    BY <1>1, <2>1, NameRead
<1>4. PICK d : /\ Form(c, n, d) /\ d.len = s.size
               /\ s.size > 0 => /\ s.start - b \in DOMAIN H[b].bodies
                                /\ H[b].bodies[s.start - b] = d
  BY DEF RowIn
<1>5. d = Slice(d.of, 0, d.len)
  BY <1>4, FormIs
<1>6. ASSUME s.size > 0 PROVE DataAt(H, s.start, s.size) = d
  <2>. DEFINE o == s.start - b
  <2>1. o \in DOMAIN H[b].bodies /\ H[b].bodies[o] = d
    BY <1>4, <1>6
  <2>2. b + o <= s.start /\ s.start + s.size <= b + o + H[b].bodies[o].len
    BY <1>1, <1>2, <1>4, <2>1
  <2>3. DataAt(H, s.start, s.size) = Slice(H[b].bodies[o].of, s.start - b - o, s.size)
    <3>. HIDE DEF o
    <3>. QED
      BY <1>1, <1>6, <2>1, <2>2, DataRead
  <2>4. s.start - b - o = 0
    BY <1>1, <1>2
  <2>. QED
    BY <2>1, <2>3, <2>4, <1>4, <1>5
<1>7. s.offset = SegmentOf(c, n).offset
  BY DEF RowIn
<1>. QED
  BY <1>1, <1>3, <1>4, <1>6, <1>7 DEF RowSeen

\* A container that carries its data: the rows lead into it.
Record(q) ==
  q = [kind |-> "qpc", names |-> q.names, bodies |-> q.bodies, size |-> q.size, base |-> q.base,
       compressionType |-> q.compressionType, images |-> q.images, table |-> q.table]

\* A handle that carries its data: its rows lead into its own buffer, where names
\* and bytes are.
Slow(c, q) ==
  /\ Record(q) /\ q.compressionType = SLOWPATH
  /\ q.base \in Nat /\ q.size \in Nat /\ q.size < Room
  /\ q.images = q.base + SizeofQAicQpc \/ (q.images = NullPtr /\ q.size = 0)
  /\ q.table \in Seq(Rows)
  /\ q.size # 0 => \A i \in 1..Len(q.table) : q.table[i].start + q.table[i].size <= q.base + q.size
  /\ \E names : /\ Listing(c, names, Len(q.table))
                /\ \A i \in 1..Len(q.table) : RowIn(c, q, q.base, names[i], q.table[i])

\* What is written at the places of a layout is there, and apart.
Spread(segs, L) ==
  LET n == Len(segs) IN
  /\ L.names \in [1..n -> Nat] /\ L.starts \in [1..n -> Nat] /\ L.size \in Nat
  /\ \A i \in 1..n : L.names[i] < L.size
  /\ \A i, j \in 1..n : i < j => L.names[i] < L.names[j]
  /\ \A i \in 1..n : L.starts[i] + segs[i].size <= L.size
  /\ \A i, j \in 1..n : i < j => L.starts[i] + segs[i].size <= L.starts[j]

\* The cells of a buffer hold what the rows of a table lead to.
Held(H, segs, names, L, cells) ==
  /\ Sound(cells)
  /\ \A i \in 1..Len(segs) :
       /\ L.names[i] \in DOMAIN cells.names /\ cells.names[L.names[i]] = names[i]
       /\ segs[i].size > 0 => /\ L.starts[i] \in DOMAIN cells.bodies
                              /\ cells.bodies[L.starts[i]] = DataAt(H, segs[i].start, segs[i].size)

\* A buffer that was written as its layout says holds what was written.
LEMMA CellsHold ==
  ASSUME NEW c \in Containers, NEW H, NEW segs, segs \in Seq(Rows), NEW names,
         Listing(c, names, Len(segs)), \A i \in 1..Len(segs) : RowSeen(c, H, names[i], segs[i]),
         NEW L, Spread(segs, L), L.size < Room
  PROVE  Held(H, segs, names, L, Cells(H, segs, L))
<1>. DEFINE full == {i \in DOMAIN segs : segs[i].size > 0}
            At(offsets, o, S) == CHOOSE i \in S : offsets[i] = o
            N == [o \in {L.names[i] : i \in DOMAIN segs} |->
                    NameAt(H, segs[At(L.names, o, DOMAIN segs)].name)]
            B == [o \in {L.starts[i] : i \in full} |->
                    LET s == segs[At(L.starts, o, full)] IN DataAt(H, s.start, s.size)]
            cells == Cells(H, segs, L)
            n == Len(segs)
<1>0. /\ L.names \in [1..n -> Nat] /\ L.starts \in [1..n -> Nat] /\ L.size \in Nat
      /\ \A i \in 1..n : L.names[i] < L.size
      /\ \A i, j \in 1..n : i < j => L.names[i] < L.names[j]
      /\ \A i \in 1..n : L.starts[i] + segs[i].size <= L.size
      /\ \A i, j \in 1..n : i < j => L.starts[i] + segs[i].size <= L.starts[j]
  BY DEF Spread
<1>1. DOMAIN segs = 1..n /\ n \in Nat /\ \A i \in 1..n : segs[i] \in Rows /\ segs[i].size \in Nat
  <2>1. DOMAIN segs = 1..Len(segs) /\ Len(segs) \in Nat /\ \A i \in 1..Len(segs) : segs[i] \in Rows
    BY IsList
  <2>. QED
    BY <2>1 DEF Rows
<1>2. cells.names = N /\ cells.bodies = B
  BY DEF Cells, Block
<1>3. ASSUME NEW i \in 1..n
      PROVE  L.names[i] \in DOMAIN N /\ N[L.names[i]] = names[i]
  <2>1. L.names[i] \in {L.names[k] : k \in DOMAIN segs}
    BY <1>1
  <2>2. ASSUME NEW k \in 1..n, L.names[k] = L.names[i] PROVE k = i
    BY <2>2, <1>0, <1>1
  <2>3. At(L.names, L.names[i], DOMAIN segs) = i
    BY <2>2, <1>1
  <2>4. NameAt(H, segs[i].name) = names[i]
    BY DEF RowSeen
  <2>5. N[L.names[i]] = NameAt(H, segs[At(L.names, L.names[i], DOMAIN segs)].name)
    <3>. HIDE DEF At
    <3>. QED
      BY <2>1
  <2>. HIDE DEF N, At
  <2>6. DOMAIN N = {L.names[k] : k \in DOMAIN segs}
    BY DEF N
  <2>. QED
    BY <2>1, <2>3, <2>4, <2>5, <2>6
<1>4. ASSUME NEW i \in 1..n, segs[i].size > 0
      PROVE  L.starts[i] \in DOMAIN B /\ B[L.starts[i]] = DataAt(H, segs[i].start, segs[i].size)
  <2>0. i \in full
    BY <1>1, <1>4
  <2>1. L.starts[i] \in {L.starts[k] : k \in full}
    BY <2>0
  <2>2. ASSUME NEW k \in full, L.starts[k] = L.starts[i] PROVE k = i
    <3>1. k \in 1..n /\ segs[k].size > 0 /\ segs[k].size \in Nat /\ segs[i].size \in Nat
      BY <1>1
    <3>2. L.starts[k] \in Nat /\ L.starts[i] \in Nat
      BY <3>1, <1>0
    <3>3. ~(k < i) /\ ~(i < k)
      BY <3>1, <3>2, <2>2, <1>4, <1>0
    <3>. QED
      BY <3>1, <3>3, <1>1
  <2>3. At(L.starts, L.starts[i], full) = i
    <3>. HIDE DEF full
    <3>. QED
      BY <2>2, <2>0
  <2>4. B[L.starts[i]] = LET s == segs[At(L.starts, L.starts[i], full)] IN DataAt(H, s.start, s.size)
    <3>. HIDE DEF At, full
    <3>. QED
      BY <2>1
  <2>5. DOMAIN B = {L.starts[k] : k \in full}
    OBVIOUS
  <2>. HIDE DEF B, At, full
  <2>. QED
    BY <2>1, <2>3, <2>4, <2>5
<1>5. \A o \in DOMAIN B : \E i \in 1..n : segs[i].size > 0 /\ o = L.starts[i]
  BY <1>1
<1>6. \A o \in DOMAIN N : \E i \in 1..n : o = L.names[i]
  BY <1>1
<1>. HIDE DEF N, B
<1>7. DOMAIN N \subseteq 0..(Room - 1)
  <2>. SUFFICES ASSUME NEW o \in DOMAIN N PROVE o \in 0..(Room - 1)
    OBVIOUS
  <2>1. PICK i \in 1..n : o = L.names[i]
    BY <1>6
  <2>2. L.names[i] \in Nat /\ L.names[i] < L.size
    BY <1>0
  <2>. QED
    BY <2>1, <2>2, <1>0, RoomAssumption
<1>8. ASSUME NEW i \in 1..n, segs[i].size > 0
      PROVE  /\ B[L.starts[i]].len = segs[i].size
             /\ B[L.starts[i]] = Slice(B[L.starts[i]].of, 0, segs[i].size)
  <2>1. PICK d : Form(c, names[i], d) /\ d.len = segs[i].size /\ DataAt(H, segs[i].start, segs[i].size) = d
    BY <1>8 DEF RowSeen
  <2>2. names[i] \in NamesOf(c)
    BY DEF Listing
  <2>3. d = Slice(d.of, 0, d.len)
    BY <2>1, <2>2, FormIs
  <2>. QED
    BY <1>4, <1>8, <2>1, <2>3
<1>9. ASSUME NEW o \in DOMAIN B
      PROVE  /\ o \in Nat /\ B[o].len \in Nat /\ o + B[o].len < Room
             /\ B[o] = Slice(B[o].of, 0, B[o].len)
  <2>1. PICK i \in 1..n : segs[i].size > 0 /\ o = L.starts[i]
    BY <1>5
  <2>2. L.starts[i] \in Nat /\ segs[i].size \in Nat /\ L.starts[i] + segs[i].size <= L.size
    BY <1>0, <1>1
  <2>3. B[o].len = segs[i].size /\ B[o] = Slice(B[o].of, 0, segs[i].size)
    BY <1>8, <2>1
  <2>. QED
    BY <2>1, <2>2, <2>3, <1>0, RoomAssumption
<1>10. ASSUME NEW o \in DOMAIN B, NEW u \in DOMAIN B, o < u PROVE o + B[o].len <= u
  <2>1. PICK i \in 1..n : segs[i].size > 0 /\ o = L.starts[i]
    BY <1>5
  <2>2. PICK j \in 1..n : segs[j].size > 0 /\ u = L.starts[j]
    BY <1>5
  <2>3. L.starts[i] \in Nat /\ segs[i].size \in Nat /\ L.starts[j] \in Nat /\ segs[j].size \in Nat
    BY <1>0, <1>1
  <2>4. B[o].len = segs[i].size
    BY <1>8, <2>1
  <2>5. ~(j < i) /\ i # j
    BY <2>1, <2>2, <2>3, <1>10, <1>0
  <2>6. i < j
    BY <2>5, <1>1
  <2>. QED
    BY <2>1, <2>2, <2>4, <2>6, <1>0
<1>11. Sound(cells)
  BY <1>2, <1>7, <1>9, <1>10 DEF Sound
<1>. QED
  BY <1>2, <1>3, <1>4, <1>11 DEF Held

\* serializeFromVector and the writing of a file make containers of that kind.
Moved(segs, L, base) ==
  [i \in DOMAIN segs |-> [segs[i] EXCEPT !.name = base + L.names[i], !.start = base + L.starts[i]]]

\* The buffer that is built from what a table leads to carries its data.
LEMMA SlowBuilt ==
  ASSUME NEW c \in Containers, NEW H, NEW segs, Sees(c, H, segs), NEW align \in {1, 8}, NEW base \in Nat,
         NEW L, L = Layout(H, segs, align), L.size < Room
  PROVE  LET q == QpcBlock(Cells(H, segs, L), L.size, base, SLOWPATH, base + SizeofQAicQpc,
                           Moved(segs, L, base))
         IN Slow(c, q) /\ Sound(q)
<1>. DEFINE n == Len(segs)
            cells == Cells(H, segs, L)
            table == Moved(segs, L, base)
            q == QpcBlock(cells, L.size, base, SLOWPATH, base + SizeofQAicQpc, table)
<1>1. segs \in Seq(Rows) /\ n \in Nat /\ DOMAIN segs = 1..n /\ \A i \in 1..n : segs[i] \in Rows
  BY IsList DEF Sees
<1>2. PICK names : Listing(c, names, n) /\ \A i \in 1..n : RowSeen(c, H, names[i], segs[i])
  BY DEF Sees
<1>3. \A i \in 1..n : names[i] \in NamesOf(c)
  BY <1>2 DEF Listing
<1>4. \A i \in 1..n : NameAt(H, segs[i].name) \in DOMAIN SegmentName
  <2>. TAKE i \in 1..n
  <2>1. names[i] \in DOMAIN SegmentName
    BY <1>3, CompiledIs
  <2>. QED
    BY <1>2, <2>1 DEF RowSeen
<1>5. /\ L.size \in Nat /\ L.names \in [1..n -> Nat] /\ L.starts \in [1..n -> Nat]
      /\ \A i \in 1..n : L.names[i] > 0 /\ L.names[i] < L.size
      /\ \A i, j \in 1..n : i < j => L.names[i] < L.names[j]
      /\ \A i \in 1..n : L.starts[i] > 0 /\ L.starts[i] + segs[i].size <= L.size
      /\ \A i, j \in 1..n : i < j => L.starts[i] + segs[i].size <= L.starts[j]
  BY <1>1, <1>4, LaidOut
<1>6. /\ Sound(cells)
      /\ \A i \in 1..n : /\ L.names[i] \in DOMAIN cells.names /\ cells.names[L.names[i]] = names[i]
                         /\ segs[i].size > 0 =>
                              /\ L.starts[i] \in DOMAIN cells.bodies
                              /\ cells.bodies[L.starts[i]] = DataAt(H, segs[i].start, segs[i].size)
  <2>1. Spread(segs, L)
    <3>. HIDE DEF cells
    <3>. QED
      BY <1>5 DEF Spread
  <2>2. Held(H, segs, names, L, cells)
    BY <1>1, <1>2, <2>1, CellsHold
  <2>. HIDE DEF cells
  <2>. QED
    BY <2>2 DEF Held
<1>7. /\ q.kind = "qpc" /\ q.names = cells.names /\ q.bodies = cells.bodies /\ q.size = L.size /\ q.base = base
      /\ q.compressionType = SLOWPATH /\ q.images = base + SizeofQAicQpc /\ q.table = table
  BY DEF QpcBlock
<1>7a. Record(q)
  BY DEF QpcBlock, Record
<1>8. Sound(q)
  <2>. HIDE DEF q, cells
  <2>. QED
    BY <1>6, <1>7 DEF Sound
<1>9. ASSUME NEW i \in 1..n
      PROVE  /\ table[i] \in Rows /\ table[i].name = base + L.names[i] /\ table[i].start = base + L.starts[i]
             /\ table[i].size = segs[i].size /\ table[i].offset = segs[i].offset
  <2>1. base + L.names[i] \in Nat /\ base + L.starts[i] \in Nat
    BY <1>5
  <2>2. segs[i] \in [name : Nat, start : Nat, size : Nat, offset : Nat]
    BY <1>1 DEF Rows
  <2>3. table[i] = [segs[i] EXCEPT !.name = base + L.names[i], !.start = base + L.starts[i]]
    BY <1>1 DEF Moved
  <2>. QED
    BY <2>1, <2>2, <2>3 DEF Rows
<1>10. table \in Seq(Rows) /\ Len(table) = n
  <2>1. table = [i \in 1..n |-> table[i]]
    BY <1>1 DEF Moved
  <2>. HIDE DEF table, n
  <2>. QED
    BY <1>1, <1>9, <2>1, ListIs
<1>11. ASSUME NEW i \in 1..n PROVE RowIn(c, q, base, names[i], table[i])
  <2>1. /\ L.names[i] \in Nat /\ L.starts[i] \in Nat /\ segs[i].size \in Nat
        /\ L.starts[i] + segs[i].size <= L.size
    BY <1>1, <1>5 DEF Rows
  <2>2. table[i].name - base = L.names[i] /\ table[i].start - base = L.starts[i]
    BY <1>9, <2>1, SMTT(30)
  <2>3. PICK d : /\ Form(c, names[i], d) /\ d.len = segs[i].size
                 /\ segs[i].size > 0 => DataAt(H, segs[i].start, segs[i].size) = d
    BY <1>2 DEF RowSeen
  <2>4. segs[i].offset = SegmentOf(c, names[i]).offset
    BY <1>2 DEF RowSeen
  <2>5. table[i].size > 0 => /\ table[i].start - base \in DOMAIN q.bodies
                             /\ q.bodies[table[i].start - base] = d
    BY <1>6, <1>7, <1>9, <2>2, <2>3
  <2>6. base <= table[i].start /\ table[i].start + table[i].size < base + Room
    BY <1>9, <2>1, <1>5, RoomAssumption, SMTT(30)
  <2>7. table[i].name - base \in DOMAIN q.names /\ q.names[table[i].name - base] = names[i]
    BY <1>6, <1>7, <2>2
  <2>. HIDE DEF q, table
  <2>. QED
    BY <1>9, <2>3, <2>4, <2>5, <2>6, <2>7 DEF RowIn
<1>12. \A i \in 1..n : table[i].start + table[i].size <= base + L.size
  <2>. TAKE i \in 1..n
  <2>1. L.starts[i] \in Nat /\ segs[i].size \in Nat /\ L.starts[i] + segs[i].size <= L.size
    BY <1>1, <1>5 DEF Rows
  <2>. QED
    BY <1>9, <2>1, <1>5
<1>. HIDE DEF q, table, cells, n
<1>13. Slow(c, q)
  BY <1>2, <1>5, <1>7, <1>7a, <1>10, <1>11, <1>12 DEF Slow
<1>. QED
  BY <1>8, <1>13 DEF q, table, cells

-----------------------------------------------------------------------------
(* ProgramContainer: building and copying.                                 *)

\* A table that points to what others hold, none of it in the buffer at x or in
\* that of the library.
Pointing(c, H, x, table) ==
  /\ table \in Seq(Rows)
  /\ \E names : /\ Listing(c, names, Len(table))
                /\ \A i \in 1..Len(table) : \E b \in DOMAIN H \ {x, Own} :
                     RowIn(c, H[b], b, names[i], table[i])

\* A handle whose rows point to what others hold.
Fast(c, H, x, q) ==
  Record(q) /\ q.compressionType = FASTPATH /\ Pointing(c, H, x, q.table)

\* serializeFromVector: what it is given to see it puts into the buffer, or
\* points to.
LEMMA Serialized ==
  ASSUME NEW c \in Containers, NEW H, NEW segs, Sees(c, H, segs), NEW home \in Nat,
         NEW ct \in {SLOWPATH, FASTPATH},
         serializeFromVector(H, createQpcHandle(ct), home, segs).block.size < Room
  PROVE  LET built == serializeFromVector(H, createQpcHandle(ct), home, segs) IN
         /\ built.handle # NoHandle /\ Sound(built.block)
         /\ ct = SLOWPATH => Slow(c, built.block)
         /\ ct = FASTPATH => /\ Record(built.block) /\ built.block.compressionType = FASTPATH
                             /\ built.block.table = segs
<1>. DEFINE built == serializeFromVector(H, createQpcHandle(ct), home, segs)
            L == Layout(H, segs, 8)
            n == Len(segs)
            g == writeQAicQpcObject(H, writeQAicQpcObject(H, createQpcHandle(ct), segs), segs)
<1>1. segs \in Seq(Rows) /\ n \in Nat /\ DOMAIN segs = 1..n
  BY IsList DEF Sees
<1>2. CASE ct = FASTPATH
  <2>1. built.block = QpcBlock(Block(NoCells, NoCells), FastSize(segs), home, FASTPATH,
                               home + SizeofQAicQpc, segs)
    BY <1>2 DEF serializeFromVector, writeQAicQpcObject, createQpcHandle,
       fixupQAicQpcObject, SLOWPATH, FASTPATH
  <2>2. built.handle = createQpcHandle(FASTPATH)
    BY <1>2 DEF serializeFromVector, writeQAicQpcObject, createQpcHandle, SLOWPATH,
       FASTPATH
  <2>3. built.handle # NoHandle
    BY <2>2 DEF createQpcHandle, NoHandle, FASTPATH
  <2>. HIDE DEF built
  <2>4. built.block.names = NoCells /\ built.block.bodies = NoCells
    BY <2>1 DEF QpcBlock, Block
  <2>5. Sound(built.block)
    BY <2>4 DEF Sound, NoCells
  <2>6. Record(built.block) /\ built.block.compressionType = FASTPATH /\ built.block.table = segs
    BY <2>1 DEF QpcBlock, Record
  <2>. QED
    BY <1>2, <2>3, <2>5, <2>6 DEF built, SLOWPATH, FASTPATH
<1>3. CASE ct = SLOWPATH
  <2>1. built.block = QpcBlock(Cells(H, segs, L), L.size, home, SLOWPATH, home + SizeofQAicQpc,
                               fixupQAicQpcObject(g, home, segs))
    BY <1>3 DEF serializeFromVector, createQpcHandle
  <2>2. built.handle = g
    BY DEF serializeFromVector
  <2>3. g.compressionType = SLOWPATH /\ g.nameOffsets = (<<>> \o L.names) \o L.names
        /\ g.startOffsets = (<<>> \o L.starts) \o L.starts
    BY <1>3 DEF writeQAicQpcObject, createQpcHandle
  <2>4. built.handle # NoHandle
    <3>. HIDE DEF g, built
    <3>. QED
      BY <2>2, <2>3 DEF NoHandle, SLOWPATH
  <2>. HIDE DEF g
  <2>5. L.size < Room
    <3>1. built.block.size = L.size
      <4>. HIDE DEF built
      <4>. QED
        BY <2>1 DEF QpcBlock
    <3>. QED
      BY <3>1
  <2>6. L.names = [i \in 1..n |-> L.names[i]] /\ L.starts = [i \in 1..n |-> L.starts[i]]
    BY DEF Layout
  <2>7. \A i \in 1..n : g.nameOffsets[i] = L.names[i] /\ g.startOffsets[i] = L.starts[i]
    <3>. HIDE DEF L, n
    <3>. QED
      BY <2>3, <2>6, <1>1, SMTT(20)
  <2>8. fixupQAicQpcObject(g, home, segs) = Moved(segs, L, home)
    <3>. HIDE DEF L
    <3>. QED
      BY <2>3, <2>7, <1>1 DEF fixupQAicQpcObject, Moved
  <2>9. Slow(c, built.block) /\ Sound(built.block)
    <3>. HIDE DEF L, built
    <3>1. L = Layout(H, segs, 8)
      BY DEF L
    <3>. QED
      BY <2>1, <2>5, <2>8, <3>1, SlowBuilt
  <2>. QED
    BY <1>3, <2>4, <2>9 DEF SLOWPATH, FASTPATH
<1>. QED
  BY <1>2, <1>3

\* copyQpcBuffer changes the places in a handle by the distance it moves.
LEMMA CopiedRecord ==
  ASSUME NEW q, Record(q), NEW base, NEW images, NEW table
  PROVE  [q EXCEPT !.base = base, !.images = images, !.table = table]
         = [kind |-> "qpc", names |-> q.names, bodies |-> q.bodies, size |-> q.size, base |-> base,
            compressionType |-> q.compressionType, images |-> images, table |-> table]
<1>. DEFINE ns == q.names
            bs == q.bodies
            sz == q.size
            ct == q.compressionType
            b == q.base
            im == q.images
            ta == q.table
<1>1. q = [kind |-> "qpc", names |-> ns, bodies |-> bs, size |-> sz, base |-> b,
           compressionType |-> ct, images |-> im, table |-> ta]
  BY DEF Record
<1>. HIDE DEF ns, bs, sz, ct, b, im, ta
<1>2. [q EXCEPT !.base = base]
      = [kind |-> "qpc", names |-> ns, bodies |-> bs, size |-> sz, base |-> base,
         compressionType |-> ct, images |-> im, table |-> ta]
  BY <1>1
<1>3. [[kind |-> "qpc", names |-> ns, bodies |-> bs, size |-> sz, base |-> base,
        compressionType |-> ct, images |-> im, table |-> ta] EXCEPT !.images = images]
      = [kind |-> "qpc", names |-> ns, bodies |-> bs, size |-> sz, base |-> base,
         compressionType |-> ct, images |-> images, table |-> ta]
  OBVIOUS
<1>4. [[kind |-> "qpc", names |-> ns, bodies |-> bs, size |-> sz, base |-> base,
        compressionType |-> ct, images |-> images, table |-> ta] EXCEPT !.table = table]
      = [kind |-> "qpc", names |-> ns, bodies |-> bs, size |-> sz, base |-> base,
         compressionType |-> ct, images |-> images, table |-> table]
  OBVIOUS
<1>5. [q EXCEPT !.base = base, !.images = images, !.table = table]
      = [[[q EXCEPT !.base = base] EXCEPT !.images = images] EXCEPT !.table = table]
  OBVIOUS
<1>6. [q EXCEPT !.base = base, !.images = images, !.table = table]
      = [kind |-> "qpc", names |-> ns, bodies |-> bs, size |-> sz, base |-> base,
         compressionType |-> ct, images |-> images, table |-> table]
  BY <1>2, <1>3, <1>4, <1>5, Zenon
<1>. QED
  BY <1>6 DEF ns, bs, sz, ct

\* serialize writes rows that count from the beginning of the buffer.
LEMMA UnfinishedRecord ==
  ASSUME NEW q, Record(q)
  PROVE  [q EXCEPT !.size = 0, !.images = NullPtr]
         = [kind |-> "qpc", names |-> q.names, bodies |-> q.bodies, size |-> 0, base |-> q.base,
            compressionType |-> q.compressionType, images |-> NullPtr, table |-> q.table]
<1>. DEFINE ns == q.names
            bs == q.bodies
            sz == q.size
            ct == q.compressionType
            b == q.base
            im == q.images
            ta == q.table
<1>1. q = [kind |-> "qpc", names |-> ns, bodies |-> bs, size |-> sz, base |-> b,
           compressionType |-> ct, images |-> im, table |-> ta]
  BY DEF Record
<1>. HIDE DEF ns, bs, sz, ct, b, im, ta
<1>2. [q EXCEPT !.size = 0]
      = [kind |-> "qpc", names |-> ns, bodies |-> bs, size |-> 0, base |-> b,
         compressionType |-> ct, images |-> im, table |-> ta]
  BY <1>1
<1>3. [[kind |-> "qpc", names |-> ns, bodies |-> bs, size |-> 0, base |-> b,
        compressionType |-> ct, images |-> im, table |-> ta] EXCEPT !.images = NullPtr]
      = [kind |-> "qpc", names |-> ns, bodies |-> bs, size |-> 0, base |-> b,
         compressionType |-> ct, images |-> NullPtr, table |-> ta]
  OBVIOUS
<1>4. [q EXCEPT !.size = 0, !.images = NullPtr] = [[q EXCEPT !.size = 0] EXCEPT !.images = NullPtr]
  OBVIOUS
<1>5. [q EXCEPT !.size = 0, !.images = NullPtr]
      = [kind |-> "qpc", names |-> ns, bodies |-> bs, size |-> 0, base |-> b,
         compressionType |-> ct, images |-> NullPtr, table |-> ta]
  BY <1>2, <1>3, <1>4, Zenon
<1>. QED
  BY <1>5 DEF ns, bs, ct, b, ta

\* A file, complete or not.
LEMMA FileBuilt ==
  ASSUME NEW c \in Containers, NEW H, NEW segs, Sees(c, H, segs), FileBlock(H, segs).size < Room
  PROVE  /\ Slow(c, FileBlock(H, segs)) /\ Sound(FileBlock(H, segs))
         /\ Slow(c, UnfinishedFile(H, segs)) /\ Sound(UnfinishedFile(H, segs))
<1>. DEFINE L == Layout(H, segs, 1)
            n == Len(segs)
            q == FileBlock(H, segs)
            r == UnfinishedFile(H, segs)
<1>1. segs \in Seq(Rows) /\ n \in Nat /\ DOMAIN segs = 1..n
  BY IsList DEF Sees
<1>2. q = QpcBlock(Cells(H, segs, L), L.size, 0, SLOWPATH, SizeofQAicQpc,
                   [i \in DOMAIN segs |-> [segs[i] EXCEPT !.name = L.names[i], !.start = L.starts[i]]])
  BY DEF FileBlock
<1>3. L.size < Room /\ q.base = 0
  <2>. HIDE DEF L, q
  <2>1. q.size = L.size /\ q.base = 0
    BY <1>2 DEF QpcBlock
  <2>. QED
    BY <2>1 DEF q
<1>4. \A i \in DOMAIN segs : NameAt(H, segs[i].name) \in DOMAIN SegmentName
  <2>1. PICK names : Listing(c, names, n) /\ \A i \in 1..n : RowSeen(c, H, names[i], segs[i])
    BY DEF Sees
  <2>. SUFFICES ASSUME NEW i \in 1..n PROVE NameAt(H, segs[i].name) \in DOMAIN SegmentName
    BY <1>1
  <2>2. names[i] \in NamesOf(c)
    BY <2>1 DEF Listing
  <2>3. names[i] \in DOMAIN SegmentName
    BY <2>2, CompiledIs
  <2>. QED
    BY <2>1, <2>3 DEF RowSeen
<1>5. \A i \in DOMAIN segs : L.names[i] \in Nat /\ L.starts[i] \in Nat
  BY <1>1, <1>4, LaidOut
<1>6. [i \in DOMAIN segs |-> [segs[i] EXCEPT !.name = L.names[i], !.start = L.starts[i]]] = Moved(segs, L, 0)
  <2>1. \A i \in DOMAIN segs : 0 + L.names[i] = L.names[i] /\ 0 + L.starts[i] = L.starts[i]
    BY <1>5
  <2>. HIDE DEF L
  <2>. QED
    BY <2>1 DEF Moved
<1>7. 0 + SizeofQAicQpc = SizeofQAicQpc
  BY DEF SizeofQAicQpc
<1>8. Slow(c, q) /\ Sound(q)
  <2>. HIDE DEF L, q
  <2>1. L = Layout(H, segs, 1)
    BY DEF L
  <2>. DEFINE Q == QpcBlock(Cells(H, segs, L), L.size, 0, SLOWPATH, 0 + SizeofQAicQpc, Moved(segs, L, 0))
  <2>2. Slow(c, Q) /\ Sound(Q)
    BY <1>3, <2>1, SlowBuilt
  <2>3. q = Q
    BY <1>2, <1>6, <1>7
  <2>. HIDE DEF Q
  <2>. QED
    BY <2>2, <2>3
<1>9. r = [q EXCEPT !.size = 0, !.images = NullPtr]
  BY DEF UnfinishedFile
<1>. HIDE DEF q, r
<1>11. Record(q)
  BY <1>8 DEF Slow
<1>12. r = [kind |-> "qpc", names |-> q.names, bodies |-> q.bodies, size |-> 0, base |-> q.base,
            compressionType |-> q.compressionType, images |-> NullPtr, table |-> q.table]
  BY <1>9, <1>11, UnfinishedRecord
<1>13. Sound(r)
  BY <1>8, <1>12 DEF Sound
<1>14. \A names, s, base : RowIn(c, r, base, names, s) <=> RowIn(c, q, base, names, s)
  BY <1>12 DEF RowIn
<1>15. Slow(c, r)
  <2>1. Record(r)
    BY <1>12 DEF Record
  <2>2. r.table = q.table /\ r.base = q.base /\ r.size = 0 /\ r.images = NullPtr
        /\ r.compressionType = q.compressionType
    BY <1>12
  <2>. QED
    BY <1>8, <1>14, <2>1, <2>2, RoomAssumption DEF Slow
<1>. QED
  BY <1>8, <1>13, <1>15 DEF q, r

\* Rows that are moved with their buffer lead where they led.
LEMMA Shifted ==
  ASSUME NEW a \in Nat, NEW b \in Nat, NEW x \in Nat, NEW n \in Nat, NEW room \in Nat, NEW size \in Nat,
         b <= x, x + n < b + room, x + n <= b + size
  PROVE  a <= a + (x - b) /\ a + (x - b) + n < a + room /\ a + (x - b) + n <= a + size
  OBVIOUS

\* copyQpcBuffer: the copy leads into itself.
LEMMA CopyIs ==
  ASSUME NEW c \in Containers, NEW q, Slow(c, q), Sound(q), q.size # 0, NEW base \in Nat
  PROVE  LET r == fixupQAicQpcCopyObject(q, base) IN
         /\ Slow(c, r) /\ Sound(r) /\ r.base = base /\ r.images = base + SizeofQAicQpc
         /\ r.size = q.size
<1>. DEFINE r == fixupQAicQpcCopyObject(q, base)
            n == Len(q.table)
            Move(p) == base + (p - q.base)
            table == [i \in DOMAIN q.table |-> [q.table[i] EXCEPT !.name = Move(q.table[i].name),
                                                                !.start = Move(q.table[i].start)]]
<1>1. /\ Record(q) /\ q.compressionType = SLOWPATH
      /\ q.base \in Nat /\ q.size \in Nat /\ q.size < Room
      /\ q.images = q.base + SizeofQAicQpc
      /\ q.table \in Seq(Rows)
      /\ \A i \in 1..n : q.table[i].start + q.table[i].size <= q.base + q.size
  BY DEF Slow
<1>2. PICK names : Listing(c, names, n) /\ \A i \in 1..n : RowIn(c, q, q.base, names[i], q.table[i])
  BY DEF Slow
<1>3. n \in Nat /\ DOMAIN q.table = 1..n /\ \A i \in 1..n : q.table[i] \in Rows
  BY <1>1, IsList
<1>4. r = [kind |-> "qpc", names |-> q.names, bodies |-> q.bodies, size |-> q.size, base |-> base,
           compressionType |-> q.compressionType, images |-> Move(q.images), table |-> table]
  <2>1. r = [q EXCEPT !.base = base, !.images = Move(q.images), !.table = table]
    BY DEF fixupQAicQpcCopyObject, computeAddrByBase
  <2>. HIDE DEF r, table, Move
  <2>. QED
    BY <2>1, <1>1, CopiedRecord
<1>5. Move(q.images) = base + SizeofQAicQpc
  BY <1>1 DEF SizeofQAicQpc
<1>. HIDE DEF r
<1>6. ASSUME NEW i \in 1..n
      PROVE  /\ table[i] \in Rows
             /\ table[i].name - base = q.table[i].name - q.base
             /\ table[i].start - base = q.table[i].start - q.base
             /\ table[i].size = q.table[i].size /\ table[i].offset = q.table[i].offset
             /\ base <= table[i].start /\ table[i].start + table[i].size < base + Room
             /\ table[i].start + table[i].size <= base + q.size
  <2>. DEFINE s == q.table[i]
              t == table[i]
  <2>1. s \in [name : Nat, start : Nat, size : Nat, offset : Nat]
    BY <1>3 DEF Rows
  <2>2. q.base <= s.start /\ s.start + s.size < q.base + Room /\ s.name - q.base \in DOMAIN q.names
    BY <1>2 DEF RowIn
  <2>3. s.name - q.base \in 0..(Room - 1)
    BY <2>2 DEF Sound
  <2>3a. s.name \in Nat /\ s.start \in Nat /\ s.size \in Nat /\ q.base \in Nat /\ Room \in Nat /\ q.size \in Nat
    BY <2>1, <1>1, RoomAssumption
  <2>3b. s.name - q.base \in Nat /\ s.start - q.base \in Nat
    BY <2>2, <2>3, <2>3a, SMTT(20)
  <2>4. Move(s.name) \in Nat /\ Move(s.start) \in Nat
    BY <2>3b
  <2>5. t = [name |-> Move(s.name), start |-> Move(s.start), size |-> s.size, offset |-> s.offset]
    BY <2>1, <1>3
  <2>7. s.start + s.size <= q.base + q.size
    BY <1>1
  <2>. HIDE DEF s, t
  <2>6. t \in Rows
    BY <2>1, <2>4, <2>5 DEF Rows
  <2>7a. t.name = base + (s.name - q.base) /\ t.start = base + (s.start - q.base) /\ t.size = s.size
    BY <2>5
  <2>8. t.name - base = s.name - q.base /\ t.start - base = s.start - q.base
    BY <2>7a, <2>3b
  <2>9. base <= t.start /\ t.start + t.size < base + Room /\ t.start + t.size <= base + q.size
    <3>1. /\ base <= base + (s.start - q.base) /\ base + (s.start - q.base) + s.size < base + Room
          /\ base + (s.start - q.base) + s.size <= base + q.size
      BY <2>2, <2>3a, <2>7, Shifted
    <3>. QED
      BY <3>1, <2>7a
  <2>10. t.size = s.size /\ t.offset = s.offset
    BY <2>5
  <2>. QED
    BY <2>6, <2>8, <2>9, <2>10 DEF s, t
<1>7. table \in Seq(Rows) /\ Len(table) = n
  <2>1. table = [i \in 1..n |-> table[i]]
    BY <1>3
  <2>. HIDE DEF table
  <2>. QED
    BY <1>3, <1>6, <2>1, ListIs
<1>. HIDE DEF table
<1>8. r.names = q.names /\ r.bodies = q.bodies /\ r.size = q.size /\ r.base = base /\ r.table = table
      /\ r.compressionType = q.compressionType /\ r.images = base + SizeofQAicQpc /\ Record(r)
  BY <1>4, <1>5 DEF Record
<1>9. \A i \in 1..n : RowIn(c, r, base, names[i], table[i])
  <2>. TAKE i \in 1..n
  <2>1. RowIn(c, q, q.base, names[i], q.table[i])
    BY <1>2
  <2>. QED
    BY <1>6, <1>8, <2>1 DEF RowIn
<1>10. Sound(r)
  BY <1>8 DEF Sound
<1>. HIDE DEF n
<1>11. \A i \in 1..n : table[i].start + table[i].size <= base + q.size
  BY <1>6
<1>12. Slow(c, r)
  BY <1>1, <1>2, <1>7, <1>8, <1>9, <1>11 DEF Slow
<1>. QED
  BY <1>7, <1>8, <1>10, <1>12 DEF r, n

-----------------------------------------------------------------------------
(* ProgramContainer: the heap.                                             *)

\* The blocks of the heap: the memory of the application, and handles that carry
\* their data or point to it. The one of the library carries its own.
Contents(c, H) ==
  /\ Laid(H) /\ Temp \notin DOMAIN H
  /\ AppMem \in DOMAIN H => H[AppMem] = c.mem
  /\ \A a \in DOMAIN H \ {AppMem} : Slow(c, H[a]) \/ Fast(c, H, a, H[a])
  /\ Own \in DOMAIN H => Slow(c, H[Own]) /\ H[Own].base = Own

\* With, Without and InUse for a heap H.
Fill(H, x, q) == [b \in DOMAIN H \cup {x} |-> IF b = x THEN q ELSE H[b]]

\* The heap without the block at x, and whether a handle still points there.
Drop(H, x)   == [b \in DOMAIN H \ {x} |-> H[b]]
Used(H, x) ==
  \E b \in DOMAIN H \ {x} :
    IsQpc(H, b) /\ \E s \in Range(H[b].table) :
      H[b].compressionType = FASTPATH /\ x <= s.start /\ s.start < x + Room

\* Where nothing points; into the buffer of the library nothing ever does.
Unused(H, x) == ~Used(H, x) \/ x \notin DOMAIN H \/ x = Own

\* The places that blocks have are apart.
LEMMA PlacesAre ==
  /\ Room \in Nat /\ Places \subseteq Nat \ {0}
  /\ {AppMem, Temp, Buf, Own} \subseteq Places /\ \A h \in Handles : Home[h] \in Places
  /\ \A h \in Handles : Home[h] \notin {AppMem, Temp, Buf, Own}
  /\ AppMem # Temp /\ AppMem # Buf /\ AppMem # Own /\ Temp # Buf /\ Temp # Own /\ Buf # Own
<1>1. DOMAIN Home = Handles
  BY RoomAssumption
<1>2. \A h \in Handles : Home[h] \in Places
  BY <1>1 DEF Places, Range
<1>. QED
  BY <1>2, RoomAssumption DEF Places

\* Both kinds of handles are handles.
LEMMA FastIsQpc ==
  ASSUME NEW c, NEW H, NEW x, NEW a, a \in DOMAIN H, Fast(c, H, x, H[a])
  PROVE  IsQpc(H, a) /\ H[a].compressionType = FASTPATH /\ DOMAIN H[a].table = 1..Len(H[a].table)
<1>1. Record(H[a]) /\ H[a].compressionType = FASTPATH /\ H[a].table \in Seq(Rows)
  BY DEF Fast, Pointing
<1>2. H[a].kind = "qpc"
  <2>. DEFINE q == H[a]
  <2>1. Record(q)
    BY <1>1
  <2>. HIDE DEF q
  <2>2. q.kind = "qpc"
    BY <2>1 DEF Record
  <2>. QED
    BY <2>2 DEF q
<1>. QED
  BY <1>1, <1>2, IsList DEF IsQpc

\* Where nothing points, something else may be.
LEMMA PointingKept ==
  ASSUME NEW c, NEW H, NEW x, Unused(H, x),
         NEW a \in DOMAIN H, a # x, Fast(c, H, a, H[a]), Laid(H),
         NEW G, \A b \in DOMAIN H : b # x => b \in DOMAIN G /\ G[b] = H[b]
  PROVE  Fast(c, G, a, H[a])
<1>. DEFINE q == H[a]
            n == Len(q.table)
<1>1. Record(q) /\ q.compressionType = FASTPATH /\ q.table \in Seq(Rows)
  BY DEF Fast, Pointing
<1>2. PICK names : /\ Listing(c, names, n)
                   /\ \A i \in 1..n : \E b \in DOMAIN H \ {a, Own} : RowIn(c, H[b], b, names[i], q.table[i])
  BY DEF Fast, Pointing
<1>3. IsQpc(H, a) /\ DOMAIN q.table = 1..n
  BY FastIsQpc
<1>4. ASSUME NEW i \in 1..n
      PROVE  \E b \in DOMAIN G \ {a, Own} : RowIn(c, G[b], b, names[i], q.table[i])
  <2>1. PICK b \in DOMAIN H \ {a, Own} : RowIn(c, H[b], b, names[i], q.table[i])
    BY <1>2
  <2>2. b # x
    <3>. SUFFICES ASSUME b = x PROVE FALSE
      OBVIOUS
    <3>1. x <= q.table[i].start /\ q.table[i].start + q.table[i].size < x + Room /\ q.table[i] \in Rows
      BY <2>1 DEF RowIn
    <3>2. x \in Nat /\ Room \in Nat
      BY PlacesAre DEF Laid
    <3>3. q.table[i].start < x + Room
      <4>1. q.table[i].start \in Nat /\ q.table[i].size \in Nat
        BY <3>1 DEF Rows
      <4>. QED
        BY <3>1, <3>2, <4>1
    <3>4. q.table[i] \in Range(q.table)
      BY <1>3 DEF Range
    <3>5. Used(H, x)
      <4>. HIDE DEF q
      <4>1. \E s \in Range(q.table) : q.compressionType = FASTPATH /\ x <= s.start /\ s.start < x + Room
        BY <1>1, <3>1, <3>3, <3>4
      <4>2. a \in DOMAIN H \ {x}
        OBVIOUS
      <4>. QED
        BY <1>3, <4>1, <4>2 DEF Used, q
    <3>. QED
      BY <3>5, <2>1 DEF Unused
  <2>3. b \in DOMAIN G /\ G[b] = H[b]
    BY <2>2
  <2>. QED
    BY <2>1, <2>3
<1>. HIDE DEF q, n
<1>5. Pointing(c, G, a, q.table)
  BY <1>1, <1>2, <1>4 DEF Pointing, n
<1>6. Fast(c, G, a, q)
  BY <1>1, <1>5 DEF Fast
<1>. QED
  BY <1>6 DEF q

\* A block may come to a place that is free, or that nobody points to.
LEMMA FillContents ==
  ASSUME NEW c, NEW H, Contents(c, H), NEW x \in Places \ {AppMem, Temp},
         Unused(H, x),
         NEW q, Sound(q), Slow(c, q) \/ Fast(c, H, x, q), x = Own => Slow(c, q) /\ q.base = Own
  PROVE  Contents(c, Fill(H, x, q))
<1>. DEFINE G == Fill(H, x, q)
<1>1. DOMAIN G = DOMAIN H \cup {x} /\ G[x] = q /\ \A b \in DOMAIN H : b # x => b \in DOMAIN G /\ G[b] = H[b]
  BY DEF Fill
<1>. HIDE DEF G
<1>2. Laid(H)
  BY DEF Contents
<1>3. Laid(G)
  BY <1>1, <1>2 DEF Laid
<1>4. Temp \notin DOMAIN G
  BY <1>1 DEF Contents
<1>5. AppMem \in DOMAIN G => G[AppMem] = c.mem
  BY <1>1 DEF Contents
<1>6. ASSUME NEW a \in DOMAIN G, a # AppMem PROVE Slow(c, G[a]) \/ Fast(c, G, a, G[a])
  <2>1. CASE a = x
    <3>1. ASSUME Fast(c, H, x, q) PROVE Fast(c, G, x, q)
      <4>1. \A b \in DOMAIN H \ {x, Own} : b \in DOMAIN G \ {x, Own} /\ G[b] = H[b]
        BY <1>1
      <4>2. PICK names : /\ Listing(c, names, Len(q.table))
                         /\ \A i \in 1..Len(q.table) : \E b \in DOMAIN H \ {x, Own} :
                              RowIn(c, H[b], b, names[i], q.table[i])
        BY <3>1 DEF Fast, Pointing
      <4>3. \A i \in 1..Len(q.table) : \E b \in DOMAIN G \ {x, Own} :
              RowIn(c, G[b], b, names[i], q.table[i])
        BY <4>1, <4>2
      <4>. QED
        BY <3>1, <4>2, <4>3 DEF Fast, Pointing
    <3>. QED
      BY <2>1, <3>1, <1>1
  <2>2. CASE a # x
    <3>1. a \in DOMAIN H /\ G[a] = H[a]
      BY <1>1, <2>2
    <3>2. Slow(c, H[a]) \/ Fast(c, H, a, H[a])
      BY <1>6, <3>1 DEF Contents
    <3>3. Fast(c, H, a, H[a]) => Fast(c, G, a, H[a])
      BY <1>1, <1>2, <2>2, <3>1, PointingKept
    <3>. QED
      BY <3>1, <3>2, <3>3
  <2>. QED
    BY <2>1, <2>2
<1>7. Own \in DOMAIN G => Slow(c, G[Own]) /\ G[Own].base = Own
  BY <1>1 DEF Contents
<1>8. Contents(c, G)
  BY <1>3, <1>4, <1>5, <1>6, <1>7 DEF Contents
<1>. QED
  BY <1>8 DEF G

\* A block may leave that nobody points to.
LEMMA DropContents ==
  ASSUME NEW c, NEW H, Contents(c, H), NEW x, Unused(H, x)
  PROVE  Contents(c, Drop(H, x))
<1>. DEFINE G == Drop(H, x)
<1>1. DOMAIN G = DOMAIN H \ {x} /\ \A b \in DOMAIN H : b # x => b \in DOMAIN G /\ G[b] = H[b]
  BY DEF Drop
<1>. HIDE DEF G
<1>2. Laid(H)
  BY DEF Contents
<1>3. Laid(G)
  BY <1>1, <1>2 DEF Laid
<1>4. Temp \notin DOMAIN G /\ (AppMem \in DOMAIN G => G[AppMem] = c.mem)
  BY <1>1 DEF Contents
<1>6. ASSUME NEW a \in DOMAIN G, a # AppMem PROVE Slow(c, G[a]) \/ Fast(c, G, a, G[a])
  <2>1. a \in DOMAIN H /\ a # x /\ G[a] = H[a]
    BY <1>1
  <2>2. Slow(c, H[a]) \/ Fast(c, H, a, H[a])
    BY <1>6, <2>1 DEF Contents
  <2>3. Fast(c, H, a, H[a]) => Fast(c, G, a, H[a])
    BY <1>1, <1>2, <2>1, PointingKept
  <2>. QED
    BY <2>1, <2>2, <2>3
<1>7. Own \in DOMAIN G => Slow(c, G[Own]) /\ G[Own].base = Own
  BY <1>1 DEF Contents
<1>8. Contents(c, G)
  BY <1>3, <1>4, <1>6, <1>7 DEF Contents
<1>. QED
  BY <1>8 DEF G

\* Tables and what their rows lead to.
LEMMA QpcIs ==
  ASSUME NEW c \in Containers, NEW H, Contents(c, H), NEW a \in DOMAIN H, IsQpc(H, a)
  PROVE  a # AppMem /\ (Slow(c, H[a]) \/ Fast(c, H, a, H[a]))
<1>1. a # AppMem
  BY CompilerAssumption DEF Contents, IsQpc
<1>. QED
  BY <1>1 DEF Contents

\* A table that points finds what was compiled.
LEMMA PointingSees ==
  ASSUME NEW c \in Containers, NEW H, Laid(H), NEW x, NEW table, Pointing(c, H, x, table)
  PROVE  Sees(c, H, table)
<1>1. PICK names : /\ Listing(c, names, Len(table))
                   /\ \A i \in 1..Len(table) : \E b \in DOMAIN H \ {x, Own} :
                        RowIn(c, H[b], b, names[i], table[i])
  BY DEF Pointing
<1>2. ASSUME NEW i \in 1..Len(table) PROVE RowSeen(c, H, names[i], table[i])
  <2>1. PICK b \in DOMAIN H \ {x, Own} : RowIn(c, H[b], b, names[i], table[i])
    BY <1>1
  <2>2. names[i] \in NamesOf(c)
    BY <1>1 DEF Listing
  <2>. QED
    BY <2>1, <2>2, RowRead
<1>3. table \in Seq(Rows)
  BY DEF Pointing
<1>. QED
  BY <1>1, <1>2, <1>3 DEF Sees

\* An empty table points to nothing.
LEMMA EmptyPoints ==
  ASSUME NEW c, NEW H, NEW x
  PROVE  Pointing(c, H, x, <<>>)
<1>1. Listing(c, [i \in 1..0 |-> 0], 0)
  BY DEF Listing
<1>2. Len(<<>>) = 0 /\ <<>> \in Seq(Rows) /\ 1..0 = {}
  OBVIOUS
<1>. QED
  BY <1>1, <1>2 DEF Pointing

\* The table of the compiler points to the memory of the application.
LEMMA SourcePoints ==
  ASSUME NEW c \in Containers, NEW H, Contents(c, H), AppMem \in DOMAIN H, NEW x, x # AppMem
  PROVE  Pointing(c, H, x, c.segs)
<1>. DEFINE n == Len(c.segs)
            names == [i \in 1..n |-> NameIn(c, c.segs[i])]
<1>1. c.segs \in Seq(Rows) /\ DOMAIN c.segs = 1..n /\ n \in Nat /\ Sound(c.mem)
  BY CompilerAssumption, IsList DEF Rows
<1>2. ASSUME NEW i \in 1..n
      PROVE  names[i] \in NamesOf(c) /\ RowIn(c, c.mem, AppMem, names[i], c.segs[i])
  <2>. DEFINE s == c.segs[i]
              m == NameIn(c, s)
  <2>1. /\ s \in Rows /\ m \in NamesOf(c) /\ SegmentOf(c, m) = s
        /\ s.name - AppMem \in DOMAIN c.mem.names /\ s.start - AppMem \in DOMAIN c.mem.bodies
        /\ DataOf(c, m) = DataIn(c, s) /\ DataIn(c, s).len = s.size
    BY SegmentIs
  <2>2. m = c.mem.names[s.name - AppMem] /\ DataIn(c, s) = c.mem.bodies[s.start - AppMem]
    BY DEF NameIn, DataIn
  <2>3. s.start - AppMem \in Nat /\ (s.start - AppMem) + s.size < Room
    BY <1>1, <2>1, <2>2 DEF Sound
  <2>4. names[i] = m
    OBVIOUS
  <2>. HIDE DEF s, m, names
  <2>5. s.start \in Nat /\ s.size \in Nat /\ AppMem \in Nat /\ Room \in Nat
    BY <2>1, PlacesAre DEF Rows
  <2>6. AppMem <= s.start /\ s.start + s.size < AppMem + Room
    BY <2>3, <2>5
  <2>7. Form(c, m, DataIn(c, s))
    BY <2>1 DEF Form
  <2>8. RowIn(c, c.mem, AppMem, m, s)
    BY <2>1, <2>2, <2>6, <2>7 DEF RowIn
  <2>. QED
    BY <2>1, <2>4, <2>8 DEF s
<1>3. ASSUME NEW k \in NamesOf(c) PROVE \E i \in 1..n : names[i] = k
  BY <1>1 DEF NamesOf, Range
<1>4. Listing(c, names, n)
  BY <1>2, <1>3 DEF Listing
<1>5. AppMem \in DOMAIN H \ {x, Own} /\ H[AppMem] = c.mem
  BY PlacesAre DEF Contents
<1>. HIDE DEF names
<1>. QED
  BY <1>1, <1>2, <1>4, <1>5 DEF Pointing

\* The rows of a handle point to what it carries.
LEMMA TablePoints ==
  ASSUME NEW c \in Containers, NEW H, Contents(c, H), NEW a \in DOMAIN H, IsQpc(H, a), a # Own,
         NEW x, x \notin DOMAIN H
  PROVE  Pointing(c, H, x, Table(H, a))
<1>1. a # AppMem /\ (Slow(c, H[a]) \/ Fast(c, H, a, H[a]))
  BY QpcIs
<1>2. CASE H[a].images # a + SizeofQAicQpc
  <2>1. Table(H, a) = <<>>
    BY <1>2 DEF Table
  <2>. QED
    BY <2>1, EmptyPoints
<1>3. CASE H[a].images = a + SizeofQAicQpc
  <2>0. Table(H, a) = H[a].table
    BY <1>3 DEF Table
  <2>1. CASE Slow(c, H[a])
    <3>1. a \in Nat \ {0}
      BY PlacesAre DEF Contents, Laid
    <3>2. H[a].base = a
      <4>1. H[a].base \in Nat /\ (H[a].images = H[a].base + SizeofQAicQpc \/ H[a].images = 0)
        BY <2>1 DEF Slow, NullPtr
      <4>. QED
        BY <4>1, <1>3, <3>1 DEF SizeofQAicQpc
    <3>3. PICK names : /\ Listing(c, names, Len(H[a].table))
                       /\ \A i \in 1..Len(H[a].table) : RowIn(c, H[a], H[a].base, names[i], H[a].table[i])
      BY <2>1 DEF Slow
    <3>4. a \in DOMAIN H \ {x, Own} /\ H[a].table \in Seq(Rows)
      BY <2>1 DEF Slow
    <3>5. \A i \in 1..Len(H[a].table) : \E b \in DOMAIN H \ {x, Own} :
             RowIn(c, H[b], b, names[i], H[a].table[i])
      BY <3>2, <3>3, <3>4
    <3>. QED
      BY <2>0, <3>3, <3>4, <3>5 DEF Pointing
  <2>2. CASE Fast(c, H, a, H[a])
    <3>1. PICK names : /\ Listing(c, names, Len(H[a].table))
                       /\ \A i \in 1..Len(H[a].table) : \E b \in DOMAIN H \ {a, Own} :
                            RowIn(c, H[b], b, names[i], H[a].table[i])
      BY <2>2 DEF Fast, Pointing
    <3>2. \A i \in 1..Len(H[a].table) : \E b \in DOMAIN H \ {x, Own} :
             RowIn(c, H[b], b, names[i], H[a].table[i])
      BY <3>1
    <3>3. H[a].table \in Seq(Rows)
      BY <2>2 DEF Fast, Pointing
    <3>. QED
      BY <2>0, <3>1, <3>2, <3>3 DEF Pointing
  <2>. QED
    BY <1>1, <2>1, <2>2
<1>. QED
  BY <1>2, <1>3

-----------------------------------------------------------------------------
(* ProgramContainer: conversion.                                           *)

\* One element leaves and another comes at the end.
LastIs(s, i, e, t) ==
  /\ Len(t) = Len(s) /\ t[Len(s)] = e
  /\ \A k \in 1..Len(s) : k < i => t[k] = s[k]
  /\ \A k \in 1..Len(s) : i <= k /\ k < Len(s) => t[k] = s[k + 1]

\* The names of a table whose i-th row was replaced by a row at its end.
LEMMA ReplacedList ==
  ASSUME NEW R, NEW s \in Seq(R), NEW i \in 1..Len(s), NEW e \in R
  PROVE  ReplaceElf(s, i, e) \in Seq(R) /\ LastIs(s, i, e, ReplaceElf(s, i, e))
<1>. DEFINE n == Len(s)
            u == SubSeq(s, 1, i - 1)
            v == SubSeq(s, i + 1, n)
            r == u \o v
            t == Append(r, e)
<1>1. n \in Nat /\ \A k \in 1..n : s[k] \in R
  BY IsList
<1>2. u \in Seq(R) /\ Len(u) = i - 1 /\ \A k \in 1..(i - 1) : u[k] = s[k]
  <2>1. \A k \in 1..(i - 1) : s[k] \in R
    BY <1>1
  <2>2. /\ u \in Seq(R) /\ Len(u) = IF 1 <= i - 1 THEN i - 1 - 1 + 1 ELSE 0
        /\ \A k \in 1..(i - 1 - 1 + 1) : u[k] = s[1 + k - 1]
    BY <2>1, <1>1, SubSeqProperties
  <2>3. Len(u) = i - 1
    BY <2>2, <1>1
  <2>. HIDE DEF u
  <2>4. ASSUME NEW k \in 1..(i - 1) PROVE u[k] = s[k]
    <3>1. k \in 1..(i - 1 - 1 + 1) /\ 1 + k - 1 = k
      BY <1>1
    <3>. QED
      BY <2>2, <3>1
  <2>. QED
    BY <2>2, <2>3, <2>4
<1>3. v \in Seq(R) /\ Len(v) = n - i /\ \A k \in 1..(n - i) : v[k] = s[i + k]
  <2>1. \A k \in (i + 1)..n : s[k] \in R
    BY <1>1
  <2>2. /\ v \in Seq(R) /\ Len(v) = IF i + 1 <= n THEN n - (i + 1) + 1 ELSE 0
        /\ \A k \in 1..(n - (i + 1) + 1) : v[k] = s[i + 1 + k - 1]
    BY <2>1, <1>1, SubSeqProperties
  <2>3. Len(v) = n - i
    BY <2>2, <1>1
  <2>. HIDE DEF v
  <2>4. ASSUME NEW k \in 1..(n - i) PROVE v[k] = s[i + k]
    <3>1. k \in 1..(n - (i + 1) + 1) /\ i + 1 + k - 1 = i + k
      BY <1>1
    <3>. QED
      BY <2>2, <3>1
  <2>. QED
    BY <2>2, <2>3, <2>4
<1>. HIDE DEF u, v, n
<1>4. i \in Nat /\ i >= 1 /\ i <= n
  BY <1>1 DEF n
<1>5. r \in Seq(R) /\ Len(r) = n - 1
      /\ \A k \in 1..(n - 1) : r[k] = IF k <= i - 1 THEN u[k] ELSE v[k - (i - 1)]
  <2>1. (i - 1) + (n - i) = n - 1
    BY <1>1, <1>4
  <2>2. Len(r) = n - 1 /\ r \in Seq(R)
    <3>1. u \in Seq(R) /\ v \in Seq(R)
      BY <1>2, <1>3
    <3>2. Len(r) = Len(u) + Len(v) /\ r \in Seq(R)
      BY ONLY <3>1, ConcatProperties
    <3>. HIDE DEF r
    <3>. QED
      BY <3>2, <2>1, <1>2, <1>3
  <2>3. \A k \in 1..(Len(u) + Len(v)) : r[k] = IF k <= Len(u) THEN u[k] ELSE v[k - Len(u)]
    BY <1>2, <1>3
  <2>. QED
    BY <1>2, <1>3, <2>1, <2>2, <2>3
<1>. HIDE DEF r
<1>6. t \in Seq(R) /\ Len(t) = n /\ t[n] = e /\ \A k \in 1..(n - 1) : t[k] = r[k]
  BY <1>1, <1>4, <1>5
<1>. HIDE DEF t
<1>7. ASSUME NEW k \in 1..n, k < i PROVE t[k] = s[k]
  <2>1. k \in 1..(n - 1) /\ k <= i - 1 /\ k \in 1..(i - 1)
    BY <1>1, <1>4, <1>7
  <2>. QED
    BY <2>1, <1>2, <1>5, <1>6
<1>8. ASSUME NEW k \in 1..n, i <= k, k < n PROVE t[k] = s[k + 1]
  <2>1. k \in 1..(n - 1) /\ ~(k <= i - 1) /\ k - (i - 1) \in 1..(n - i) /\ i + (k - (i - 1)) = k + 1
    BY <1>1, <1>4, <1>8
  <2>. QED
    BY <2>1, <1>3, <1>5, <1>6
<1>9. ReplaceElf(s, i, e) = t
  BY DEF ReplaceElf, RemoveAt, t, r, u, v, n
<1>. QED
  BY <1>6, <1>7, <1>8, <1>9 DEF LastIs, n

\* What convertNetworkElfSection serializes: the segments with the converted ELF
\* in place of the one found.
ElfSize(s, elf)  == s.size + Len(Convert(elf.of.sections)) - Len(elf.of.sections)

\* The converted ELF, its temporary block and the row that leads to it.
NewElf(elf, size) == Slice([elf.of EXCEPT !.sections = Convert(elf.of.sections)], 0, size)
ElfBlock(e)      == Block(NoCells, [o \in {0} |-> e])
ElfRow(s, size)  == [s EXCEPT !.start = Temp, !.size = size, !.offset = 0]

\* The row of the converted ELF leads to it.
LEMMA RowOfElf ==
  ASSUME NEW s, s = [name |-> s.name, start |-> s.start, size |-> s.size, offset |-> s.offset], NEW size
  PROVE  ElfRow(s, size) = [name |-> s.name, start |-> Temp, size |-> size, offset |-> 0]
<1>. DEFINE nm == s.name
            st == s.start
            sz == s.size
            os == s.offset
<1>1. s = [name |-> nm, start |-> st, size |-> sz, offset |-> os]
  OBVIOUS
<1>. HIDE DEF nm, st, sz, os
<1>2. [[name |-> nm, start |-> st, size |-> sz, offset |-> os] EXCEPT !.start = Temp]
      = [name |-> nm, start |-> Temp, size |-> sz, offset |-> os]
  OBVIOUS
<1>3. [[name |-> nm, start |-> Temp, size |-> sz, offset |-> os] EXCEPT !.size = size]
      = [name |-> nm, start |-> Temp, size |-> size, offset |-> os]
  OBVIOUS
<1>4. [[name |-> nm, start |-> Temp, size |-> size, offset |-> os] EXCEPT !.offset = 0]
      = [name |-> nm, start |-> Temp, size |-> size, offset |-> 0]
  OBVIOUS
<1>5. ElfRow(s, size) = [[[s EXCEPT !.start = Temp] EXCEPT !.size = size] EXCEPT !.offset = 0]
  BY DEF ElfRow
<1>6. ElfRow(s, size) = [name |-> nm, start |-> Temp, size |-> size, offset |-> 0]
  BY <1>1, <1>2, <1>3, <1>4, <1>5, Zenon
<1>. QED
  BY <1>6 DEF nm

\* With its network.elf replaced a table finds a form of all segments.
LEMMA ConvertedSees ==
  ASSUME NEW c \in Containers, NEW H, Contents(c, H), NEW a \in DOMAIN H, IsQpc(H, a), a # Own,
         NEW i, i = SegmentIndex(H, Table(H, a), "networkElf"), i # 0,
         NEW elf, elf = DataAt(H, Table(H, a)[i].start, Table(H, a)[i].size),
         SectionIndex(elf.of.sections, Metadata) # 0, ElfSize(Table(H, a)[i], elf) < Room
  PROVE  LET size == ElfSize(Table(H, a)[i], elf) IN
         Sees(c, Fill(H, Temp, ElfBlock(NewElf(elf, size))),
              ReplaceElf(Table(H, a), i, ElfRow(Table(H, a)[i], size)))
<1>. DEFINE segs == Table(H, a)
            n == Len(segs)
            size == ElfSize(segs[i], elf)
            e == NewElf(elf, size)
            block == ElfBlock(e)
            G == Fill(H, Temp, block)
            seg == ElfRow(segs[i], size)
            t == ReplaceElf(segs, i, seg)
<1>1. Temp \notin DOMAIN H /\ Laid(H) /\ Temp \in Nat /\ Room \in Nat /\ Temp \in Places
  BY PlacesAre DEF Contents
<1>2. Pointing(c, H, Temp, segs)
  BY <1>1, TablePoints
<1>. HIDE DEF n
<1>3. PICK names : /\ Listing(c, names, n)
                   /\ \A k \in 1..n : \E b \in DOMAIN H \ {Temp, Own} : RowIn(c, H[b], b, names[k], segs[k])
  BY <1>2 DEF Pointing, n
<1>4. segs \in Seq(Rows)
  BY <1>2 DEF Pointing
<1>5. n \in Nat /\ \A k \in 1..n : segs[k] \in Rows /\ names[k] \in NamesOf(c)
  BY <1>3, <1>4, IsList DEF Listing, n
<1>6. i \in 1..n /\ NameAt(H, segs[i].name) = "networkElf"
  BY <1>5, FirstRow DEF n
<1>7. \A k \in 1..n : RowSeen(c, H, names[k], segs[k])
  BY <1>1, <1>3, <1>5, RowRead
<1>8. names[i] = "networkElf" /\ "networkElf" \in NamesOf(c)
  BY <1>5, <1>6, <1>7 DEF RowSeen
<1>9. PICK d : /\ Form(c, "networkElf", d) /\ d.len = segs[i].size
               /\ segs[i].size > 0 => DataAt(H, segs[i].start, segs[i].size) = d
  BY <1>6, <1>7, <1>8 DEF RowSeen
<1>10. d.len > 0 /\ elf = d
  BY <1>8, <1>9, FormIs
<1>11. e = Converted(d)
  BY <1>9, <1>10 DEF Converted, NewElf, ElfSize
<1>12. Form(c, "networkElf", e)
  BY <1>8, <1>9, <1>10, <1>11, FormConverts
<1>13. e.len = size
  BY DEF Slice, NewElf
<1>. HIDE DEF e, size
<1>13b. size < Room
  BY DEF size
<1>14. e.len \in Nat /\ e.len > 0 /\ e = Slice(e.of, 0, e.len)
  BY <1>8, <1>12, FormIs
<1>15. block.names = NoCells /\ block.bodies = [o \in {0} |-> e]
  BY DEF Block, ElfBlock
<1>16. Sound(block)
  <2>. HIDE DEF block
  <2>1. DOMAIN block.names = {} /\ DOMAIN block.bodies = {0} /\ block.bodies[0] = e
    BY <1>15 DEF NoCells
  <2>. QED
    BY <2>1, <1>1, <1>13, <1>13b, <1>14 DEF Sound
<1>17. DOMAIN G = DOMAIN H \cup {Temp} /\ G[Temp] = block /\ \A b \in DOMAIN H : G[b] = H[b]
  BY <1>1 DEF Fill
<1>. HIDE DEF block, G
<1>18. Laid(G)
  BY <1>1, <1>16, <1>17 DEF Laid
<1>19. \A k \in 1..n : RowSeen(c, G, names[k], segs[k])
  <2>. TAKE k \in 1..n
  <2>1. PICK b \in DOMAIN H \ {Temp, Own} : RowIn(c, H[b], b, names[k], segs[k])
    BY <1>3
  <2>2. b \in DOMAIN G /\ RowIn(c, G[b], b, names[k], segs[k])
    BY <2>1, <1>17
  <2>. QED
    BY <2>2, <1>5, <1>18, RowRead
<1>20. RowSeen(c, G, "networkElf", seg)
  <2>1. segs[i] \in [name : Nat, start : Nat, size : Nat, offset : Nat]
    BY <1>5, <1>6 DEF Rows
  <2>2. seg = [name |-> segs[i].name, start |-> Temp, size |-> size, offset |-> 0]
    <3>. DEFINE s == segs[i]
    <3>1. s = [name |-> s.name, start |-> s.start, size |-> s.size, offset |-> s.offset]
      BY <2>1
    <3>. HIDE DEF s, size
    <3>2. ElfRow(s, size) = [name |-> s.name, start |-> Temp, size |-> size, offset |-> 0]
      BY <3>1, RowOfElf
    <3>. QED
      BY <3>2 DEF s
  <2>. HIDE DEF seg, segs
  <2>3. seg \in Rows
    BY <2>1, <2>2, <1>1, <1>13, <1>14 DEF Rows
  <2>4. NameAt(G, seg.name) = "networkElf"
    BY <2>2, <1>6, <1>8, <1>19 DEF RowSeen
  <2>5. seg.offset = SegmentOf(c, "networkElf").offset
    BY <2>2, <1>8, CompiledIs
  <2>6. DataAt(G, Temp, size) = e
    <3>1. 0 \in DOMAIN G[Temp].bodies /\ G[Temp].bodies[0] = e
      BY <1>15, <1>17
    <3>2. DataAt(G, Temp, size) = Slice(e.of, Temp - Temp - 0, size)
      <4>1. Temp + 0 <= Temp /\ Temp + size <= Temp + 0 + G[Temp].bodies[0].len /\ size \in Nat /\ size > 0
        BY <3>1, <1>1, <1>13, <1>14
      <4>. QED
        BY <1>1, <1>17, <1>18, <3>1, <4>1, DataRead
    <3>3. Temp - Temp - 0 = 0
      BY <1>1
    <3>. QED
      BY <3>2, <3>3, <1>13, <1>14
  <2>. QED
    BY <2>2, <2>3, <2>4, <2>5, <2>6, <1>12, <1>13 DEF RowSeen
<1>. HIDE DEF seg
<1>21. seg \in Rows
  BY <1>20 DEF RowSeen
<1>22. t \in Seq(Rows) /\ LastIs(segs, i, seg, t)
  BY <1>4, <1>6, <1>21, ReplacedList DEF n
<1>. HIDE DEF t
<1>. HIDE DEF segs
<1>. DEFINE m == [k \in 1..n |-> IF k = n THEN "networkElf" ELSE IF k < i THEN names[k] ELSE names[k + 1]]
<1>23. /\ Len(t) = n /\ t[n] = seg
       /\ \A k \in 1..n : k < i => t[k] = segs[k]
       /\ \A k \in 1..n : i <= k /\ k < n => t[k] = segs[k + 1]
  BY <1>22 DEF LastIs, n
<1>24. ASSUME NEW k \in 1..n PROVE m[k] \in NamesOf(c) /\ RowSeen(c, G, m[k], t[k])
  <2>1. CASE k = n
    BY <2>1, <1>8, <1>20, <1>23
  <2>2. CASE k # n /\ k < i
    BY <2>2, <1>5, <1>19, <1>23
  <2>3. CASE k # n /\ ~(k < i)
    <3>1. k + 1 \in 1..n /\ i <= k /\ k < n
      BY <2>3, <1>5, <1>6
    <3>2. m[k] = names[k + 1] /\ t[k] = segs[k + 1]
      BY <2>3, <3>1, <1>23
    <3>. QED
      BY <3>1, <3>2, <1>5, <1>19
  <2>. QED
    BY <2>1, <2>2, <2>3
<1>25. ASSUME NEW x \in NamesOf(c) PROVE \E k \in 1..n : m[k] = x
  <2>0. n \in 1..n /\ n # 0
    BY <1>5, <1>6
  <2>1. PICK j \in 1..n : names[j] = x
    BY <1>3, <2>0 DEF Listing
  <2>2. CASE j = i
    BY <2>0, <2>1, <2>2, <1>8
  <2>3. CASE j < i
    <3>1. j # n /\ m[j] = names[j]
      BY <2>3, <1>5, <1>6
    <3>. QED
      BY <3>1, <2>1
  <2>4. CASE j > i
    <3>1. j - 1 \in 1..n /\ j - 1 # n /\ ~(j - 1 < i) /\ (j - 1) + 1 = j
      BY <2>4, <1>5, <1>6
    <3>2. m[j - 1] = names[(j - 1) + 1]
      BY <3>1
    <3>. QED
      BY <3>1, <3>2, <2>1
  <2>. QED
    BY <2>2, <2>3, <2>4, <1>5, <1>6
<1>26. Listing(c, m, n)
  BY <1>24, <1>25 DEF Listing
<1>. HIDE DEF m
<1>. QED
  <2>1. Sees(c, G, t)
    BY <1>22, <1>23, <1>24, <1>26 DEF Sees
  <2>. QED
    BY <2>1 DEF t, G, block, e, seg, size, segs

-----------------------------------------------------------------------------
(* ProgramContainer: what the library finds in its buffer.                 *)

\* The library has a buffer, which carries its data.
Opened(c, H) ==
  /\ Own \in DOMAIN H /\ Laid(H) /\ Slow(c, H[Own])
  /\ H[Own].base = Own /\ H[Own].images = Own + SizeofQAicQpc

\* The row of a name in the buffer of the library.
Entry(H, name) == SegmentIndex(H, H[Own].table, name)
Row(H, name)   == H[Own].table[Entry(H, name)]

\* An open container has its table, and a name for every row.
LEMMA OpenedIs ==
  ASSUME NEW c \in Containers, NEW H, Opened(c, H)
  PROVE  /\ Own \in Nat /\ Room \in Nat
         /\ IsQpc(H, Own) /\ Table(H, Own) = H[Own].table
         /\ H[Own].table \in Seq(Rows) /\ Len(H[Own].table) \in Nat
         /\ DOMAIN H[Own].table = 1..Len(H[Own].table)
         /\ H[Own].compressionType = SLOWPATH
<1>. DEFINE q == H[Own]
<1>1. Record(q) /\ q.table \in Seq(Rows) /\ q.compressionType = SLOWPATH
  BY DEF Opened, Slow
<1>. HIDE DEF q
<1>2. q.kind = "qpc"
  BY <1>1 DEF Record
<1>3. Len(q.table) \in Nat /\ DOMAIN q.table = 1..Len(q.table)
  BY <1>1, IsList
<1>. QED
  BY <1>1, <1>2, <1>3, PlacesAre DEF Opened, IsQpc, Table, q

\* A row in the buffer of the library leads to a form of its segment.
LEMMA OwnRow ==
  ASSUME NEW c \in Containers, NEW H, Opened(c, H), NEW k \in 1..Len(H[Own].table)
  PROVE  LET s == H[Own].table[k]
             n == NameAt(H, s.name)
         IN n \in NamesOf(c) /\ RowIn(c, H[Own], Own, n, s) /\ RowSeen(c, H, n, s)
<1>. DEFINE s == H[Own].table[k]
<1>1. PICK names : /\ Listing(c, names, Len(H[Own].table))
                   /\ \A i \in 1..Len(H[Own].table) :
                        RowIn(c, H[Own], H[Own].base, names[i], H[Own].table[i])
  BY DEF Opened, Slow
<1>2. names[k] \in NamesOf(c) /\ RowIn(c, H[Own], Own, names[k], s)
  BY <1>1 DEF Opened, Listing
<1>. HIDE DEF s
<1>3. RowSeen(c, H, names[k], s)
  BY <1>2, RowRead DEF Opened
<1>4. NameAt(H, s.name) = names[k]
  BY <1>3 DEF RowSeen
<1>. QED
  BY <1>2, <1>3, <1>4 DEF s

\* The names in the table are those of the compiler, when it is not empty.
LEMMA OwnNames ==
  ASSUME NEW c \in Containers, NEW H, Opened(c, H), Len(H[Own].table) # 0, NEW x \in NamesOf(c)
  PROVE  \E k \in 1..Len(H[Own].table) : NameAt(H, H[Own].table[k].name) = x
<1>1. PICK names : /\ Listing(c, names, Len(H[Own].table))
                   /\ \A i \in 1..Len(H[Own].table) :
                        RowIn(c, H[Own], H[Own].base, names[i], H[Own].table[i])
  BY DEF Opened, Slow
<1>2. PICK k \in 1..Len(H[Own].table) : names[k] = x
  BY <1>1 DEF Listing
<1>3. RowIn(c, H[Own], Own, x, H[Own].table[k])
  BY <1>1, <1>2 DEF Opened
<1>4. RowSeen(c, H, x, H[Own].table[k])
  BY <1>3, RowRead DEF Opened
<1>. QED
  BY <1>4 DEF RowSeen

\* A search by name finds the row of that name.
LEMMA EntryIs ==
  ASSUME NEW c \in Containers, NEW H, Opened(c, H), NEW name
  PROVE  /\ getQPCSegment(H, Own, name, 0) = 
              IF Entry(H, name) = 0 THEN NotFound
              ELSE IF Row(H, name).offset > 0
              THEN [found |-> TRUE, buf |-> Row(H, name).start, size |-> Row(H, name).offset]
              ELSE [found |-> TRUE, buf |-> Row(H, name).start + Row(H, name).offset,
                    size |-> Row(H, name).size - Row(H, name).offset]
         /\ getQPCSegment(H, Own, name, 1) = 
              IF Entry(H, name) = 0 THEN NotFound
              ELSE [found |-> TRUE, buf |-> Row(H, name).start + Row(H, name).offset,
                    size |-> Row(H, name).size - Row(H, name).offset]
         /\ Entry(H, name) # 0 => /\ Entry(H, name) \in 1..Len(H[Own].table) /\ name \in NamesOf(c)
                                  /\ RowIn(c, H[Own], Own, name, Row(H, name))
<1>1. IsQpc(H, Own) /\ Table(H, Own) = H[Own].table /\ Len(H[Own].table) \in Nat
  BY OpenedIs
<1>2. Entry(H, name) # 0 => /\ Entry(H, name) \in 1..Len(H[Own].table)
                            /\ NameAt(H, H[Own].table[Entry(H, name)].name) = name
  BY <1>1, FirstRow DEF Entry
<1>3. Entry(H, name) # 0 => name \in NamesOf(c) /\ RowIn(c, H[Own], Own, name, Row(H, name))
  BY <1>2, OwnRow DEF Row
<1>4. \A o : getQPCSegment(H, Own, name, o) =
              IF Entry(H, name) = 0 THEN NotFound
              ELSE IF Row(H, name).offset > 0 /\ o = 0
              THEN [found |-> TRUE, buf |-> Row(H, name).start, size |-> Row(H, name).offset]
              ELSE [found |-> TRUE, buf |-> Row(H, name).start + Row(H, name).offset,
                    size |-> Row(H, name).size - Row(H, name).offset]
  BY <1>1 DEF getQPCSegment, Entry, Row
<1>. QED
  BY <1>2, <1>3, <1>4, 1 # 0

\* A part of a segment.
LEMMA PartRead ==
  ASSUME NEW c \in Containers, NEW H, Opened(c, H), NEW n \in NamesOf(c), NEW s,
         RowIn(c, H[Own], Own, n, s), NEW k \in Nat, NEW m \in Nat, m > 0, k + m <= s.size
  PROVE  \E d : /\ Form(c, n, d) /\ d.len = s.size
                /\ DataAt(H, s.start + k, m) = Slice(d.of, k, m)
<1>1. PICK d : /\ Form(c, n, d) /\ d.len = s.size
               /\ s.size > 0 => /\ s.start - Own \in DOMAIN H[Own].bodies
                                /\ H[Own].bodies[s.start - Own] = d
  BY DEF RowIn
<1>2. s \in Rows /\ Own <= s.start /\ Own \in Nat
  BY OpenedIs DEF RowIn
<1>3. s.start \in Nat /\ s.size \in Nat
  BY <1>2 DEF Rows
<1>4. s.size > 0
  BY <1>3
<1>. DEFINE o == s.start - Own
<1>5. o \in DOMAIN H[Own].bodies /\ H[Own].bodies[o] = d /\ o \in Nat
  BY <1>1, <1>2, <1>3, <1>4
<1>. DEFINE p == s.start + k
<1>6. p \in Int /\ Own + o <= p /\ p + m <= Own + o + s.size /\ p - Own - o = k
  BY <1>2, <1>3
<1>. HIDE DEF o, p
<1>7. Laid(H) /\ Own \in DOMAIN H
  BY DEF Opened
<1>8. DataAt(H, p, m) = Slice(d.of, k, m)
  <2>1. p + m <= Own + o + H[Own].bodies[o].len
    BY <1>1, <1>5, <1>6
  <2>2. DataAt(H, p, m) = Slice(H[Own].bodies[o].of, p - Own - o, m)
    BY <1>5, <1>6, <1>7, <2>1, DataRead
  <2>. QED
    BY <1>5, <1>6, <2>2, Zenon
<1>. QED
  BY <1>1, <1>8 DEF p

\* The buffer of the library is read as before when only others have changed.
SameOwn(H, G) ==
  /\ \A name : Get(G, name) = Get(H, name)
  /\ getQPCSegment(G, Own, "constants", 1) = getQPCSegment(H, Own, "constants", 1)
  /\ LET g == Get(H, "networkElf") IN g.found => DataAt(G, g.buf, g.size) = DataAt(H, g.buf, g.size)

\* What a search finds depends on the row alone.
FoundAs(e, row) ==
  IF e = 0 THEN NotFound
  ELSE IF row.offset > 0 THEN [found |-> TRUE, buf |-> row.start, size |-> row.offset]
  ELSE [found |-> TRUE, buf |-> row.start + row.offset, size |-> row.size - row.offset]

RestAs(e, row) ==
  IF e = 0 THEN NotFound
  ELSE [found |-> TRUE, buf |-> row.start + row.offset, size |-> row.size - row.offset]

LEMMA EntryAs ==
  ASSUME NEW c \in Containers, NEW H, Opened(c, H), NEW name
  PROVE  /\ getQPCSegment(H, Own, name, 0) = FoundAs(Entry(H, name), Row(H, name))
         /\ getQPCSegment(H, Own, name, 1) = RestAs(Entry(H, name), Row(H, name))
BY EntryIs DEF FoundAs, RestAs

\* With the same buffer of the library all searches find the same.
LEMMA OwnKept ==
  ASSUME NEW c \in Containers, NEW H, Opened(c, H), NEW G, Opened(c, G), G[Own] = H[Own]
  PROVE  SameOwn(H, G)
<1>. DEFINE n == Len(H[Own].table)
<1>1. \A k \in 1..n : NameAt(G, H[Own].table[k].name) = NameAt(H, H[Own].table[k].name)
  <2>. TAKE k \in 1..n
  <2>. DEFINE s == H[Own].table[k]
              x == NameAt(H, s.name)
  <2>1. x \in NamesOf(c) /\ RowIn(c, H[Own], Own, x, s)
    BY OwnRow
  <2>. HIDE DEF s, x
  <2>2. RowIn(c, G[Own], Own, x, s)
    BY <2>1
  <2>3. RowSeen(c, G, x, s)
    BY <2>1, <2>2, RowRead DEF Opened
  <2>4. NameAt(G, s.name) = x
    BY <2>3 DEF RowSeen
  <2>. QED
    BY <2>4 DEF x, s
<1>. HIDE DEF n
<1>2. \A name : Entry(G, name) = Entry(H, name) /\ Row(G, name) = Row(H, name)
  BY <1>1, SameRow DEF Entry, Row, n
<1>3. \A name : Get(G, name) = Get(H, name)
  <2>. TAKE name
  <2>1. getQPCSegment(G, Own, name, 0) = getQPCSegment(H, Own, name, 0)
    BY <1>2, EntryAs
  <2>. QED
    BY <2>1 DEF Get
<1>4. getQPCSegment(G, Own, "constants", 1) = getQPCSegment(H, Own, "constants", 1)
  BY <1>2, EntryAs
<1>5. ASSUME Get(H, "networkElf").found
      PROVE  DataAt(G, Get(H, "networkElf").buf, Get(H, "networkElf").size)
             = DataAt(H, Get(H, "networkElf").buf, Get(H, "networkElf").size)
  <2>. DEFINE s == Row(H, "networkElf")
  <2>1. Entry(H, "networkElf") # 0
    BY <1>5, EntryIs DEF Get, NotFound
  <2>2. "networkElf" \in NamesOf(c) /\ RowIn(c, H[Own], Own, "networkElf", s)
    BY <2>1, EntryIs
  <2>3. Get(H, "networkElf") = [found |-> TRUE, buf |-> s.start + s.offset, size |-> s.size - s.offset]
    <3>1. s.offset = 0
      BY <2>2, CompiledIs DEF RowIn
    <3>2. ~(s.offset > 0)
      BY <3>1
    <3>. QED
      BY <2>1, <3>2, EntryIs DEF Get
  <2>. HIDE DEF s
  <2>4. s.offset = 0 /\ s \in Rows
    BY <2>2, CompiledIs DEF RowIn
  <2>5. Get(H, "networkElf").buf = s.start /\ Get(H, "networkElf").size = s.size
    BY <2>3, <2>4 DEF Rows
  <2>6. PICK d : Form(c, "networkElf", d) /\ d.len = s.size /\
                 s.size > 0 => DataAt(H, s.start, s.size) = d
    BY <2>2, RowRead DEF RowSeen, Opened
  <2>7. RowIn(c, G[Own], Own, "networkElf", s)
    BY <2>2
  <2>. QED
    <3>1. PICK e : /\ Form(c, "networkElf", e) /\ e.len = s.size
                   /\ s.size > 0 => /\ s.start - Own \in DOMAIN H[Own].bodies
                                    /\ H[Own].bodies[s.start - Own] = e
      BY <2>2 DEF RowIn
    <3>2. s.size > 0 /\ s.size \in Nat /\ s.start \in Nat /\ Own \in Nat /\ Own <= s.start
      BY <3>1, <2>2, <2>4, FormIs, OpenedIs DEF Rows, RowIn
    <3>. DEFINE o == s.start - Own
    <3>3. /\ o \in DOMAIN H[Own].bodies /\ H[Own].bodies[o] = e
          /\ Own + o <= s.start /\ s.start + s.size <= Own + o + s.size
      BY <3>1, <3>2
    <3>. HIDE DEF o
    <3>4. DataAt(H, s.start, s.size) = Slice(e.of, s.start - Own - o, s.size)
      BY <3>1, <3>2, <3>3, DataRead DEF Opened
    <3>5. DataAt(G, s.start, s.size) = Slice(e.of, s.start - Own - o, s.size)
      BY <3>1, <3>2, <3>3, DataRead DEF Opened
    <3>. QED
      BY <2>5, <3>4, <3>5
<1>. QED
  BY <1>3, <1>4, <1>5 DEF SameOwn

-----------------------------------------------------------------------------
(* ProgramContainer: the buffers.                                          *)

\* The inductive invariant of the heap: its blocks hold what was compiled, handles
\* and blocks match, the file is a container, and what the library has open is
\* what it would find in its buffer.
HeapHeld ==
  /\ source \in Containers /\ Contents(source, heap)
  /\ DOMAIN handles = Handles
  /\ \A h \in Handles : handles[h] = NoHandle <=> Home[h] \notin DOMAIN heap
  /\ file = NoFile \/ (Slow(source, file) /\ Sound(file))
  /\ container = NotOpen <=> Own \notin DOMAIN heap
  /\ container # NotOpen => /\ heap[Own].images = Own + SizeofQAicQpc /\ heap[Own].size # 0
                            /\ container = init(heap) /\ InitSucceeds(heap)

\* A step keeps them, and what the library has open it finds as before.
HeapStep ==
  HeapHeld' /\ (container # NotOpen /\ container' # NotOpen => SameOwn(heap, heap'))

\* With a container open the library has a buffer.
LEMMA HeapOpened ==
  ASSUME HeapHeld, container # NotOpen
  PROVE  Opened(source, heap)
BY DEF HeapHeld, Opened, Contents

\* With the same buffer of the library init finds the same.
LEMMA InitKept ==
  ASSUME NEW H, NEW G, SameOwn(H, G)
  PROVE  init(G) = init(H) /\ (InitSucceeds(H) => InitSucceeds(G))
<1>1. \A name : Get(G, name) = Get(H, name)
  BY DEF SameOwn
<1>2. getConstantsBuffer(G) = getConstantsBuffer(H)
  <2>1. getQPCSegment(G, Own, "constants", 1) = getQPCSegment(H, Own, "constants", 1)
    BY DEF SameOwn
  <2>2. getQPCSegment(G, Own, "constants", 0) = getQPCSegment(H, Own, "constants", 0)
    BY <1>1 DEF Get
  <2>. QED
    BY <2>1, <2>2, Zenon DEF getConstantsBuffer
<1>3. CRC(G) = CRC(H)
  BY <1>1, Zenon DEF CRC
<1>4. init(G) = init(H)
  BY <1>1, <1>2, <1>3, Zenon DEF init
<1>. QED
  BY <1>1, <1>4 DEF InitSucceeds

\* Where the buffer of the library stays as it is.
LEMMA OthersChange ==
  ASSUME HeapHeld, UNCHANGED <<source, container>>, Contents(source, heap'),
         DOMAIN handles' = Handles,
         \A h \in Handles : handles'[h] = NoHandle <=> Home[h] \notin DOMAIN heap',
         file' = NoFile \/ (Slow(source, file') /\ Sound(file')),
         Own \in DOMAIN heap <=> Own \in DOMAIN heap',
         Own \in DOMAIN heap => heap'[Own] = heap[Own]
  PROVE  HeapStep
<1>1. /\ source' \in Containers /\ Contents(source', heap')
      /\ file' = NoFile \/ (Slow(source', file') /\ Sound(file'))
  BY DEF HeapHeld
<1>2. container' = NotOpen <=> Own \notin DOMAIN heap'
  BY DEF HeapHeld
<1>3. ASSUME container # NotOpen
      PROVE  /\ heap'[Own].images = Own + SizeofQAicQpc /\ heap'[Own].size # 0
             /\ SameOwn(heap, heap')
             /\ container' = init(heap') /\ InitSucceeds(heap')
  <2>1. Opened(source, heap) /\ source \in Containers
    BY <1>3, HeapOpened DEF HeapHeld
  <2>2. Own \in DOMAIN heap /\ heap'[Own] = heap[Own] /\ Own \in DOMAIN heap'
    BY <1>3 DEF HeapHeld
  <2>3. Opened(source, heap')
    BY <2>1, <2>2 DEF Opened, Contents
  <2>4. SameOwn(heap, heap')
    BY <2>1, <2>2, <2>3, OwnKept
  <2>5. init(heap') = init(heap) /\ (InitSucceeds(heap) => InitSucceeds(heap'))
    BY <2>4, InitKept
  <2>. QED
    BY <1>3, <2>2, <2>1, <2>4, <2>5 DEF HeapHeld, Opened
<1>4. ASSUME container' # NotOpen
      PROVE  container' = init(heap)' /\ InitSucceeds(heap)'
  <2>1. container' = init(heap') /\ InitSucceeds(heap')
    BY <1>3, <1>4
  <2>2. init(heap)' = init(heap')
    BY DEF init
  <2>3. InitSucceeds(heap)' <=> InitSucceeds(heap')
    BY DEF InitSucceeds
  <2>. QED
    BY <2>1, <2>2, <2>3
<1>5. HeapHeld'
  BY <1>1, <1>2, <1>3, <1>4 DEF HeapHeld
<1>. QED
  BY <1>3, <1>5 DEF HeapStep

\* A buffer other than that of the library is filled.
LEMMA OneFilled ==
  ASSUME HeapHeld, UNCHANGED <<source, container>>,
         NEW x \in Places \ {AppMem, Temp, Own}, Unused(heap, x),
         NEW q, Sound(q), Slow(source, q) \/ Fast(source, heap, x, q), heap' = Fill(heap, x, q),
         DOMAIN handles' = Handles,
         \A h \in Handles : handles'[h] = NoHandle <=> Home[h] \notin DOMAIN heap',
         file' = NoFile \/ (Slow(source, file') /\ Sound(file'))
  PROVE  HeapStep
<1>1. Contents(source, heap')
  BY FillContents DEF HeapHeld
<1>2. /\ Own \in DOMAIN heap <=> Own \in DOMAIN heap'
      /\ Own \in DOMAIN heap => heap'[Own] = heap[Own]
  BY DEF Fill
<1>. QED
  BY <1>1, <1>2, OthersChange

\* One is freed.
LEMMA OneFreed ==
  ASSUME HeapHeld, UNCHANGED <<source, container, file>>,
         NEW x \in Places \ {Own}, Unused(heap, x), heap' = Drop(heap, x),
         DOMAIN handles' = Handles,
         \A h \in Handles : handles'[h] = NoHandle <=> Home[h] \notin DOMAIN heap'
  PROVE  HeapStep
<1>1. Contents(source, heap')
  BY DropContents DEF HeapHeld
<1>2. /\ Own \in DOMAIN heap <=> Own \in DOMAIN heap'
      /\ Own \in DOMAIN heap => heap'[Own] = heap[Own]
  BY DEF Drop
<1>3. file' = NoFile \/ (Slow(source, file') /\ Sound(file'))
  BY DEF HeapHeld
<1>. QED
  BY <1>1, <1>2, <1>3, OthersChange

\* A handle builds.
LEMMA HandleBuilds ==
  ASSUME HeapHeld, NEW h \in Handles, handles[h] = NoHandle, UNCHANGED <<source, file, container>>,
         NEW G, NEW segs, Sees(source, G, segs), NEW ct \in {SLOWPATH, FASTPATH},
         ct = FASTPATH => Pointing(source, heap, Home[h], segs),
         Built(h, serializeFromVector(G, createQpcHandle(ct), Home[h], segs))
  PROVE  HeapStep
<1>. DEFINE built == serializeFromVector(G, createQpcHandle(ct), Home[h], segs)
<1>1. Home[h] \in Places \ {AppMem, Temp, Own} /\ Home[h] \in Nat
  BY PlacesAre
<1>2. built.block.size < Room /\ handles' = [handles EXCEPT ![h] = built.handle]
      /\ heap' = Fill(heap, Home[h], built.block)
  BY DEF Built, With, Fill
<1>3. /\ built.handle # NoHandle /\ Sound(built.block)
      /\ ct = SLOWPATH => Slow(source, built.block)
      /\ ct = FASTPATH => /\ Record(built.block) /\ built.block.compressionType = FASTPATH
                          /\ built.block.table = segs
  BY <1>1, <1>2, Serialized DEF HeapHeld
<1>. DEFINE q == built.block
            g == built.handle
<1>4. g # NoHandle /\ handles' = [handles EXCEPT ![h] = g] /\ heap' = Fill(heap, Home[h], q)
  BY <1>2, <1>3
<1>5. Sound(q) /\ (Slow(source, q) \/ Fast(source, heap, Home[h], q))
  BY <1>3 DEF Fast
<1>. HIDE DEF q, g, built
<1>6. Unused(heap, Home[h])
  BY DEF Unused, HeapHeld
<1>7. DOMAIN handles' = Handles /\ \A i \in Handles : handles'[i] = IF i = h THEN g ELSE handles[i]
  BY <1>4 DEF HeapHeld
<1>8. \A i \in Handles : handles'[i] = NoHandle <=> Home[i] \notin DOMAIN heap'
  <2>. TAKE i \in Handles
  <2>1. DOMAIN heap' = DOMAIN heap \cup {Home[h]}
    BY <1>4 DEF Fill
  <2>2. Home[i] = Home[h] => i = h
    BY RoomAssumption
  <2>. QED
    BY <2>1, <2>2, <1>4, <1>7 DEF HeapHeld
<1>9. file' = NoFile \/ (Slow(source, file') /\ Sound(file'))
  BY DEF HeapHeld
<1>. QED
  BY <1>1, <1>4, <1>5, <1>6, <1>7, <1>8, <1>9, OneFilled

\* buildFromSegments keeps the invariant of the heap.
LEMMA BuildFromSegmentsHolds ==
  ASSUME HeapHeld, NEW h \in Handles, BuildFromSegments(h)
  PROVE  HeapStep
<1>1. /\ handles[h] = NoHandle /\ AppMem \in DOMAIN heap /\ UNCHANGED <<source, file, container>>
      /\ source \in Containers /\ Contents(source, heap) /\ Laid(heap)
  BY DEF BuildFromSegments, HeapHeld, Contents
<1>2. PICK ct \in {SLOWPATH, FASTPATH} :
        Built(h, serializeFromVector(heap, createQpcHandle(ct), Home[h], source.segs))
  BY DEF BuildFromSegments
<1>3. Home[h] # AppMem
  BY PlacesAre
<1>4. Pointing(source, heap, Home[h], source.segs)
  BY <1>1, <1>3, SourcePoints
<1>5. Sees(source, heap, source.segs)
  BY <1>1, <1>4, PointingSees
<1>. QED
  BY <1>1, <1>2, <1>4, <1>5, HandleBuilds

\* buildFromByteArray keeps the invariant of the heap.
LEMMA BuildFromByteArrayHolds ==
  ASSUME HeapHeld, NEW h \in Handles, BuildFromByteArray(h)
  PROVE  HeapStep
<1>1. /\ handles[h] = NoHandle /\ UNCHANGED <<source, file, container>>
      /\ source \in Containers /\ Contents(source, heap) /\ Laid(heap) /\ Home[h] \notin DOMAIN heap
  BY DEF BuildFromByteArray, HeapHeld, Contents
<1>2. PICK a \in DOMAIN heap, ct \in {SLOWPATH, FASTPATH} :
        /\ Readable(a) /\ a # Own
        /\ Built(h, serializeFromVector(heap, createQpcHandle(ct), Home[h], Table(heap, a)))
  BY DEF BuildFromByteArray
<1>3. IsQpc(heap, a)
  BY <1>2 DEF Readable
<1>4. Pointing(source, heap, Home[h], Table(heap, a))
  BY <1>1, <1>2, <1>3, TablePoints
<1>5. Sees(source, heap, Table(heap, a))
  BY <1>1, <1>4, PointingSees
<1>. QED
  BY <1>1, <1>2, <1>4, <1>5, HandleBuilds

\* A conversion keeps the invariant of the heap.
LEMMA ConvertNetworkElfSectionHolds ==
  ASSUME HeapHeld, NEW h \in Handles, ConvertNetworkElfSection(h)
  PROVE  HeapStep
<1>1. /\ handles[h] = NoHandle /\ UNCHANGED <<source, file, container>>
      /\ source \in Containers /\ Contents(source, heap)
  BY DEF ConvertNetworkElfSection, HeapHeld
<1>2. PICK a \in DOMAIN heap :
       LET segs == Table(heap, a)
           i    == SegmentIndex(heap, segs, "networkElf")
           elf  == DataAt(heap, segs[i].start, segs[i].size)
           new  == convertNetworkElfSection(elf.of.sections, Metadata, MetadataFb, Conv)
           size == segs[i].size + Len(new) - Len(elf.of.sections)
           with == With(Temp, Block(NoCells, [o \in {0} |-> Slice([elf.of EXCEPT !.sections = new], 0, size)]))
           seg  == [segs[i] EXCEPT !.start = Temp, !.size = size, !.offset = 0]
       IN /\ Readable(a) /\ a # Own /\ heap[a].compressionType = SLOWPATH
          /\ i # 0 /\ SectionIndex(elf.of.sections, Metadata) # 0 /\ size < Room
          /\ Built(h, serializeFromVector(with, createQpcHandle(heap[a].compressionType), Home[h],
                                          ReplaceElf(segs, i, seg)))
  BY DEF ConvertNetworkElfSection
<1>. DEFINE segs == Table(heap, a)
            i    == SegmentIndex(heap, segs, "networkElf")
            elf  == DataAt(heap, segs[i].start, segs[i].size)
            size == ElfSize(segs[i], elf)
            with == Fill(heap, Temp, ElfBlock(NewElf(elf, size)))
            table == ReplaceElf(segs, i, ElfRow(segs[i], size))
<1>3. /\ Readable(a) /\ a # Own /\ heap[a].compressionType = SLOWPATH
      /\ i # 0 /\ SectionIndex(elf.of.sections, Metadata) # 0 /\ size < Room
      /\ Built(h, serializeFromVector(with, createQpcHandle(heap[a].compressionType), Home[h], table))
  BY <1>2 DEF ElfSize, ElfBlock, NewElf, ElfRow, Fill, With, Convert
<1>4. IsQpc(heap, a)
  BY <1>3 DEF Readable
<1>5. Sees(source, with, table)
  BY <1>1, <1>3, <1>4, ConvertedSees
<1>. HIDE DEF segs, i, elf, size, with, table
<1>6. Built(h, serializeFromVector(with, createQpcHandle(SLOWPATH), Home[h], table))
  BY <1>3
<1>7. SLOWPATH # FASTPATH
  BY DEF SLOWPATH, FASTPATH
<1>. QED
  BY <1>1, <1>5, <1>6, <1>7, HandleBuilds, SMTT(20)

\* destroyQpcHandle keeps the invariant of the heap.
LEMMA DestroyQpcHandleHolds ==
  ASSUME HeapHeld, NEW h \in Handles, DestroyQpcHandle(h)
  PROVE  HeapStep
<1>1. /\ handles' = [handles EXCEPT ![h] = NoHandle] /\ UNCHANGED <<source, file, container>>
      /\ heap' = Drop(heap, Home[h]) /\ Unused(heap, Home[h])
  BY DEF DestroyQpcHandle, Without, Drop, InUse, Used, Unused
<1>2. Home[h] \in Places \ {Own}
  BY PlacesAre
<1>3. DOMAIN handles' = Handles /\ \A i \in Handles : handles'[i] = IF i = h THEN NoHandle ELSE handles[i]
  BY <1>1 DEF HeapHeld
<1>4. \A i \in Handles : handles'[i] = NoHandle <=> Home[i] \notin DOMAIN heap'
  <2>. TAKE i \in Handles
  <2>1. DOMAIN heap' = DOMAIN heap \ {Home[h]}
    BY <1>1 DEF Drop
  <2>2. Home[i] = Home[h] => i = h
    BY RoomAssumption
  <2>. QED
    BY <2>1, <2>2, <1>3 DEF HeapHeld
<1>. QED
  BY <1>1, <1>2, <1>3, <1>4, OneFreed

\* Freeing segments keeps the invariant of the heap.
LEMMA FreeSegmentsHolds ==
  ASSUME HeapHeld, FreeSegments
  PROVE  HeapStep
<1>1. /\ UNCHANGED <<source, file, container, handles>>
      /\ heap' = Drop(heap, AppMem) /\ Unused(heap, AppMem)
  BY DEF FreeSegments, Without, Drop, InUse, Used, Unused
<1>2. AppMem \in Places \ {Own}
  BY PlacesAre
<1>3. \A i \in Handles : handles'[i] = NoHandle <=> Home[i] \notin DOMAIN heap'
  BY <1>1, PlacesAre DEF HeapHeld, Drop
<1>. QED
  BY <1>1, <1>2, <1>3, OneFreed DEF HeapHeld

\* The buffer of the application is filled.
LEMMA BufFilled ==
  ASSUME HeapHeld, UNCHANGED <<source, handles, file, container>>, ~InUse(Buf),
         NEW q, Sound(q), Slow(source, q) \/ Fast(source, heap, Buf, q), heap' = With(Buf, q)
  PROVE  HeapStep
<1>1. heap' = Fill(heap, Buf, q) /\ Unused(heap, Buf)
  BY DEF With, Fill, InUse, Used, Unused
<1>2. Buf \in Places \ {AppMem, Temp, Own}
  BY PlacesAre
<1>3. \A i \in Handles : handles'[i] = NoHandle <=> Home[i] \notin DOMAIN heap'
  BY <1>1, PlacesAre DEF HeapHeld, Fill
<1>4. file' = NoFile \/ (Slow(source, file') /\ Sound(file'))
  BY DEF HeapHeld
<1>5. DOMAIN handles' = Handles
  BY DEF HeapHeld
<1>. QED
  BY <1>1, <1>2, <1>3, <1>4, <1>5, OneFilled

\* A copy of the bytes keeps the invariant of the heap.
LEMMA CopyBytesHolds ==
  ASSUME HeapHeld, CopyBytes
  PROVE  HeapStep
<1>1. PICK h \in Handles : handles[h] # NoHandle /\ heap' = With(Buf, heap[Home[h]])
  BY DEF CopyBytes
<1>. DEFINE a == Home[h]
<1>2. a \in DOMAIN heap /\ a # AppMem /\ a # Buf /\ a # Own
  BY <1>1, PlacesAre DEF HeapHeld
<1>. HIDE DEF a
<1>3. Contents(source, heap) /\ Laid(heap) /\ source \in Containers
  BY DEF HeapHeld, Contents
<1>4. Sound(heap[a]) /\ (Slow(source, heap[a]) \/ Fast(source, heap, a, heap[a]))
  BY <1>2, <1>3 DEF Contents, Laid
<1>5. ASSUME Fast(source, heap, a, heap[a]) PROVE Fast(source, heap, Buf, heap[a])
  <2>. DEFINE G == Drop(heap, Buf)
  <2>1. Unused(heap, Buf)
    BY DEF CopyBytes, InUse, Used, Unused
  <2>2. DOMAIN G = DOMAIN heap \ {Buf} /\ \A b \in DOMAIN G : G[b] = heap[b]
    BY DEF Drop
  <2>. HIDE DEF G
  <2>3. \A b \in DOMAIN heap : b # Buf => b \in DOMAIN G /\ G[b] = heap[b]
    BY <2>2
  <2>4. Fast(source, G, a, heap[a])
    BY <1>2, <1>3, <1>5, <2>1, <2>3, PointingKept
  <2>. DEFINE table == heap[a].table
  <2>5. PICK names : /\ Listing(source, names, Len(table))
                     /\ \A i \in 1..Len(table) : \E b \in DOMAIN G \ {a, Own} :
                          RowIn(source, G[b], b, names[i], table[i])
    BY <2>4 DEF Fast, Pointing
  <2>6. \A i \in 1..Len(table) : \E b \in DOMAIN heap \ {Buf, Own} :
           RowIn(source, heap[b], b, names[i], table[i])
    BY <2>2, <2>5
  <2>7. Pointing(source, heap, Buf, table)
    BY <2>4, <2>5, <2>6 DEF Fast, Pointing
  <2>. QED
    BY <2>4, <2>7 DEF Fast
<1>6. UNCHANGED <<source, handles, file, container>> /\ ~InUse(Buf)
  BY DEF CopyBytes
<1>7. heap' = With(Buf, heap[a])
  BY <1>1 DEF a
<1>. QED
  BY <1>4, <1>5, <1>6, <1>7, BufFilled

\* What can be copied carries its data, and the copy too.
LEMMA CanCopyIs ==
  ASSUME HeapHeld, NEW a \in DOMAIN heap, NEW size, CanCopy(heap, a, size), NEW base \in Nat
  PROVE  LET r == copyQpcBuffer(heap, base, a) IN
         /\ Slow(source, r) /\ Sound(r) /\ r.base = base /\ r.images = base + SizeofQAicQpc
         /\ r.size # 0
<1>1. Contents(source, heap) /\ Laid(heap) /\ source \in Containers
  BY DEF HeapHeld, Contents
<1>2. IsQpc(heap, a) /\ heap[a].size # 0 /\ heap[a].compressionType # FASTPATH
  BY DEF CanCopy
<1>3. Slow(source, heap[a]) \/ Fast(source, heap, a, heap[a])
  BY <1>1, <1>2, QpcIs
<1>4. Slow(source, heap[a])
  BY <1>2, <1>3, FastIsQpc
<1>5. Sound(heap[a])
  BY <1>1 DEF Laid
<1>. DEFINE r == fixupQAicQpcCopyObject(heap[a], base)
<1>6. Slow(source, r) /\ Sound(r) /\ r.base = base /\ r.images = base + SizeofQAicQpc /\ r.size # 0
  BY <1>1, <1>2, <1>4, <1>5, CopyIs
<1>. HIDE DEF r
<1>. QED
  BY <1>6 DEF copyQpcBuffer, r

\* copyQpcBuffer keeps the invariant of the heap.
LEMMA CopyQpcBufferHolds ==
  ASSUME HeapHeld, CopyQpcBuffer
  PROVE  HeapStep
<1>1. PICK a \in DOMAIN heap : CanCopy(heap, a, heap[a].size) /\ heap' = With(Buf, copyQpcBuffer(heap, Buf, a))
  BY DEF CopyQpcBuffer
<1>2. Buf \in Nat
  BY PlacesAre
<1>. DEFINE r == copyQpcBuffer(heap, Buf, a)
<1>3. Slow(source, r) /\ Sound(r) /\ heap' = With(Buf, r)
  BY <1>1, <1>2, CanCopyIs
<1>. HIDE DEF r
<1>4. UNCHANGED <<source, handles, file, container>> /\ ~InUse(Buf)
  BY DEF CopyQpcBuffer
<1>. QED
  BY <1>3, <1>4, BufFilled

\* The heap stays as it is.
LEMMA HeapUnchanged ==
  ASSUME HeapHeld, UNCHANGED <<source, heap, handles, container>>,
         file' = NoFile \/ (Slow(source, file') /\ Sound(file'))
  PROVE  HeapStep
<1>1. Contents(source, heap')
  BY DEF HeapHeld
<1>2. DOMAIN handles' = Handles /\ \A i \in Handles : handles'[i] = NoHandle <=> Home[i] \notin DOMAIN heap'
  BY DEF HeapHeld
<1>. QED
  BY <1>1, <1>2, OthersChange

\* Writing a file keeps the invariant of the heap.
LEMMA BuildFileHolds ==
  ASSUME HeapHeld, BuildFile
  PROVE  HeapStep
<1>1. /\ UNCHANGED <<source, heap, handles, container>> /\ AppMem \in DOMAIN heap
      /\ FileBlock(heap, source.segs).size < Room
      /\ file' = FileBlock(heap, source.segs) \/ file' = UnfinishedFile(heap, source.segs)
  BY DEF BuildFile
<1>2. Contents(source, heap) /\ Laid(heap) /\ source \in Containers
  BY DEF HeapHeld, Contents
<1>3. Pointing(source, heap, Temp, source.segs)
  BY <1>1, <1>2, SourcePoints, PlacesAre
<1>4. Sees(source, heap, source.segs)
  BY <1>2, <1>3, PointingSees
<1>. DEFINE f == FileBlock(heap, source.segs)
            u == UnfinishedFile(heap, source.segs)
<1>5. Slow(source, f) /\ Sound(f) /\ Slow(source, u) /\ Sound(u)
  BY <1>1, <1>2, <1>4, FileBuilt
<1>6. file' = f \/ file' = u
  BY <1>1
<1>. HIDE DEF f, u
<1>7. Slow(source, file') /\ Sound(file')
  BY <1>5, <1>6
<1>. QED
  BY <1>1, <1>7, HeapUnchanged

\* Reading a file keeps the invariant of the heap.
LEMMA ReadFileHolds ==
  ASSUME HeapHeld, ReadFile
  PROVE  HeapStep
<1>1. Slow(source, file) /\ Sound(file) /\ heap' = With(Buf, file)
      /\ UNCHANGED <<source, handles, file, container>> /\ ~InUse(Buf)
  BY DEF ReadFile, HeapHeld
<1>. QED
  BY <1>1, BufFilled

\* Opening keeps the invariant of the heap.
LEMMA OpenHolds ==
  ASSUME HeapHeld, Open
  PROVE  HeapStep
<1>1. /\ container = NotOpen /\ UNCHANGED <<source, handles, file>>
      /\ source \in Containers /\ Contents(source, heap) /\ Own \notin DOMAIN heap
  BY DEF Open, HeapHeld
<1>2. PICK a \in DOMAIN heap :
        /\ CanCopy(heap, a, BufferSize(a))
        /\ LET with == With(Own, copyQpcBuffer(heap, Own, a)) IN
           IF InitSucceeds(with) THEN container' = init(with) /\ heap' = with
           ELSE UNCHANGED <<container, heap>>
  BY DEF Open
<1>3. Own \in Nat /\ Own \in Places \ {AppMem, Temp}
  BY PlacesAre
<1>. DEFINE r == copyQpcBuffer(heap, Own, a)
            with == With(Own, r)
<1>4. Slow(source, r) /\ Sound(r) /\ r.base = Own /\ r.images = Own + SizeofQAicQpc /\ r.size # 0
  BY <1>2, <1>3, CanCopyIs
<1>5. IF InitSucceeds(with) THEN container' = init(with) /\ heap' = with
      ELSE UNCHANGED <<container, heap>>
  BY <1>2
<1>. HIDE DEF r
<1>6. with = Fill(heap, Own, r) /\ DOMAIN with = DOMAIN heap \cup {Own} /\ with[Own] = r
  BY DEF With, Fill
<1>. HIDE DEF with
<1>7. CASE ~InitSucceeds(with)
  <2>1. file' = NoFile \/ (Slow(source, file') /\ Sound(file'))
    BY <1>1 DEF HeapHeld
  <2>. QED
    BY <1>1, <1>5, <1>7, <2>1, HeapUnchanged
<1>8. CASE InitSucceeds(with)
  <2>1. Contents(source, with)
    BY <1>1, <1>3, <1>4, <1>6, FillContents DEF Unused
  <2>2. container' = init(with) /\ heap' = with
    BY <1>5, <1>8
  <2>3. container' = init(heap)' /\ InitSucceeds(heap)'
    <3>1. init(heap)' = init(heap')
      BY <1>1 DEF init
    <3>2. InitSucceeds(heap)' <=> InitSucceeds(heap')
      BY DEF InitSucceeds
    <3>. QED
      BY <3>1, <3>2, <2>2, <1>8
  <2>4. container' # NotOpen
    <3>1. init(with).open # NotOpen.open
      BY DEF init, NotOpen
    <3>. QED
      BY <2>2, <3>1
  <2>5. \A h \in Handles : handles'[h] = NoHandle <=> Home[h] \notin DOMAIN heap'
    BY <1>1, <1>6, <2>2, PlacesAre DEF HeapHeld
  <2>6. HeapHeld'
    BY <1>1, <1>4, <1>6, <2>1, <2>2, <2>3, <2>4, <2>5 DEF HeapHeld
  <2>. QED
    BY <1>1, <2>6 DEF HeapStep
<1>. QED
  BY <1>7, <1>8

\* Closing keeps the invariant of the heap.
LEMMA CloseHolds ==
  ASSUME HeapHeld, Close
  PROVE  HeapStep
<1>1. /\ container' = NotOpen /\ heap' = Drop(heap, Own) /\ UNCHANGED <<source, handles, file>>
  BY DEF Close, Without, Drop
<1>2. Contents(source, heap')
  BY <1>1, DropContents DEF HeapHeld, Unused
<1>3. \A h \in Handles : handles'[h] = NoHandle <=> Home[h] \notin DOMAIN heap'
  BY <1>1, PlacesAre DEF HeapHeld, Drop
<1>4. Own \notin DOMAIN heap'
  BY <1>1 DEF Drop
<1>5. HeapHeld'
  BY <1>1, <1>2, <1>3, <1>4 DEF HeapHeld
<1>. QED
  BY <1>1, <1>5 DEF HeapStep

-----------------------------------------------------------------------------
(* ProgramContainer: what is open.                                         *)

\* The heap at the start.
LEMMA HeapInit == ContainerInit => HeapHeld
<1>. SUFFICES ASSUME ContainerInit PROVE HeapHeld
  OBVIOUS
<1>1. /\ source \in Containers /\ heap = [a \in {AppMem} |-> source.mem]
      /\ handles = [h \in Handles |-> NoHandle] /\ file = NoFile /\ container = NotOpen
  BY DEF ContainerInit
<1>2. DOMAIN heap = {AppMem} /\ heap[AppMem] = source.mem
  BY <1>1
<1>3. Laid(heap)
  BY <1>1, <1>2, PlacesAre, CompilerAssumption DEF Laid
<1>4. Contents(source, heap)
  BY <1>2, <1>3, PlacesAre DEF Contents
<1>5. \A h \in Handles : handles[h] = NoHandle /\ Home[h] \notin DOMAIN heap
  BY <1>1, <1>2, PlacesAre
<1>. QED
  BY <1>1, <1>2, <1>4, <1>5, PlacesAre DEF HeapHeld

\* Every step of the specification.
LEMMA HeapNext ==
  ASSUME HeapHeld, [ContainerNext]_containerVars
  PROVE  HeapStep
<1>0. file = NoFile \/ (Slow(source, file) /\ Sound(file))
  BY DEF HeapHeld
<1>1. CASE UNCHANGED containerVars
  BY <1>0, <1>1, HeapUnchanged DEF containerVars
<1>2. ASSUME NEW h \in Handles,
             \/ BuildFromSegments(h) \/ BuildFromByteArray(h)
             \/ ConvertNetworkElfSection(h) \/ DestroyQpcHandle(h)
      PROVE  HeapStep
  BY <1>2, BuildFromSegmentsHolds, BuildFromByteArrayHolds, ConvertNetworkElfSectionHolds,
     DestroyQpcHandleHolds
<1>3. CASE FreeSegments
  BY <1>3, FreeSegmentsHolds
<1>4. CASE CopyBytes
  BY <1>4, CopyBytesHolds
<1>5. CASE CopyQpcBuffer
  BY <1>5, CopyQpcBufferHolds
<1>6. CASE BuildFile
  BY <1>6, BuildFileHolds
<1>7. CASE ReadFile
  BY <1>7, ReadFileHolds
<1>8. CASE Open
  BY <1>8, OpenHolds
<1>9. CASE Close
  BY <1>9, CloseHolds
<1>10. CASE CreateProgram
  BY <1>0, <1>10, HeapUnchanged DEF CreateProgram
<1>11. CASE ReleaseProgram
  BY <1>0, <1>11, HeapUnchanged DEF ReleaseProgram
<1>12. CASE LoadConstants
  BY <1>0, <1>12, HeapUnchanged DEF LoadConstants
<1>13. CASE LoadImage
  BY <1>0, <1>13, HeapUnchanged DEF LoadImage
<1>14. CASE UnloadImage
  BY <1>0, <1>14, HeapUnchanged DEF UnloadImage
<1>. QED
  BY <1>1, <1>2, <1>3, <1>4, <1>5, <1>6, <1>7, <1>8, <1>9, <1>10, <1>11, <1>12, <1>13,
     <1>14 DEF ContainerNext

\* The heap at all times.
LEMMA HeapAlways == ContainerSpec => []HeapHeld
<1>1. HeapHeld /\ [ContainerNext]_containerVars => HeapHeld'
  BY HeapNext DEF HeapStep
<1>. QED
  BY HeapInit, <1>1, PTL DEF ContainerSpec

\* The table of what is open has rows.
LEMMA OpenedHasRows ==
  ASSUME HeapHeld, container # NotOpen, NEW name \in {"constantsDesc", "networkDesc", "networkElf"}
  PROVE  /\ Len(heap[Own].table) # 0 /\ Entry(heap, name) # 0
         /\ getQPCSegment(heap, Own, name, 0).found /\ name \in NamesOf(source)
         /\ RowIn(source, heap[Own], Own, name, Row(heap, name))
<1>1. Opened(source, heap) /\ source \in Containers
  BY HeapOpened DEF HeapHeld
<1>2. getQPCSegment(heap, Own, name, 0).found
  BY DEF HeapHeld, InitSucceeds, Get
<1>3. Entry(heap, name) # 0
  BY <1>1, <1>2, EntryIs DEF NotFound
<1>4. Entry(heap, name) \in 1..Len(heap[Own].table) /\ name \in NamesOf(source)
      /\ RowIn(source, heap[Own], Own, name, Row(heap, name))
  BY <1>1, <1>3, EntryIs
<1>5. Len(heap[Own].table) \in Nat
  BY <1>1, OpenedIs
<1>. QED
  BY <1>2, <1>3, <1>4, <1>5

\* The segments of the compiler, as SegmentsIntact names them.
LEMMA CompiledAre ==
  /\ Names = NamesOf(source)
  /\ \A n : Compiled(n) = SegmentOf(source, n) /\ Data(n) = DataOf(source, n)
BY DEF Names, NamesOf, Compiled, SegmentOf, Data, DataOf

\* What SegmentsIntact says of a row.
RowIntact(s) ==
  LET name == NameAt(heap, s.name)
      data == DataAt(heap, s.start, s.size)
  IN /\ Own <= s.name /\ Own <= s.start /\ s.start + s.size <= Own + heap[Own].size
     /\ s.offset = Compiled(name).offset
     /\ name # "networkElf" /\ s.size > 0 => data = Data(name)
     /\ name = "networkElf" =>
          /\ Unconverted(Sections(data)) = Unconverted(Sections(Data(name)))
          /\ SectionIndex(Sections(data), MetadataFb) # 0 =>
               SectionIndex(Sections(data), MetadataFb) = SectionIndex(Sections(data), Metadata) + 1

\* All rows of an open container.
LEMMA RowsIntact ==
  ASSUME HeapHeld, container # NotOpen, NEW k \in 1..Len(heap[Own].table)
  PROVE  RowIntact(heap[Own].table[k])
<1>. DEFINE s == heap[Own].table[k]
            n == NameAt(heap, s.name)
            data == DataAt(heap, s.start, s.size)
<1>1. Opened(source, heap) /\ source \in Containers /\ Own \in Nat
  BY HeapOpened, PlacesAre DEF HeapHeld
<1>2. n \in NamesOf(source) /\ RowIn(source, heap[Own], Own, n, s) /\ RowSeen(source, heap, n, s)
  BY <1>1, OwnRow
<1>3. s.start + s.size <= Own + heap[Own].size
  <2>1. Slow(source, heap[Own]) /\ heap[Own].size # 0 /\ heap[Own].base = Own
    BY <1>1 DEF HeapHeld, Opened
  <2>. QED
    BY <2>1 DEF Slow
<1>. HIDE DEF s, n
<1>4. s \in Rows /\ s.name - Own \in DOMAIN heap[Own].names /\ Own <= s.start
      /\ s.offset = SegmentOf(source, n).offset
  BY <1>2 DEF RowIn
<1>5. Own <= s.name
  <2>1. Sound(heap[Own])
    BY <1>1 DEF Opened, Laid
  <2>2. s.name - Own \in 0..(Room - 1) /\ s.name \in Nat /\ Room \in Nat
    BY <2>1, <1>4, PlacesAre DEF Sound, Rows
  <2>. QED
    BY <2>2, <1>1
<1>6. PICK d : /\ Form(source, n, d) /\ d.len = s.size
               /\ s.size > 0 => data = d
  BY <1>2 DEF RowSeen
<1>. HIDE DEF data
<1>7. n # "networkElf" /\ s.size > 0 => data = DataOf(source, n)
  BY <1>1, <1>2, <1>6, FormIs
<1>8. ASSUME n = "networkElf"
      PROVE  /\ Unconverted(Sections(data)) = Unconverted(Sections(DataOf(source, n)))
             /\ SectionIndex(Sections(data), MetadataFb) # 0 =>
                  SectionIndex(Sections(data), MetadataFb) = SectionIndex(Sections(data), Metadata) + 1
  <2>1. data = d
    BY <1>1, <1>2, <1>6, <1>8, FormIs
  <2>2. Form(source, "networkElf", d) /\ "networkElf" \in NamesOf(source)
    BY <1>2, <1>6, <1>8
  <2>. QED
    BY <1>1, <1>8, <2>1, <2>2, FormKeepsSections DEF Sections
<1>9. n = NameAt(heap, s.name) /\ data = DataAt(heap, s.start, s.size)
  BY DEF n, data
<1>10. Compiled(n) = SegmentOf(source, n) /\ Data(n) = DataOf(source, n)
  BY CompiledAre
<1>11. RowIntact(s)
  BY <1>3, <1>4, <1>5, <1>7, <1>8, <1>9, <1>10 DEF RowIntact
<1>. QED
  BY <1>11 DEF s

\* The invariant of the heap implies SegmentsIntact.
LEMMA HeldIntact == HeapHeld => SegmentsIntact
<1>. SUFFICES ASSUME HeapHeld, container # NotOpen
              PROVE  /\ Names = {NameAt(heap, s.name) : s \in Range(Table(heap, Own))}
                     /\ \A s \in Range(Table(heap, Own)) : RowIntact(s)
  BY DEF SegmentsIntact, RowIntact
<1>1. Opened(source, heap) /\ source \in Containers
  BY HeapOpened DEF HeapHeld
<1>. DEFINE t == heap[Own].table
            n == Len(t)
<1>2. Table(heap, Own) = t /\ Range(t) = {t[k] : k \in 1..n}
  BY <1>1, OpenedIs DEF Range
<1>3. n # 0
  BY OpenedHasRows
<1>4. \A k \in 1..n : NameAt(heap, t[k].name) \in NamesOf(source)
  BY <1>1, OwnRow
<1>5. \A x \in NamesOf(source) : \E k \in 1..n : NameAt(heap, t[k].name) = x
  BY <1>1, <1>3, OwnNames
<1>6. \A k \in 1..n : RowIntact(t[k])
  BY RowsIntact
<1>7. Names = NamesOf(source)
  BY CompiledAre
<1>. HIDE DEF t, n
<1>8. NamesOf(source) = {NameAt(heap, s.name) : s \in Range(t)}
  BY <1>2, <1>4, <1>5
<1>. QED
  BY <1>2, <1>6, <1>7, <1>8

\* Whatever way a container took and whatever was freed since, the library finds
\* every segment in its own buffer as it was compiled (QAicQpc.cpp,
\* QProgramContainer.cpp).
THEOREM SegmentsSurvive == ContainerSpec => []SegmentsIntact
BY HeapAlways, HeldIntact, PTL

-----------------------------------------------------------------------------
(* ProgramContainer: the constants.                                        *)

\* What is written of n bytes d, whose first f are a part of their own.
Parts(d, f, n, ws) ==
  \/ ws = <<>>
  \/ /\ f > 0 /\ f = n /\ ws = <<[at |-> 0, data |-> Slice(d.of, 0, f)]>>
  \/ /\ f > 0 /\ f < n
     /\ ws = <<[at |-> 0, data |-> Slice(d.of, 0, f)], [at |-> f, data |-> Slice(d.of, f, n - f)]>>
  \/ /\ f = 0 /\ n > 0 /\ ws = <<[at |-> 0, data |-> Slice(d.of, 0, n)]>>

\* What ConstantsOnce says of a byte.
WrittenOnce(o) ==
  LET at == {i \in DOMAIN writes : writes[i].at <= o /\ o < writes[i].at + writes[i].data.len} IN
  /\ Cardinality(at) = 1
  /\ \A i \in at : /\ writes[i].data.of = Data("constants").of
                   /\ writes[i].data.from + (o - writes[i].at) = o

\* What is written in parts is written once, as it was compiled.
LEMMA PartsOnce ==
  ASSUME writes # NotLoaded, NEW d, d = Data("constants"), NEW f \in Nat, NEW n \in Nat,
         n = Compiled("constants").size, Parts(d, f, n, writes),
         NEW o \in 0..(n - 1)
  PROVE  WrittenOnce(o)
<1>. DEFINE at == {i \in DOMAIN writes : writes[i].at <= o /\ o < writes[i].at + writes[i].data.len}
            of == Data("constants").of
<1>0. \A j : Cardinality({j}) = 1
  BY FS_Singleton
<1>1. writes # <<>>
  BY DEF NotLoaded
<1>2. ASSUME NEW m \in Nat, m = n, writes = <<[at |-> 0, data |-> Slice(of, 0, m)]>>
      PROVE  WrittenOnce(o)
  <2>1. /\ DOMAIN writes = {1} /\ writes[1].at = 0 /\ writes[1].data.of = of
        /\ writes[1].data.from = 0 /\ writes[1].data.len = m
    BY <1>2 DEF Slice
  <2>2. at = {1}
    BY <1>2, <2>1
  <2>. HIDE DEF at, of
  <2>3. 0 + (o - 0) = o
    OBVIOUS
  <2>4. Cardinality(at) = 1
    BY <1>0, <2>2
  <2>5. \A i \in at : writes[i].data.of = of /\ writes[i].data.from + (o - writes[i].at) = o
    BY <2>1, <2>2, <2>3
  <2>. QED
    BY <2>4, <2>5, Zenon DEF WrittenOnce, at, of
<1>3. ASSUME f > 0, f < n,
             writes = <<[at |-> 0, data |-> Slice(of, 0, f)], [at |-> f, data |-> Slice(of, f, n - f)]>>
      PROVE  WrittenOnce(o)
  <2>1. /\ DOMAIN writes = {1, 2} /\ writes[1].at = 0 /\ writes[1].data.of = of
        /\ writes[1].data.from = 0 /\ writes[1].data.len = f
        /\ writes[2].at = f /\ writes[2].data.of = of
        /\ writes[2].data.from = f /\ writes[2].data.len = n - f
    BY <1>3 DEF Slice
  <2>2. at = IF o < f THEN {1} ELSE {2}
    <3>1. f + (n - f) = n
      OBVIOUS
    <3>. QED
      BY <1>3, <2>1, <3>1
  <2>. HIDE DEF at, of
  <2>3. 0 + (o - 0) = o /\ f + (o - f) = o
    OBVIOUS
  <2>4. Cardinality(at) = 1
    BY <1>0, <2>2
  <2>5. \A i \in at : writes[i].data.of = of /\ writes[i].data.from + (o - writes[i].at) = o
    BY <2>1, <2>2, <2>3
  <2>. QED
    BY <2>4, <2>5, Zenon DEF WrittenOnce, at, of
<1>4. CASE f > 0 /\ f = n /\ writes = <<[at |-> 0, data |-> Slice(d.of, 0, f)]>>
  BY <1>2, <1>4
<1>5. CASE f = 0 /\ n > 0 /\ writes = <<[at |-> 0, data |-> Slice(d.of, 0, n)]>>
  BY <1>2, <1>5
<1>6. CASE /\ f > 0 /\ f < n
           /\ writes = <<[at |-> 0, data |-> Slice(d.of, 0, f)], [at |-> f, data |-> Slice(d.of, f, n - f)]>>
  BY <1>3, <1>6
<1>. QED
  BY <1>1, <1>4, <1>5, <1>6 DEF Parts

\* What was written, in the terms of the compiler.
ConstantsHeld ==
  writes # NotLoaded =>
    LET s == SegmentOf(source, "constants") IN
    /\ "constants" \in NamesOf(source)
    /\ Parts(DataOf(source, "constants"), s.offset, s.size, writes)

\* The invariants imply ConstantsOnce.
LEMMA HeldOnce == HeapHeld /\ ConstantsHeld => ConstantsOnce
<1>. SUFFICES ASSUME HeapHeld, ConstantsHeld, writes # NotLoaded
              PROVE  \A o \in 0..(Compiled("constants").size - 1) : WrittenOnce(o)
  BY DEF ConstantsOnce, WrittenOnce
<1>1. "constants" \in NamesOf(source) /\ source \in Containers
  BY DEF ConstantsHeld, HeapHeld
<1>. DEFINE s == SegmentOf(source, "constants")
            d == DataOf(source, "constants")
<1>2. s.offset \in Nat /\ s.size \in Nat
  BY <1>1, CompiledIs
<1>3. Parts(d, s.offset, s.size, writes) /\ s = Compiled("constants") /\ d = Data("constants")
  BY CompiledAre DEF ConstantsHeld
<1>. HIDE DEF s, d
<1>. QED
  BY <1>2, <1>3, PartsOnce

\* Both calls of getConstantsBuffer, with a row and without.
LEMMA ConstantsFound ==
  ASSUME HeapHeld, container # NotOpen
  PROVE  LET k == container.constants
             s == Row(heap, "constants")
             f == s.offset
         IN IF Entry(heap, "constants") = 0
            THEN ~k.static.valid /\ ~k.dynamic.valid
            ELSE /\ s \in Rows
                 /\ k.dynamic = [buf |-> s.start + f, size |-> s.size - f, valid |-> s.size - f # 0]
                 /\ f > 0 => k.static = [buf |-> s.start, size |-> f, valid |-> TRUE]
                 /\ ~(f > 0) => ~k.static.valid
<1>1. Opened(source, heap) /\ source \in Containers
  BY HeapOpened DEF HeapHeld
<1>. DEFINE k == container.constants
            s == Row(heap, "constants")
            f == s.offset
            g == getQPCSegment(heap, Own, "constants", 0)
            e == getQPCSegment(heap, Own, "constants", 1)
            Segmented(x) == [buf |-> x.buf, size |-> x.size, valid |-> x.found /\ x.size # 0]
<1>2. k = getConstantsBuffer(heap)
  BY DEF HeapHeld, init
<1>3. k.dynamic = Segmented(e) /\ k.static = StaticConstants(Segmented(g), Segmented(e))
  BY <1>2 DEF getConstantsBuffer, Segment
<1>. HIDE DEF k, g, e
<1>4. CASE Entry(heap, "constants") = 0
  <2>1. g = NotFound /\ e = NotFound
    BY <1>1, <1>4, EntryIs DEF g, e
  <2>2. Segmented(NotFound).valid = FALSE
    BY DEF NotFound
  <2>. HIDE DEF Part
  <2>3. StaticConstants(Segmented(NotFound), Segmented(NotFound)).valid = FALSE
    BY <2>2 DEF StaticConstants
  <2>4. k.dynamic.valid = FALSE /\ k.static.valid = FALSE
    BY <1>3, <2>1, <2>2, <2>3
  <2>. QED
    BY <1>4, <2>4 DEF k
<1>5. CASE Entry(heap, "constants") # 0
  <2>1. RowIn(source, heap[Own], Own, "constants", s)
    BY <1>1, <1>5, EntryIs
  <2>2. s \in Rows
    BY <2>1 DEF RowIn
  <2>3. s.start \in Nat /\ s.size \in Nat /\ f \in Nat
    BY <2>2 DEF Rows
  <2>4. /\ g = IF f > 0 THEN [found |-> TRUE, buf |-> s.start, size |-> f]
               ELSE [found |-> TRUE, buf |-> s.start + f, size |-> s.size - f]
        /\ e = [found |-> TRUE, buf |-> s.start + f, size |-> s.size - f]
    BY <1>1, <1>5, EntryIs DEF g, e
  <2>. HIDE DEF s
  <2>. DEFINE p == s.start + f
              n == s.size - f
  <2>5. e = [found |-> TRUE, buf |-> p, size |-> n]
    BY <2>4
  <2>6. g = IF f > 0 THEN [found |-> TRUE, buf |-> s.start, size |-> f]
            ELSE [found |-> TRUE, buf |-> p, size |-> n]
    BY <2>4
  <2>7. f > 0 => s.start # p /\ f # 0
    BY <2>3
  <2>. HIDE DEF p, n
  <2>8. Segmented(e) = [buf |-> p, size |-> n, valid |-> n # 0]
    <3>1. e.buf = p /\ e.size = n /\ e.found = TRUE
      BY <2>5
    <3>2. (e.found /\ e.size # 0) = (n # 0)
      BY <3>1
    <3>. QED
      BY <3>1, <3>2
  <2>9. CASE f > 0
    <3>1. g.buf = s.start /\ g.size = f /\ g.found = TRUE
      BY <2>6, <2>9
    <3>2. (g.found /\ g.size # 0) = TRUE
      BY <2>7, <2>9, <3>1
    <3>3. Segmented(g) = [buf |-> s.start, size |-> f, valid |-> TRUE]
      BY <3>1, <3>2
    <3>. DEFINE x == Segmented(g)
                y == Segmented(e)
    <3>4. x.buf = s.start /\ y.buf = p /\ s.start # p
      BY <2>7, <2>8, <2>9, <3>3
    <3>5. x = [buf |-> s.start, size |-> f, valid |-> TRUE]
      BY <3>3
    <3>. HIDE DEF x, y
    <3>6. StaticConstants(x, y) = x
      BY <3>4 DEF StaticConstants
    <3>7. k.static = [buf |-> s.start, size |-> f, valid |-> TRUE]
      BY <1>3, <3>5, <3>6 DEF x, y
    <3>. QED
      BY <1>3, <1>5, <2>2, <2>8, <2>9, <3>7 DEF k, p, n, s
  <2>10. CASE ~(f > 0)
    <3>1. g = e
      BY <2>5, <2>6, <2>10
    <3>. DEFINE x == Segmented(e)
    <3>2. x = [buf |-> p, size |-> n, valid |-> n # 0]
      BY <2>8
    <3>. HIDE DEF x
    <3>3. StaticConstants(x, x).valid = FALSE
      <4>1. CASE x.valid
        <5>1. StaticConstants(x, x) = [x EXCEPT !.valid = FALSE]
          BY <4>1 DEF StaticConstants
        <5>2. "valid" \in DOMAIN x
          BY <3>2
        <5>3. [x EXCEPT !.valid = FALSE].valid = FALSE
          BY <5>2, Zenon
        <5>. QED
          BY <5>1, <5>3, Zenon
      <4>2. CASE ~x.valid
        <5>1. StaticConstants(x, x) = x
          BY <4>2 DEF StaticConstants
        <5>2. x.valid = (n # 0)
          BY <3>2
        <5>. QED
          BY <4>2, <5>1, <5>2
      <4>. QED
        BY <4>1, <4>2
    <3>4. k.static.valid = FALSE
      BY <1>3, <3>1, <3>3 DEF x
    <3>. QED
      BY <1>3, <1>5, <2>2, <2>8, <2>10, <3>4 DEF k, p, n, s
  <2>. QED
    BY <2>9, <2>10
<1>. QED
  BY <1>4, <1>5

\* The descriptor of the constants says what the compiler laid out.
LEMMA DescriptorRead ==
  ASSUME HeapHeld, container # NotOpen, contains(container.constDesc), "constants" \in NamesOf(source)
  PROVE  AICConstantDescriptor.staticConstantsSize = SegmentOf(source, "constants").offset
<1>. DEFINE x == "constantsDesc"
            s == Row(heap, x)
            d == DataOf(source, x)
<1>1. Opened(source, heap) /\ source \in Containers
  BY HeapOpened DEF HeapHeld
<1>2. /\ Entry(heap, x) # 0 /\ x \in NamesOf(source) /\ RowIn(source, heap[Own], Own, x, s)
  BY OpenedHasRows
<1>3. s \in Rows /\ s.offset = 0
  BY <1>1, <1>2, CompiledIs DEF RowIn
<1>4. s.start \in Nat /\ s.size \in Nat
  BY <1>3 DEF Rows
<1>5. getQPCSegment(heap, Own, x, 0) = [found |-> TRUE, buf |-> s.start + s.offset, size |-> s.size - s.offset]
  BY <1>1, <1>2, <1>3, EntryIs
<1>. HIDE DEF s
<1>6. container.constDesc = Segment(getQPCSegment(heap, Own, x, 0))
  BY DEF HeapHeld, init, Get
<1>7. container.constDesc.buf = s.start /\ container.constDesc.size = s.size
  <2>1. container.constDesc.buf = s.start + s.offset /\ container.constDesc.size = s.size - s.offset
    BY <1>5, <1>6 DEF Segment
  <2>2. s.start + s.offset = s.start /\ s.size - s.offset = s.size
    BY <1>3, <1>4
  <2>. QED
    BY <2>1, <2>2
<1>8. s.size # 0
  BY <1>7 DEF contains
<1>9. DataAt(heap, s.start, s.size) = d
  <2>1. RowSeen(source, heap, x, s)
    BY <1>1, <1>2, RowRead DEF Opened
  <2>2. PICK e : /\ Form(source, x, e) /\ e.len = s.size
                 /\ s.size > 0 => DataAt(heap, s.start, s.size) = e
    BY <2>1 DEF RowSeen
  <2>3. s.size > 0
    BY <1>4, <1>8
  <2>. QED
    BY <1>1, <1>2, <2>2, <2>3, FormIs
<1>10. d.of.static = SegmentOf(source, "constants").offset
  <2>1. PICK i \in 1..Len(source.segs) :
          SegmentOf(source, x) = source.segs[i] /\ NameIn(source, source.segs[i]) = x
    BY <1>1, <1>2, CompiledIs
  <2>2. PICK j \in 1..Len(source.segs) :
          SegmentOf(source, "constants") = source.segs[j] /\ NameIn(source, source.segs[j]) = "constants"
    BY <1>1, CompiledIs
  <2>3. source.segs[i] \in ToSet(source.segs) /\ source.segs[j] \in ToSet(source.segs)
    <3>1. DOMAIN source.segs = 1..Len(source.segs)
      BY <1>1, CompilerAssumption, IsList
    <3>. QED
      BY <3>1 DEF ToSet
  <2>4. DataIn(source, source.segs[i]).of.static = source.segs[j].offset
    BY <1>1, <2>1, <2>2, <2>3, CompilerAssumption
  <2>. QED
    BY <2>1, <2>2, <2>4 DEF DataOf
<1>. HIDE DEF d
<1>11. AICConstantDescriptor.staticConstantsSize = DataAt(heap, container.constDesc.buf, container.constDesc.size).of.static
  BY DEF AICConstantDescriptor
<1>. QED
  BY <1>7, <1>9, <1>10, <1>11

\* Two elements behind each other.
LEMMA Joined ==
  ASSUME NEW a, NEW b
  PROVE  <<a>> \o <<b>> = <<a, b>>
<1>. DEFINE R == {a, b}
            s == <<a>>
            t == <<b>>
            r == <<a, b>>
<1>1. s \in Seq(R) /\ t \in Seq(R) /\ Len(s) = 1 /\ Len(t) = 1 /\ s[1] = a /\ t[1] = b
  OBVIOUS
<1>2. r \in Seq(R) /\ Len(r) = 2 /\ r[1] = a /\ r[2] = b
  OBVIOUS
<1>. HIDE DEF R, s, t, r
<1>. DEFINE q == s \o t
<1>3. q \in Seq(R) /\ Len(q) = 1 + 1
  BY <1>1, ConcatProperties, SMTT(30)
<1>4. q[1] = a /\ q[2] = b
  <2>1. \A k \in 1..(Len(s) + Len(t)) : q[k] = IF k <= Len(s) THEN s[k] ELSE t[k - Len(s)]
    BY <1>1, ConcatProperties
  <2>2. 1 \in 1..(Len(s) + Len(t)) /\ 2 \in 1..(Len(s) + Len(t)) /\ 1 <= Len(s) /\ ~(2 <= Len(s)) /\ 2 - Len(s) = 1
    BY <1>1
  <2>. HIDE DEF q
  <2>. QED
    BY <1>1, <2>1, <2>2
<1>. HIDE DEF q
<1>5. q = r
  <2>1. \A k \in 1..Len(q) : q[k] = r[k]
    BY <1>2, <1>3, <1>4
  <2>. QED
    BY <1>2, <1>3, <2>1, SeqEqual
<1>. QED
  BY <1>5 DEF q, r, s, t

\* LoadConstants writes the parts of the constants.
LEMMA LoadConstantsHolds ==
  ASSUME HeapHeld, ConstantsHeld, container # NotOpen, LoadConstants
  PROVE  ConstantsHeld'
<1>. DEFINE x == "constants"
            s == Row(heap, x)
            k == container.constants
            f == s.offset
            n == s.size
            static == AICConstantDescriptor.staticConstantsSize
            one == IF k.static.valid THEN <<Write(0, k.static)>> ELSE <<>>
            two == IF k.dynamic.valid THEN <<Write(static, k.dynamic)>> ELSE <<>>
<1>1. Opened(source, heap) /\ source \in Containers /\ source' = source
  BY HeapOpened DEF HeapHeld, LoadConstants
<1>2. writes' = one \o two \/ writes' = writes
  BY DEF LoadConstants
<1>3. contains(container.constDesc) /\ writes = NotLoaded
  BY DEF LoadConstants
<1>4. CASE writes' = writes
  BY <1>1, <1>3, <1>4 DEF ConstantsHeld
<1>5. CASE writes' = one \o two /\ Entry(heap, x) = 0
  <2>1. ~k.static.valid /\ ~k.dynamic.valid
    BY <1>5, ConstantsFound
  <2>2. one = <<>> /\ two = <<>>
    BY <2>1
  <2>3. writes' = <<>>
    BY <1>5, <2>2
  <2>. QED
    BY <2>3 DEF ConstantsHeld, NotLoaded
<1>6. CASE writes' = one \o two /\ Entry(heap, x) # 0
  <2>1. x \in NamesOf(source) /\ RowIn(source, heap[Own], Own, x, s)
    BY <1>1, <1>6, EntryIs
  <2>2. /\ s \in Rows
        /\ k.dynamic = [buf |-> s.start + f, size |-> n - f, valid |-> n - f # 0]
        /\ f > 0 => k.static = [buf |-> s.start, size |-> f, valid |-> TRUE]
        /\ ~(f > 0) => ~k.static.valid
    BY <1>6, ConstantsFound
  <2>. DEFINE c == SegmentOf(source, x)
              d == DataOf(source, x)
  <2>3. static = c.offset /\ f = c.offset
    BY <1>3, <2>1, DescriptorRead DEF RowIn
  <2>4. n = c.size /\ f <= n
    <3>1. PICK e : Form(source, x, e) /\ e.len = s.size
      BY <2>1 DEF RowIn
    <3>2. e = d
      BY <1>1, <2>1, <3>1, FormIs
    <3>3. d.len = c.size /\ c.offset <= c.size
      BY <1>1, <2>1, CompiledIs
    <3>4. n = e.len
      BY <3>1
    <3>. QED
      BY <2>3, <3>2, <3>3, <3>4
  <2>5. s.start \in Nat /\ n \in Nat /\ f \in Nat
    BY <2>2 DEF Rows
  <2>6. ASSUME NEW j \in Nat, NEW m \in Nat, m > 0, j + m <= s.size
        PROVE  DataAt(heap, s.start + j, m) = Slice(d.of, j, m)
    <3>1. PICK e : Form(source, x, e) /\ DataAt(heap, s.start + j, m) = Slice(e.of, j, m)
      BY <1>1, <2>1, <2>6, PartRead
    <3>2. e = d
      BY <1>1, <2>1, <3>1, FormIs
    <3>. QED
      BY <3>1, <3>2, Zenon
  <2>7. f > 0 => DataAt(heap, s.start, f) = Slice(d.of, 0, f)
    <3>1. 0 + f <= s.size /\ s.start + 0 = s.start
      BY <2>4, <2>5
    <3>2. f > 0 => DataAt(heap, s.start + 0, f) = Slice(d.of, 0, f)
      BY <2>5, <2>6, <3>1
    <3>. QED
      BY <3>1, <3>2, Zenon
  <2>8. f < n => DataAt(heap, s.start + f, n - f) = Slice(d.of, f, n - f)
    <3>1. f < n => f + (n - f) <= s.size /\ n - f \in Nat /\ n - f > 0
      BY <2>5
    <3>. QED
      BY <2>5, <2>6, <3>1
  <2>. DEFINE p == s.start + f
              r == n - f
  <2>9. k.dynamic = [buf |-> p, size |-> r, valid |-> r # 0] /\ (f < n => DataAt(heap, p, r) = Slice(d.of, f, r))
    BY <2>2, <2>8
  <2>9a. (r = 0 <=> f = n) /\ (f = 0 => r = n) /\ (f = n \/ f < n)
    BY <2>4, <2>5
  <2>. HIDE DEF p, r
  <2>10. two = IF r # 0 THEN <<[at |-> f, data |-> Slice(d.of, f, r)]>> ELSE <<>>
    <3>1. CASE r # 0
      <4>0. k.dynamic.valid = (r # 0) /\ k.dynamic.buf = p /\ k.dynamic.size = r
        BY <2>9
      <4>1. k.dynamic.valid /\ k.dynamic.buf = p /\ k.dynamic.size = r
        BY <4>0, <3>1
      <4>2. Write(static, k.dynamic) = [at |-> f, data |-> Slice(d.of, f, r)]
        BY <2>3, <2>9, <2>9a, <3>1, <4>1 DEF Write
      <4>. QED
        BY <3>1, <4>1, <4>2
    <3>2. CASE r = 0
      <4>1. k.dynamic.valid = (r # 0)
        BY <2>9
      <4>. QED
        BY <3>2, <4>1
    <3>. QED
      BY <3>1, <3>2
  <2>11. one = IF f > 0 THEN <<[at |-> 0, data |-> Slice(d.of, 0, f)]>> ELSE <<>>
    <3>1. CASE f > 0
      <4>1. k.static.valid /\ k.static.buf = s.start /\ k.static.size = f
        BY <2>2, <3>1
      <4>2. Write(0, k.static) = [at |-> 0, data |-> Slice(d.of, 0, f)]
        BY <2>7, <3>1, <4>1 DEF Write
      <4>. QED
        BY <3>1, <4>1, <4>2
    <3>2. CASE ~(f > 0)
      BY <2>2, <3>2
    <3>. QED
      BY <3>1, <3>2
  <2>12. n \in Nat /\ f \in Nat
    BY <2>5
  <2>13. d = DataOf(source, x) /\ c = SegmentOf(source, x) /\ f = c.offset /\ n = c.size
    BY <2>3, <2>4
  <2>. HIDE DEF one, two, d, c
  <2>14. ASSUME NEW ws, ws = one \o two, NEW u, NEW v, NEW y, u = Slice(d.of, 0, f), v = Slice(d.of, f, r), y = Slice(d.of, 0, n)
         PROVE  Parts(d, f, n, ws)
    <3>1. CASE f > 0 /\ r # 0
      <4>1. one = <<[at |-> 0, data |-> u]>> /\ two = <<[at |-> f, data |-> v]>>
        BY <2>10, <2>11, <2>14, <3>1
      <4>2. ws = <<[at |-> 0, data |-> u], [at |-> f, data |-> v]>>
        <5>1. ws = one \o two
          BY <2>14
        <5>. DEFINE a == [at |-> 0, data |-> u]
                    b == [at |-> f, data |-> v]
        <5>2. one = <<a>> /\ two = <<b>>
          BY <4>1
        <5>. HIDE DEF a, b
        <5>3. ws = <<a, b>>
          BY <5>1, <5>2, Joined, Zenon
        <5>. QED
          BY <5>3 DEF a, b
      <4>3. f < n
        BY <2>9a, <3>1
      <4>4. v = Slice(d.of, f, n - f)
        BY <2>14 DEF r
      <4>. QED
        BY <2>14, <3>1, <4>2, <4>3, <4>4 DEF Parts
    <3>2. CASE f > 0 /\ r = 0
      <4>1. one = <<[at |-> 0, data |-> u]>> /\ two = <<>>
        BY <2>10, <2>11, <2>14, <3>2
      <4>2. ws = <<[at |-> 0, data |-> u]>>
        BY <2>14, <4>1
      <4>3. f = n
        BY <2>9a, <3>2
      <4>. QED
        BY <2>14, <3>2, <4>2, <4>3 DEF Parts
    <3>3. CASE ~(f > 0) /\ r # 0
      <4>1. f = 0 /\ r = n /\ n > 0
        BY <2>9a, <2>12, <3>3
      <4>2. one = <<>> /\ two = <<[at |-> 0, data |-> y]>>
        BY <2>10, <2>11, <2>14, <3>3, <4>1
      <4>3. ws = <<[at |-> 0, data |-> y]>>
        BY <2>14, <4>2
      <4>. QED
        BY <2>14, <3>3, <4>1, <4>3 DEF Parts
    <3>4. CASE ~(f > 0) /\ r = 0
      <4>1. one = <<>> /\ two = <<>>
        BY <2>10, <2>11, <3>4
      <4>2. ws = <<>>
        BY <2>14, <4>1
      <4>. QED
        BY <4>2 DEF Parts
    <3>. QED
      BY <3>1, <3>2, <3>3, <3>4
  <2>15. Parts(d, f, n, writes')
    BY <1>6, <2>14
  <2>16. Parts(DataOf(source', x), SegmentOf(source', x).offset, SegmentOf(source', x).size, writes')
    BY <1>1, <2>13, <2>15
  <2>17. "constants" \in NamesOf(source')
    BY <1>1, <2>1
  <2>. QED
    BY <2>16, <2>17 DEF ConstantsHeld
<1>. QED
  BY <1>2, <1>4, <1>5, <1>6

-----------------------------------------------------------------------------
(* ProgramContainer: programs and their images.                            *)

\* The network.elf the library has open.
NetworkOf(H) == DataAt(H, Get(H, "networkElf").buf, Get(H, "networkElf").size)

\* A program keeps the network.elf and the descriptions of the open container;
\* an image is the one of the program.
ProgramHeld ==
  /\ program # NoProgram =>
       /\ container # NotOpen
       /\ program = [created |-> TRUE, metadata |-> parseImage(NetworkOf(heap).of.sections),
                     data |-> updateInternalData(source.desc)]
  /\ image # NoImage => program # NoProgram /\ image = program.metadata

\* The network that init found is the one in the buffer.
LEMMA NetworkIs ==
  ASSUME HeapHeld, container # NotOpen
  PROVE  DataAt(heap, container.network.buf, container.network.size) = NetworkOf(heap)
<1>. DEFINE g == Get(heap, "networkElf")
<1>1. container.network = Segment(g)
  BY DEF HeapHeld, init
<1>. HIDE DEF g
<1>2. container.network.buf = g.buf /\ container.network.size = g.size
  BY <1>1 DEF Segment
<1>. QED
  BY <1>2 DEF g, NetworkOf

\* QRuntime is given network.elf and not a container; were it given one it would
\* read the same.
LEMMA SameImage ==
  ASSUME HeapHeld, container # NotOpen
  PROVE  loadImage(container.network.buf, container.network.size) = parseImage(NetworkOf(heap).of.sections)
<1>. DEFINE b == container.network.buf
            n == container.network.size
            e == getQPCSegment(heap, b, "networkElf", 0)
<1>1. Opened(source, heap) /\ source \in Containers /\ Laid(heap)
  BY HeapOpened DEF HeapHeld, Opened
<1>2. DataAt(heap, b, n) = NetworkOf(heap)
  BY NetworkIs
<1>3. CASE b = Own
  <2>1. e = Get(heap, "networkElf")
    BY <1>3 DEF Get
  <2>. HIDE DEF e
  <2>2. DataAt(heap, e.buf, e.size) = NetworkOf(heap)
    BY <2>1 DEF NetworkOf
  <2>3. e.found
    BY <2>1, OpenedHasRows DEF Get
  <2>4. loadImage(b, n) = parseImage((IF e.found THEN DataAt(heap, e.buf, e.size) ELSE DataAt(heap, b, n)).of.sections)
    BY DEF loadImage, e
  <2>. QED
    BY <2>2, <2>3, <2>4
<1>4. CASE b # Own
  <2>1. b \notin DOMAIN heap
    <3>. DEFINE x == "networkElf"
                s == Row(heap, x)
    <3>1. RowIn(source, heap[Own], Own, x, s) /\ Entry(heap, x) # 0 /\ x \in NamesOf(source)
      BY OpenedHasRows
    <3>2. s \in Rows /\ s.offset = 0 /\ Own <= s.start /\ s.start + s.size < Own + Room
      BY <1>1, <3>1, CompiledIs DEF RowIn
    <3>3. s.start \in Nat /\ s.size \in Nat
      BY <3>2 DEF Rows
    <3>4. getQPCSegment(heap, Own, x, 0) = [found |-> TRUE, buf |-> s.start + s.offset, size |-> s.size - s.offset]
      BY <1>1, <3>1, <3>2, EntryIs
    <3>. HIDE DEF s
    <3>5. container.network = Segment(getQPCSegment(heap, Own, x, 0))
      BY DEF HeapHeld, init, Get
    <3>6. b = s.start + s.offset
      BY <3>4, <3>5 DEF Segment
    <3>7. b = s.start
      BY <3>2, <3>3, <3>6
    <3>. HIDE DEF b
    <3>8. Own <= b /\ b < Own + Room /\ Own \in Nat /\ Room \in Nat /\ b \in Nat
      <4>1. Own \in Nat /\ Room \in Nat
        BY PlacesAre
      <4>2. s.start < Own + Room
        BY <3>2, <3>3, <4>1
      <4>. QED
        BY <3>2, <3>3, <3>7, <4>1, <4>2
    <3>9. Own \in Places
      BY PlacesAre
    <3>10. ASSUME b \in Places PROVE FALSE
      <4>1. Own < b
        BY <1>4, <3>8
      <4>2. Own + Room <= b
        BY <3>9, <3>10, <4>1, RoomAssumption
      <4>. QED
        BY <3>8, <4>2
    <3>. QED
      BY <1>1, <3>10 DEF Laid
  <2>2. e = NotFound
    <3>1. ~IsQpc(heap, b)
      BY <2>1 DEF IsQpc
    <3>. DEFINE t == <<>>
    <3>2. Len(t) \in Nat /\ Len(t) = 0
      OBVIOUS
    <3>. HIDE DEF t
    <3>2a. \A k \in 1..Len(t) : NameAt(heap, t[k].name) # "networkElf"
      BY <3>2
    <3>3. SegmentIndex(heap, t, "networkElf") = 0
      <4>1. SegmentIndex(heap, t, "networkElf") = 0
            <=> \A k \in 1..Len(t) : NameAt(heap, t[k].name) # "networkElf"
        BY <3>2, FirstRow
      <4>. QED
        BY <3>2a, <4>1
    <3>. HIDE DEF b
    <3>. QED
      BY <3>1, <3>3 DEF getQPCSegment, t
  <2>. HIDE DEF e
  <2>3. ~e.found
    BY <2>2 DEF NotFound
  <2>4. loadImage(b, n) = parseImage((IF e.found THEN DataAt(heap, e.buf, e.size) ELSE DataAt(heap, b, n)).of.sections)
    BY DEF loadImage, e
  <2>. QED
    BY <1>2, <2>3, <2>4
<1>. QED
  BY <1>3, <1>4

\* The inductive invariant of containers, constants, programs and images.
ContainerHeld == HeapHeld /\ ConstantsHeld /\ ProgramHeld

\* Where neither the program nor its image changes.
LEMMA ProgramKept ==
  ASSUME HeapHeld, HeapStep, ProgramHeld, program' = program, image' = image, source' = source,
         program # NoProgram => container' = container
  PROVE  ProgramHeld'
<1>1. ASSUME program # NoProgram PROVE NetworkOf(heap') = NetworkOf(heap)
  <2>1. SameOwn(heap, heap')
    BY <1>1 DEF HeapStep, ProgramHeld
  <2>2. Get(heap, "networkElf").found
    BY <1>1, OpenedHasRows DEF ProgramHeld, Get
  <2>3. Get(heap', "networkElf") = Get(heap, "networkElf")
    BY <2>1 DEF SameOwn
  <2>4. DataAt(heap', Get(heap, "networkElf").buf, Get(heap, "networkElf").size)
        = DataAt(heap, Get(heap, "networkElf").buf, Get(heap, "networkElf").size)
    BY <2>1, <2>2 DEF SameOwn
  <2>. QED
    BY <2>3, <2>4 DEF NetworkOf
<1>. QED
  BY <1>1 DEF ProgramHeld

\* Every step of the specification.
LEMMA ContainerNextHeld ==
  ASSUME ContainerHeld, [ContainerNext]_containerVars
  PROVE  ContainerHeld'
<1>0. HeapHeld /\ ConstantsHeld /\ ProgramHeld
  BY DEF ContainerHeld
<1>1. HeapStep
  BY <1>0, HeapNext
<1>2. HeapHeld'
  BY <1>1 DEF HeapStep
<1>3. ASSUME UNCHANGED <<source, container, program, writes, image>> PROVE ContainerHeld'
  <2>1. ProgramHeld'
    BY <1>0, <1>1, <1>3, ProgramKept
  <2>2. ConstantsHeld'
    BY <1>0, <1>3 DEF ConstantsHeld
  <2>. QED
    BY <1>2, <2>1, <2>2 DEF ContainerHeld
<1>4. CASE UNCHANGED containerVars
  BY <1>3, <1>4, SMTT(20) DEF containerVars
<1>5. ASSUME NEW h \in Handles,
             \/ BuildFromSegments(h) \/ BuildFromByteArray(h)
             \/ ConvertNetworkElfSection(h) \/ DestroyQpcHandle(h)
      PROVE  ContainerHeld'
  BY <1>3, <1>5 DEF BuildFromSegments, BuildFromByteArray, ConvertNetworkElfSection,
     DestroyQpcHandle
<1>6. CASE FreeSegments \/ CopyBytes \/ CopyQpcBuffer \/ BuildFile \/ ReadFile
  BY <1>3, <1>6 DEF FreeSegments, CopyBytes, CopyQpcBuffer, BuildFile, ReadFile
<1>7. CASE Open
  <2>1. UNCHANGED <<source, program, writes, image>> /\ container = NotOpen
    BY <1>7 DEF Open
  <2>2. program = NoProgram
    BY <1>0, <2>1 DEF ProgramHeld
  <2>3. ProgramHeld'
    BY <1>0, <1>1, <2>1, <2>2, ProgramKept
  <2>4. ConstantsHeld'
    BY <1>0, <2>1 DEF ConstantsHeld
  <2>. QED
    BY <1>2, <2>3, <2>4 DEF ContainerHeld
<1>8. CASE Close
  <2>1. UNCHANGED <<source, program, image>> /\ program = NoProgram /\ writes' = NotLoaded
    BY <1>8 DEF Close
  <2>2. ProgramHeld'
    BY <1>0, <1>1, <2>1, ProgramKept
  <2>3. ConstantsHeld'
    BY <2>1 DEF ConstantsHeld
  <2>. QED
    BY <1>2, <2>2, <2>3 DEF ContainerHeld
<1>9. CASE CreateProgram
  <2>1. UNCHANGED <<source, heap, container, writes, image>> /\ container # NotOpen /\ program = NoProgram
    BY <1>9 DEF CreateProgram
  <2>2. program' = [created |-> TRUE, metadata |-> parseImage(NetworkOf(heap).of.sections),
                    data |-> updateInternalData(source.desc)]
    BY <1>0, <1>9, <2>1, NetworkIs DEF CreateProgram
  <2>3. image' = NoImage
    BY <1>0, <2>1 DEF ProgramHeld
  <2>4. ProgramHeld'
    <3>1. NetworkOf(heap') = NetworkOf(heap) /\ updateInternalData(source'.desc) = updateInternalData(source.desc)
      BY <2>1
    <3>. QED
      BY <2>1, <2>2, <2>3, <3>1 DEF ProgramHeld
  <2>5. ConstantsHeld'
    BY <1>0, <2>1 DEF ConstantsHeld
  <2>. QED
    BY <1>2, <2>4, <2>5 DEF ContainerHeld
<1>10. CASE ReleaseProgram
  <2>1. program' = NoProgram /\ image' = NoImage /\ UNCHANGED <<source, writes>>
    BY <1>10 DEF ReleaseProgram
  <2>2. ProgramHeld' /\ ConstantsHeld'
    BY <1>0, <2>1 DEF ConstantsHeld, ProgramHeld
  <2>. QED
    BY <1>2, <2>2 DEF ContainerHeld
<1>11. CASE LoadConstants
  <2>1. UNCHANGED <<source, container, program, image>> /\ program # NoProgram
    BY <1>11 DEF LoadConstants
  <2>2. ProgramHeld'
    BY <1>0, <1>1, <2>1, ProgramKept
  <2>3. ConstantsHeld'
    BY <1>0, <1>11, <2>1, LoadConstantsHolds DEF ProgramHeld
  <2>. QED
    BY <1>2, <2>2, <2>3 DEF ContainerHeld
<1>12. CASE LoadImage
  <2>1. UNCHANGED <<source, heap, container, program, writes>> /\ program # NoProgram
        /\ image' = loadImage(container.network.buf, container.network.size)
    BY <1>12 DEF LoadImage
  <2>2. container # NotOpen /\ program.metadata = parseImage(NetworkOf(heap).of.sections)
    BY <1>0, <2>1 DEF ProgramHeld
  <2>3. image' = program.metadata
    BY <1>0, <2>1, <2>2, SameImage
  <2>4. ProgramHeld'
    <3>1. NetworkOf(heap') = NetworkOf(heap) /\ updateInternalData(source'.desc) = updateInternalData(source.desc)
      BY <2>1
    <3>. QED
      BY <1>0, <2>1, <2>3, <3>1 DEF ProgramHeld
  <2>5. ConstantsHeld'
    BY <1>0, <2>1 DEF ConstantsHeld
  <2>. QED
    BY <1>2, <2>4, <2>5 DEF ContainerHeld
<1>13. CASE UnloadImage
  <2>1. UNCHANGED <<source, heap, container, program, writes>> /\ image' = NoImage
    BY <1>13 DEF UnloadImage
  <2>2. ProgramHeld'
    <3>1. NetworkOf(heap') = NetworkOf(heap) /\ updateInternalData(source'.desc) = updateInternalData(source.desc)
      BY <2>1
    <3>. QED
      BY <1>0, <2>1, <3>1 DEF ProgramHeld
  <2>3. ConstantsHeld'
    BY <1>0, <2>1 DEF ConstantsHeld
  <2>. QED
    BY <1>2, <2>2, <2>3 DEF ContainerHeld
<1>. QED
  BY <1>4, <1>5, <1>6, <1>7, <1>8, <1>9, <1>10, <1>11, <1>12, <1>13 DEF ContainerNext

\* The invariant at all times.
LEMMA ContainerAlways == ContainerSpec => []ContainerHeld
<1>1. ContainerInit => ContainerHeld
  BY HeapInit DEF ContainerInit, ContainerHeld, ConstantsHeld, ProgramHeld
<1>2. ContainerHeld /\ [ContainerNext]_containerVars => ContainerHeld'
  BY ContainerNextHeld
<1>. QED
  BY <1>1, <1>2, PTL DEF ContainerSpec

\* The constants of a program are written once to each byte of their memory
\* (QDeviceImageCommon::load).
THEOREM EveryConstantOnce == ContainerSpec => []ConstantsOnce
<1>1. ContainerHeld => ConstantsOnce
  BY HeldOnce DEF ContainerHeld
<1>. QED
  BY <1>1, ContainerAlways, PTL

-----------------------------------------------------------------------------
(* Bindings.                                                               *)

\* Two lists behind each other.
LEMMA ListsJoined ==
  ASSUME NEW m \in Nat, NEW n \in Nat, NEW a, NEW b,
         a = [i \in 1..m |-> a[i]], b = [i \in 1..n |-> b[i]]
  PROVE  /\ Len(a \o b) = m + n /\ DOMAIN (a \o b) = 1..(m + n)
         /\ \A i \in 1..m : (a \o b)[i] = a[i]
         /\ \A i \in 1..n : m + i \in 1..(m + n) /\ (a \o b)[m + i] = b[i]
         /\ \A i \in 1..(m + n) : i \in 1..m \/ (i - m \in 1..n /\ (a \o b)[i] = b[i - m])
<1>. DEFINE R == {a[i] : i \in 1..m} \cup {b[i] : i \in 1..n}
            c == a \o b
<1>1. \A i \in 1..m : a[i] \in R
  OBVIOUS
<1>2. \A i \in 1..n : b[i] \in R
  OBVIOUS
<1>. HIDE DEF R
<1>3. a \in Seq(R) /\ Len(a) = m
  BY <1>1, ListIs
<1>4. b \in Seq(R) /\ Len(b) = n
  BY <1>2, ListIs
<1>5. /\ c \in Seq(R) /\ Len(c) = Len(a) + Len(b)
      /\ \A i \in 1..(Len(a) + Len(b)) : c[i] = IF i <= Len(a) THEN a[i] ELSE b[i - Len(a)]
  BY <1>3, <1>4, ConcatProperties
<1>. HIDE DEF c
<1>6. DOMAIN c = 1..Len(c)
  BY <1>5, IsList
<1>7. Len(c) = m + n /\ DOMAIN c = 1..(m + n)
      /\ \A i \in 1..(m + n) : c[i] = IF i <= m THEN a[i] ELSE b[i - m]
  BY <1>3, <1>4, <1>5, <1>6
<1>8. ASSUME NEW i \in 1..m PROVE c[i] = a[i]
  <2>1. i \in 1..(m + n) /\ i <= m
    OBVIOUS
  <2>. QED
    BY <1>7, <2>1
<1>9. ASSUME NEW i \in 1..n PROVE m + i \in 1..(m + n) /\ c[m + i] = b[i]
  <2>1. m + i \in 1..(m + n) /\ ~(m + i <= m) /\ (m + i) - m = i
    OBVIOUS
  <2>. QED
    BY <1>7, <2>1
<1>10. ASSUME NEW i \in 1..(m + n) PROVE i \in 1..m \/ (i - m \in 1..n /\ c[i] = b[i - m])
  <2>1. i \in 1..m \/ (i - m \in 1..n /\ ~(i <= m))
    OBVIOUS
  <2>. QED
    BY <1>7, <2>1
<1>. QED
  BY <1>7, <1>8, <1>9, <1>10 DEF c

\* The lists of a description are lists.
ListsOf(desc) ==
  /\ desc.inputs = [i \in 1..Len(desc.inputs) |-> desc.inputs[i]] /\ Len(desc.inputs) \in Nat
  /\ desc.outputs = [i \in 1..Len(desc.outputs) |-> desc.outputs[i]] /\ Len(desc.outputs) \in Nat
  /\ DOMAIN desc.inputs = 1..Len(desc.inputs) /\ DOMAIN desc.outputs = 1..Len(desc.outputs)
  /\ DOMAIN desc.dma_buffers = 1..Len(desc.dma_buffers) /\ Len(desc.dma_buffers) \in Nat

\* The lists of a valid description.
LEMMA DescriptionLists ==
  ASSUME NEW desc, ValidDescription(desc)
  PROVE  ListsOf(desc)
<1>1. /\ desc.inputs \in Seq(ToSet(desc.inputs)) /\ desc.outputs \in Seq(ToSet(desc.outputs))
      /\ desc.dma_buffers \in Seq(ToSet(desc.dma_buffers))
  BY DEF ValidDescription
<1>. DEFINE x == desc.inputs
            y == desc.outputs
            z == desc.dma_buffers
<1>. HIDE DEF x, y, z
<1>2. Len(x) \in Nat /\ DOMAIN x = 1..Len(x) /\ x = [k \in 1..Len(x) |-> x[k]]
  BY <1>1, IsList DEF x
<1>3. Len(y) \in Nat /\ DOMAIN y = 1..Len(y) /\ y = [k \in 1..Len(y) |-> y[k]]
  BY <1>1, IsList DEF y
<1>4. Len(z) \in Nat /\ DOMAIN z = 1..Len(z)
  BY <1>1, IsList DEF z
<1>. QED
  BY <1>2, <1>3, <1>4 DEF ListsOf, x, y, z

\* The buffers that the protocol buffer and the mappings describe.
DefaultAt(desc, i, b, dir) ==
  /\ DefaultSet(desc).bindings[i].index = i - 1
  /\ DefaultSet(desc).bindings[i].dir = dir
  /\ DefaultSet(desc).bindings[i].size = getIoDescBufferSize(Described(b, dir))
  /\ DefaultSet(desc).bindings[i].dma_buf_info = <<>>

\* What the i-th mapping says of a binding.
MappingAt(desc, i, b, dir) ==
  /\ generateIoDesc(desc)[i].index = i - 1
  /\ generateIoDesc(desc)[i].ioType = dir
  /\ generateIoDesc(desc)[i].size = getIoDescBufferSize(Described(b, dir))
  /\ generateIoDesc(desc)[i].isPartialBufferAllowed = b.partial

\* The bindings of the default set are those of the inputs, then the outputs.
LEMMA DefaultBindings ==
  ASSUME NEW desc, ListsOf(desc)
  PROVE  LET m == Len(desc.inputs)
             n == Len(desc.outputs)
         IN /\ Len(DefaultSet(desc).bindings) = m + n
            /\ DOMAIN DefaultSet(desc).bindings = 1..(m + n)
            /\ \A i \in 1..m : DefaultAt(desc, i, desc.inputs[i], In)
            /\ \A i \in 1..n : DefaultAt(desc, m + i, desc.outputs[i], Out)
<1>. DEFINE m == Len(desc.inputs)
            n == Len(desc.outputs)
            Side(bs, dir, base) ==
              [i \in DOMAIN bs |-> createBinding(bs[i].name, Described(bs[i], dir), base + i - 1, dir,
                                                 bs[i].partial, TRUE)]
            a == Side(desc.inputs, In, 0)
            b == Side(desc.outputs, Out, m)
            all == DefaultSet(desc).bindings
<1>1. m \in Nat /\ n \in Nat /\ DOMAIN desc.inputs = 1..m /\ DOMAIN desc.outputs = 1..n
  BY SMTT(20) DEF ListsOf
<1>2. all = a \o b
  BY DEF DefaultSet
<1>3. ASSUME NEW i \in 1..m
      PROVE  /\ a[i].index = 0 + i - 1 /\ a[i].dir = In /\ a[i].dma_buf_info = <<>>
             /\ a[i].size = getIoDescBufferSize(Described(desc.inputs[i], In))
  BY <1>1 DEF createBinding
<1>4. ASSUME NEW i \in 1..n
      PROVE  /\ b[i].index = m + i - 1 /\ b[i].dir = Out /\ b[i].dma_buf_info = <<>>
             /\ b[i].size = getIoDescBufferSize(Described(desc.outputs[i], Out))
  BY <1>1 DEF createBinding
<1>5. a = [i \in 1..m |-> a[i]] /\ b = [i \in 1..n |-> b[i]]
  BY <1>1
<1>. HIDE DEF a, b, m, n, all
<1>6. /\ Len(all) = m + n /\ DOMAIN all = 1..(m + n)
      /\ \A i \in 1..m : all[i] = a[i]
      /\ \A i \in 1..n : all[m + i] = b[i]
  BY <1>1, <1>2, <1>5, ListsJoined
<1>7. ASSUME NEW i \in 1..m PROVE DefaultAt(desc, i, desc.inputs[i], In)
  <2>1. 0 + i - 1 = i - 1
    OBVIOUS
  <2>2. all[i].index = i - 1
    BY <1>3, <1>6, <2>1
  <2>. QED
    BY <1>3, <1>6, <2>2 DEF DefaultAt, all
<1>8. ASSUME NEW i \in 1..n PROVE DefaultAt(desc, m + i, desc.outputs[i], Out)
  <2>1. m + i - 1 = (m + i) - 1
    BY <1>1
  <2>2. all[m + i].index = (m + i) - 1
    BY <1>4, <1>6, <2>1
  <2>. QED
    BY <1>4, <1>6, <2>2 DEF DefaultAt, all
<1>. QED
  BY <1>6, <1>7, <1>8 DEF all, m, n

\* The mappings are those of the inputs, then the outputs.
LEMMA Mappings ==
  ASSUME NEW desc, ListsOf(desc)
  PROVE  LET m == Len(desc.inputs)
             n == Len(desc.outputs)
         IN /\ Len(generateIoDesc(desc)) = m + n
            /\ DOMAIN generateIoDesc(desc) = 1..(m + n)
            /\ \A i \in 1..m : MappingAt(desc, i, desc.inputs[i], In)
            /\ \A i \in 1..n : MappingAt(desc, m + i, desc.outputs[i], Out)
<1>. DEFINE m == Len(desc.inputs)
            n == Len(desc.outputs)
            Side(bs, dir, base) ==
              [i \in DOMAIN bs |->
                 [bufferName |-> MappingName(bs[i]), index |-> base + i - 1, ioType |-> dir,
                  size |-> getIoDescBufferSize(Described(bs[i], dir)),
                  isPartialBufferAllowed |-> bs[i].partial, dataType |-> bs[i].io_initial.type]]
            a == Side(desc.inputs, In, 0)
            b == Side(desc.outputs, Out, m)
            all == generateIoDesc(desc)
<1>1. m \in Nat /\ n \in Nat /\ DOMAIN desc.inputs = 1..m /\ DOMAIN desc.outputs = 1..n
  BY DEF ListsOf
<1>2. all = a \o b
  BY DEF generateIoDesc
<1>3. ASSUME NEW i \in 1..m
      PROVE  /\ a[i].index = 0 + i - 1 /\ a[i].ioType = In
             /\ a[i].isPartialBufferAllowed = desc.inputs[i].partial
             /\ a[i].size = getIoDescBufferSize(Described(desc.inputs[i], In))
  BY <1>1
<1>4. ASSUME NEW i \in 1..n
      PROVE  /\ b[i].index = m + i - 1 /\ b[i].ioType = Out
             /\ b[i].isPartialBufferAllowed = desc.outputs[i].partial
             /\ b[i].size = getIoDescBufferSize(Described(desc.outputs[i], Out))
  BY <1>1
<1>5. a = [i \in 1..m |-> a[i]] /\ b = [i \in 1..n |-> b[i]]
  BY <1>1
<1>. HIDE DEF a, b, m, n, all
<1>6. /\ Len(all) = m + n /\ DOMAIN all = 1..(m + n)
      /\ \A i \in 1..m : all[i] = a[i]
      /\ \A i \in 1..n : all[m + i] = b[i]
  BY <1>1, <1>2, <1>5, ListsJoined
<1>7. ASSUME NEW i \in 1..m PROVE MappingAt(desc, i, desc.inputs[i], In)
  <2>1. 0 + i - 1 = i - 1
    OBVIOUS
  <2>2. all[i].index = i - 1
    BY <1>3, <1>6, <2>1
  <2>. QED
    BY <1>3, <1>6, <2>2 DEF MappingAt, all
<1>8. ASSUME NEW i \in 1..n PROVE MappingAt(desc, m + i, desc.outputs[i], Out)
  <2>1. m + i - 1 = (m + i) - 1
    BY <1>1
  <2>2. all[m + i].index = (m + i) - 1
    BY <1>4, <1>6, <2>1
  <2>. QED
    BY <1>4, <1>6, <2>2 DEF MappingAt, all
<1>. QED
  BY <1>6, <1>7, <1>8 DEF all, m, n

\* Both on the same buffer.
LEMMA DescriptionsMatch ==
  ASSUME NEW desc, ValidDescription(desc)
  PROVE  LET default == DefaultSet(desc).bindings
             info == generateIoDesc(desc)
         IN /\ Len(default) = Len(info)
            /\ \A i \in DOMAIN default :
                 /\ default[i].index = i - 1 /\ info[i].index = i - 1
                 /\ default[i].dir = info[i].ioType
                 /\ default[i].size = info[i].size
                 /\ default[i].dma_buf_info = <<>>
<1>. DEFINE m == Len(desc.inputs)
            n == Len(desc.outputs)
            default == DefaultSet(desc).bindings
            info == generateIoDesc(desc)
<1>1. ListsOf(desc) /\ m \in Nat /\ n \in Nat
  BY DescriptionLists DEF ListsOf
<1>2. /\ Len(default) = m + n /\ DOMAIN default = 1..(m + n)
      /\ \A i \in 1..m : DefaultAt(desc, i, desc.inputs[i], In)
      /\ \A i \in 1..n : DefaultAt(desc, m + i, desc.outputs[i], Out)
  BY <1>1, DefaultBindings
<1>3. /\ Len(info) = m + n
      /\ \A i \in 1..m : MappingAt(desc, i, desc.inputs[i], In)
      /\ \A i \in 1..n : MappingAt(desc, m + i, desc.outputs[i], Out)
  BY <1>1, Mappings
<1>. DEFINE Same(i) ==
              /\ default[i].index = i - 1 /\ info[i].index = i - 1
              /\ default[i].dir = info[i].ioType
              /\ default[i].size = info[i].size
              /\ default[i].dma_buf_info = <<>>
<1>4. ASSUME NEW i \in 1..m PROVE Same(i)
  BY <1>2, <1>3 DEF DefaultAt, MappingAt
<1>5. ASSUME NEW i \in 1..n PROVE Same(m + i)
  BY <1>2, <1>3 DEF DefaultAt, MappingAt
<1>. HIDE DEF Same, m, n
<1>6. ASSUME NEW i \in 1..(m + n) PROVE Same(i)
  <2>1. CASE i \in 1..m
    BY <1>4, <2>1
  <2>2. CASE i \notin 1..m
    <3>1. i - m \in 1..n /\ m + (i - m) = i
      BY <1>1, <2>2
    <3>2. Same(m + (i - m))
      BY <1>5, <3>1
    <3>. QED
      BY <3>1, <3>2
  <2>. QED
    BY <2>1, <2>2
<1>. QED
  BY <1>2, <1>3, <1>6 DEF Same

\* What crosses to the device by itself.
Inside(desc, b) ==
  \A d \in Range(b.dma_buf_info) :
    /\ d.dma_buf_index + 1 \in DOMAIN desc.dma_buffers
    /\ d.dma_offset + d.dma_size <= desc.dma_buffers[d.dma_buf_index + 1].size

\* A transform that is found is one of the binding.
LEMMA TransformFound ==
  ASSUME NEW b, b.transformseq \in Seq(ToSet(b.transformseq)), NEW kind, NEW dir,
         bindingFindTransform(b, kind, dir) # 0
  PROVE  b.transformseq[bindingFindTransform(b, kind, dir)] \in ToSet(b.transformseq)
<1>. DEFINE s == b.transformseq
            n == Len(s)
            hits == {k \in 1..n : s[k].kind = kind}
            i == SelectInSeq(s, LAMBDA t : t.kind = kind)
            j == bindingFindTransform(b, kind, dir)
<1>1. n \in Nat /\ DOMAIN s = 1..n /\ ToSet(s) = {s[k] : k \in 1..n}
  BY IsList DEF ToSet
<1>2. i = IF hits # {} THEN CHOOSE x \in hits : \A y \in hits : x <= y ELSE 0
  BY DEF SelectInSeq, Min
<1>3. j = IF i > 1 /\ dir = Out /\ kind # CopyDMABufferTransform THEN i - 1 ELSE i
  BY DEF bindingFindTransform
<1>4. j # 0
  OBVIOUS
<1>. HIDE DEF i, j, s, n
<1>5. i = 0 \/ i \in 1..n
  <2>1. CASE hits = {}
    BY <1>2, <2>1
  <2>2. CASE hits # {}
    <3>1. hits \in SUBSET Nat
      OBVIOUS
    <3>2. \E k \in hits : \A l \in hits : k <= l
      BY <2>2, <3>1, LeastNumber
    <3>. HIDE DEF hits
    <3>3. i \in hits
      BY <1>2, <2>2, <3>2
    <3>. QED
      BY <3>3 DEF hits
  <2>. QED
    BY <2>1, <2>2
<1>6. j \in 1..n
  BY <1>1, <1>3, <1>4, <1>5
<1>7. s[j] \in ToSet(s)
  BY <1>1, <1>6
<1>. QED
  BY <1>7 DEF s, j

\* What a copy transform says lies in its DMA buffer.
LEMMA TransformInside ==
  ASSUME NEW desc, ValidDescription(desc), NEW b \in ToSet(desc.inputs) \cup ToSet(desc.outputs),
         NEW t \in ToSet(b.transformseq), NEW name, NEW index, NEW dir, NEW partial
  PROVE  Inside(desc, createBindingFromTransform(name, t, index, dir, partial))
<1>. DEFINE x == createBinding(name, t, index, dir, partial, TRUE)
            info == IF t.kind = CopyDMABufferTransform
                    THEN <<[dma_size |-> BytesOf(t.type, t.dims), dma_offset |-> t.offset,
                            dma_buf_index |-> t.buffer_num]>>
                    ELSE <<>>
            y == createBindingFromTransform(name, t, index, dir, partial)
<1>1. y = [x EXCEPT !.dma_buf_info = info]
  BY DEF createBindingFromTransform
<1>2. "dma_buf_info" \in DOMAIN x
  BY DEF createBinding
<1>. HIDE DEF x, y, info
<1>3. y.dma_buf_info = info
  BY <1>1, <1>2, Zenon
<1>4. CASE t.kind # CopyDMABufferTransform
  <2>1. info = <<>>
    BY <1>4 DEF info
  <2>2. Range(<<>>) = {}
    BY DEF Range
  <2>. QED
    BY <1>3, <2>1, <2>2 DEF Inside, y
<1>5. CASE t.kind = CopyDMABufferTransform
  <2>. DEFINE d == [dma_size |-> BytesOf(t.type, t.dims), dma_offset |-> t.offset,
                    dma_buf_index |-> t.buffer_num]
  <2>1. info = <<d>>
    BY <1>5 DEF info
  <2>2. d.dma_size = BytesOf(t.type, t.dims) /\ d.dma_offset = t.offset /\ d.dma_buf_index = t.buffer_num
    OBVIOUS
  <2>3. /\ t.buffer_num + 1 \in DOMAIN desc.dma_buffers
        /\ t.offset + BytesOf(t.type, t.dims) <= desc.dma_buffers[t.buffer_num + 1].size
    BY <1>5 DEF ValidDescription
  <2>. HIDE DEF d
  <2>4. Range(<<d>>) = {d}
    BY DEF Range
  <2>. QED
    BY <1>3, <2>1, <2>2, <2>3, <2>4 DEF Inside, y
<1>. QED
  BY <1>4, <1>5

\* So does what one set of bindings says.
LEMMA SetInside ==
  ASSUME NEW desc, ValidDescription(desc), NEW s, NEW i \in DOMAIN IoSet(desc, s).bindings
  PROVE  Inside(desc, IoSet(desc, s).bindings[i])
<1>. DEFINE One(b, dir, kind, index) ==
              LET k == bindingFindTransform(b, kind, dir) IN
              IF k # 0 THEN createBindingFromTransform(b.name, b.transformseq[k], index, dir, b.partial)
              ELSE createBinding(b.name, Described(b, dir), index, dir, b.partial, FALSE)
            m == Len(desc.inputs)
            n == Len(desc.outputs)
            x == [k \in DOMAIN desc.inputs |-> One(desc.inputs[k], In, s.in, k - 1)]
            y == [k \in DOMAIN desc.outputs |-> One(desc.outputs[k], Out, s.out, m + k - 1)]
            all == IoSet(desc, s).bindings
<1>1. all = x \o y
  BY DEF IoSet
<1>2. ASSUME NEW b \in ToSet(desc.inputs) \cup ToSet(desc.outputs), NEW dir, NEW kind, NEW index
      PROVE  Inside(desc, One(b, dir, kind, index))
  <2>. DEFINE k == bindingFindTransform(b, kind, dir)
  <2>1. b.transformseq \in Seq(ToSet(b.transformseq))
    BY DEF ValidDescription
  <2>2. CASE k # 0
    <3>1. b.transformseq[k] \in ToSet(b.transformseq)
      BY <2>1, <2>2, TransformFound
    <3>. HIDE DEF k
    <3>2. One(b, dir, kind, index) = createBindingFromTransform(b.name, b.transformseq[k], index, dir, b.partial)
      BY <2>2 DEF k
    <3>. HIDE DEF One
    <3>. QED
      BY <3>1, <3>2, TransformInside
  <2>3. CASE k = 0
    <3>1. One(b, dir, kind, index).dma_buf_info = <<>>
      BY <2>3 DEF createBinding
    <3>2. Range(<<>>) = {}
      BY DEF Range
    <3>. HIDE DEF One
    <3>. QED
      BY <3>1, <3>2 DEF Inside
  <2>. QED
    BY <2>2, <2>3
<1>3. m \in Nat /\ n \in Nat /\ DOMAIN desc.inputs = 1..m /\ DOMAIN desc.outputs = 1..n
  BY DescriptionLists DEF ListsOf
<1>4. \A k \in 1..m : desc.inputs[k] \in ToSet(desc.inputs)
  BY <1>3 DEF ToSet
<1>5. \A k \in 1..n : desc.outputs[k] \in ToSet(desc.outputs)
  BY <1>3 DEF ToSet
<1>. HIDE DEF One
<1>6. \A k \in 1..m : Inside(desc, x[k])
  BY <1>2, <1>3, <1>4
<1>7. \A k \in 1..n : Inside(desc, y[k])
  BY <1>2, <1>3, <1>5
<1>8. x = [k \in 1..m |-> x[k]] /\ y = [k \in 1..n |-> y[k]]
  BY <1>3
<1>. HIDE DEF x, y, m, n, all
<1>9. /\ DOMAIN all = 1..(m + n)
      /\ \A k \in 1..m : all[k] = x[k]
      /\ \A k \in 1..(m + n) : k \in 1..m \/ (k - m \in 1..n /\ all[k] = y[k - m])
  BY <1>1, <1>3, <1>8, ListsJoined
<1>10. i \in 1..(m + n)
  BY <1>9 DEF all
<1>11. Inside(desc, all[i])
  BY <1>6, <1>7, <1>9, <1>10
<1>. QED
  BY <1>11, SMTT(20) DEF all

\* So does what all sets say.
LEMMA AllInside ==
  ASSUME NEW desc, ValidDescription(desc), NEW set \in Range(generateIoDescPb(desc).io_sets),
         NEW b \in Range(set.bindings)
  PROVE  Inside(desc, b)
<1>. DEFINE Found(s) == hasTransform(desc.inputs, s.in) \/ hasTransform(desc.outputs, s.out)
            F == {s \in ToSet(IoSetSearchSpace) : Found(s)}
            found == Kept(IoSetSearchSpace, F)
            x == <<DefaultSet(desc)>>
            y == [i \in DOMAIN found |-> IoSet(desc, found[i])]
            sets == generateIoDescPb(desc).io_sets
<1>1. sets = x \o y
  BY DEF generateIoDescPb
<1>. HIDE DEF F
<1>2. PICK c \in Nat : DOMAIN found = 1..c
  <2>1. 5 \in Nat /\ DOMAIN IoSetSearchSpace = 1..5
    BY DEF IoSetSearchSpace
  <2>2. \E c \in Nat : Holds(found, c, IoSetSearchSpace, F)
    BY <2>1, KeptElements
  <2>. QED
    BY <2>2 DEF Holds
<1>. HIDE DEF found
<1>3. x = [k \in 1..1 |-> x[k]] /\ y = [k \in 1..c |-> y[k]]
  <2>. DEFINE e == DefaultSet(desc)
  <2>1. x = <<e>>
    OBVIOUS
  <2>. HIDE DEF e
  <2>2. <<e>> = [k \in 1..1 |-> <<e>>[k]]
    OBVIOUS
  <2>3. x = [k \in 1..1 |-> x[k]]
    BY <2>1, <2>2, Zenon
  <2>4. y = [k \in 1..c |-> y[k]]
    BY <1>2
  <2>. QED
    BY <2>3, <2>4
<1>4. x[1] = DefaultSet(desc) /\ \A k \in 1..c : y[k] = IoSet(desc, found[k])
  BY <1>2
<1>. HIDE DEF x, y, sets
<1>5. /\ DOMAIN sets = 1..(1 + c)
      /\ \A k \in 1..1 : sets[k] = x[k]
      /\ \A k \in 1..(1 + c) : k \in 1..1 \/ (k - 1 \in 1..c /\ sets[k] = y[k - 1])
  BY <1>1, <1>3, ListsJoined
<1>6. PICK k \in 1..(1 + c) : set = sets[k]
  BY <1>5 DEF Range, sets
<1>7. PICK i \in DOMAIN set.bindings : b = set.bindings[i]
  BY DEF Range
<1>8. CASE set = DefaultSet(desc)
  <2>1. b.dma_buf_info = <<>>
    BY <1>7, <1>8, DescriptionsMatch
  <2>2. Range(<<>>) = {}
    BY DEF Range
  <2>. QED
    BY <2>1, <2>2 DEF Inside
<1>9. CASE \E j \in 1..c : set = IoSet(desc, found[j])
  BY <1>7, <1>9, SetInside
<1>10. set = DefaultSet(desc) \/ \E j \in 1..c : set = IoSet(desc, found[j])
  BY <1>4, <1>5, <1>6
<1>. QED
  BY <1>8, <1>9, <1>10

\* Directions, sizes and partial buffers of a program.
Agreeing(directions, mappings) ==
  /\ Len(directions) = Len(mappings)
  /\ \A i \in DOMAIN mappings : directions[i] = "TO_DEV" <=> mappings[i].ioType = In

\* The directions a program keeps for the buffers of the application.
LEMMA UserDirections ==
  ASSUME NEW desc, ValidDescription(desc)
  PROVE  /\ Agreeing(updateInternalData(desc).userBufferQDirections, generateIoDesc(desc))
         /\ updateInternalData(desc).hasPartialTensor <=>
              \E i \in DOMAIN generateIoDesc(desc) : generateIoDesc(desc)[i].isPartialBufferAllowed
<1>. DEFINE m == Len(desc.inputs)
            n == Len(desc.outputs)
            x == [i \in DOMAIN desc.inputs |-> "TO_DEV"]
            y == [i \in DOMAIN desc.outputs |-> "FROM_DEV"]
            info == generateIoDesc(desc)
            all == updateInternalData(desc).userBufferQDirections
            has == updateInternalData(desc).hasPartialTensor
<1>1. m \in Nat /\ n \in Nat /\ DOMAIN desc.inputs = 1..m /\ DOMAIN desc.outputs = 1..n /\ ListsOf(desc)
  BY DescriptionLists DEF ListsOf
<1>2. all = x \o y
  BY DEF updateInternalData
<1>3. has <=> \E i \in DOMAIN desc.inputs : desc.inputs[i].partial
  BY DEF updateInternalData
<1>4. x = [k \in 1..m |-> x[k]] /\ y = [k \in 1..n |-> y[k]]
      /\ (\A k \in 1..m : x[k] = "TO_DEV") /\ (\A k \in 1..n : y[k] = "FROM_DEV")
  BY <1>1
<1>5. \A k \in 1..n : desc.outputs[k].partial = FALSE
  BY <1>1 DEF ValidDescription, ToSet
<1>6. /\ Len(info) = m + n /\ DOMAIN info = 1..(m + n)
      /\ \A i \in 1..m : MappingAt(desc, i, desc.inputs[i], In)
      /\ \A i \in 1..n : MappingAt(desc, m + i, desc.outputs[i], Out)
  BY <1>1, Mappings
<1>7. \A i \in 1..m : info[i].ioType = In /\ info[i].isPartialBufferAllowed = desc.inputs[i].partial
  BY <1>6 DEF MappingAt
<1>8. \A i \in 1..n : info[m + i].ioType = Out /\ info[m + i].isPartialBufferAllowed = FALSE
  BY <1>5, <1>6 DEF MappingAt
<1>. HIDE DEF m, n, x, y, info, all, has
<1>9. /\ Len(all) = m + n
      /\ \A i \in 1..m : all[i] = x[i]
      /\ \A i \in 1..(m + n) : i \in 1..m \/ (i - m \in 1..n /\ all[i] = y[i - m])
  BY <1>1, <1>2, <1>4, ListsJoined
<1>10. ASSUME NEW i \in 1..(m + n), i \notin 1..m PROVE i - m \in 1..n /\ m + (i - m) = i
  BY <1>1, <1>10
<1>11. \A i \in 1..(m + n) : all[i] = "TO_DEV" <=> info[i].ioType = In
  <2>. TAKE i \in 1..(m + n)
  <2>1. CASE i \in 1..m
    BY <1>4, <1>7, <1>9, <2>1
  <2>2. CASE i \notin 1..m
    <3>. DEFINE j == i - m
    <3>1. j \in 1..n /\ m + j = i /\ all[i] = y[j]
      BY <1>9, <1>10, <2>2
    <3>. HIDE DEF j
    <3>2. info[i].ioType = Out /\ all[i] = "FROM_DEV"
      BY <1>4, <1>8, <3>1
    <3>. QED
      BY <3>2 DEF In, Out
  <2>. QED
    BY <2>1, <2>2
<1>12. has <=> \E i \in 1..(m + n) : info[i].isPartialBufferAllowed
  <2>1. ASSUME has PROVE \E i \in 1..(m + n) : info[i].isPartialBufferAllowed
    <3>1. PICK i \in 1..m : desc.inputs[i].partial
      BY <1>1, <1>3, <2>1
    <3>2. i \in 1..(m + n)
      BY <1>1
    <3>. QED
      BY <1>7, <3>1, <3>2
  <2>2. ASSUME NEW i \in 1..(m + n), info[i].isPartialBufferAllowed PROVE has
    <3>1. CASE i \in 1..m
      BY <1>1, <1>3, <1>7, <2>2, <3>1
    <3>2. CASE i \notin 1..m
      <4>1. i - m \in 1..n /\ m + (i - m) = i
        BY <1>10, <3>2
      <4>2. info[m + (i - m)].isPartialBufferAllowed = FALSE
        BY <1>8, <4>1
      <4>. QED
        BY <2>2, <4>1, <4>2
    <3>. QED
      BY <3>1, <3>2
  <2>. QED
    BY <2>1, <2>2
<1>. QED
  BY <1>6, <1>9, <1>11, <1>12 DEF Agreeing, all, info, has

\* The directions and sizes it keeps for the DMA buffers.
LEMMA DmaDirections ==
  ASSUME NEW desc, ValidDescription(desc)
  PROVE  /\ Agreeing(updateInternalData(desc).dmaBufferQDirections, updateIoBufferInfoDma(desc))
         /\ DOMAIN updateIoBufferInfoDma(desc) = DOMAIN desc.dma_buffers
         /\ \A i \in DOMAIN desc.dma_buffers :
              updateIoBufferInfoDma(desc)[i].size = desc.dma_buffers[i].size
<1>. DEFINE n == Len(desc.dma_buffers)
            x == updateInternalData(desc).dmaBufferQDirections
            y == updateIoBufferInfoDma(desc)
<1>1. n \in Nat /\ DOMAIN desc.dma_buffers = 1..n
  BY DescriptionLists DEF ListsOf
<1>2. x = [i \in DOMAIN desc.dma_buffers |-> IF desc.dma_buffers[i].dir = In THEN "TO_DEV" ELSE "FROM_DEV"]
  BY DEF updateInternalData
<1>3. y = [i \in DOMAIN desc.dma_buffers |->
     [bufferName |-> noname, index |-> i - 1, ioType |-> desc.dma_buffers[i].dir,
      size |-> desc.dma_buffers[i].size, isPartialBufferAllowed |-> FALSE,
      dataType |-> "invalid"]]
  BY DEF updateIoBufferInfoDma
<1>4. \A i \in 1..n : y[i].ioType = desc.dma_buffers[i].dir /\ y[i].size = desc.dma_buffers[i].size
  BY <1>1, <1>3
<1>5. \A i \in 1..n : x[i] = "TO_DEV" <=> desc.dma_buffers[i].dir = In
  BY <1>1, <1>2
<1>6. x = [i \in 1..n |-> x[i]] /\ y = [i \in 1..n |-> y[i]] /\ DOMAIN y = 1..n
  BY <1>1, <1>2, <1>3
<1>. HIDE DEF x, y, n
<1>7. Len(x) = n
  <2>1. \A i \in 1..n : x[i] \in {x[k] : k \in 1..n}
    OBVIOUS
  <2>. QED
    BY <1>1, <1>6, <2>1, ListIs
<1>8. Len(y) = n
  <2>1. \A i \in 1..n : y[i] \in {y[k] : k \in 1..n}
    OBVIOUS
  <2>. QED
    BY <1>1, <1>6, <2>1, ListIs
<1>. QED
  BY <1>1, <1>4, <1>5, <1>6, <1>7, <1>8 DEF Agreeing, x, y

\* The invariant implies DescriptorsAgree.
LEMMA HeldAgrees == ContainerHeld => DescriptorsAgree
<1>. SUFFICES ASSUME ContainerHeld PROVE DescriptorsAgree
  OBVIOUS
<1>. DEFINE desc == source.desc
<1>1. HeapHeld /\ ProgramHeld
  BY DEF ContainerHeld
<1>2. ValidDescription(desc)
  BY <1>1, CompilerAssumption DEF HeapHeld
<1>. HIDE DEF desc
<1>. DEFINE p == parse(desc)
<1>3. /\ p.ioDesc.selected_set.bindings = DefaultSet(desc).bindings
      /\ p.ioDesc.io_sets = generateIoDescPb(desc).io_sets
      /\ p.ioBufferInfo = generateIoDesc(desc)
      /\ p.ioBufferInfoDma = updateIoBufferInfoDma(desc)
      /\ p.ioDesc.dma_buf = generateIoDescPb(desc).dma_buf
  <2>1. p.ioDesc = generateIoDescPb(desc) /\ p.ioBufferInfo = generateIoDesc(desc)
        /\ p.ioBufferInfoDma = updateIoBufferInfoDma(desc)
    BY DEF parse
  <2>2. generateIoDescPb(desc).selected_set = DefaultSet(desc)
    BY DEF generateIoDescPb
  <2>. QED
    BY <2>1, <2>2
<1>4. \A i \in DOMAIN desc.dma_buffers : p.ioDesc.dma_buf[i].size = desc.dma_buffers[i].size
  <2>1. \A i \in DOMAIN desc.dma_buffers : generateIoDescPb(desc).dma_buf[i].size = desc.dma_buffers[i].size
    BY DEF generateIoDescPb
  <2>. QED
    BY <1>3, <2>1
<1>. HIDE DEF p
<1>5. ASSUME container # NotOpen
      PROVE  /\ Len(p.ioDesc.selected_set.bindings) = Len(p.ioBufferInfo)
             /\ \A i \in DOMAIN p.ioDesc.selected_set.bindings :
                  /\ p.ioDesc.selected_set.bindings[i].index = i - 1 /\ p.ioBufferInfo[i].index = i - 1
                  /\ p.ioDesc.selected_set.bindings[i].dir = p.ioBufferInfo[i].ioType
                  /\ p.ioDesc.selected_set.bindings[i].size = p.ioBufferInfo[i].size
  BY <1>2, <1>3, DescriptionsMatch
<1>6. ASSUME NEW set \in Range(p.ioDesc.io_sets), NEW b \in Range(set.bindings), NEW d \in Range(b.dma_buf_info)
      PROVE  d.dma_offset + d.dma_size <= p.ioDesc.dma_buf[d.dma_buf_index + 1].size
  <2>1. Inside(desc, b)
    BY <1>2, <1>3, AllInside
  <2>2. /\ d.dma_buf_index + 1 \in DOMAIN desc.dma_buffers
        /\ d.dma_offset + d.dma_size <= desc.dma_buffers[d.dma_buf_index + 1].size
    BY <2>1 DEF Inside
  <2>3. p.ioDesc.dma_buf[d.dma_buf_index + 1].size = desc.dma_buffers[d.dma_buf_index + 1].size
    BY <1>4, <2>2
  <2>. QED
    BY <2>2, <2>3
<1>7. container # NotOpen => container.bindings = p
  BY <1>1 DEF HeapHeld, init, p, desc
<1>. DEFINE e == updateInternalData(desc)
<1>8. e.bindings = p
  BY DEF updateInternalData, p
<1>9. /\ Agreeing(e.userBufferQDirections, p.ioBufferInfo)
      /\ e.hasPartialTensor <=> \E i \in DOMAIN p.ioBufferInfo : p.ioBufferInfo[i].isPartialBufferAllowed
  BY <1>2, <1>3, UserDirections
<1>10. /\ Agreeing(e.dmaBufferQDirections, p.ioBufferInfoDma)
       /\ getDmaBufferSizes = [i \in DOMAIN p.ioBufferInfoDma |-> p.ioBufferInfoDma[i].size]
  <2>1. /\ Agreeing(e.dmaBufferQDirections, p.ioBufferInfoDma)
        /\ DOMAIN p.ioBufferInfoDma = DOMAIN desc.dma_buffers
        /\ \A i \in DOMAIN desc.dma_buffers : p.ioBufferInfoDma[i].size = desc.dma_buffers[i].size
    BY <1>2, <1>3, DmaDirections
  <2>2. getDmaBufferSizes = [i \in DOMAIN desc.dma_buffers |-> desc.dma_buffers[i].size]
    BY DEF getDmaBufferSizes, desc
  <2>. QED
    BY <2>1, <2>2
<1>. HIDE DEF e
<1>11. program # NoProgram => program.data = e
  BY <1>1 DEF ProgramHeld, e, desc
<1>12. program # NoProgram /\ image # NoImage => image = program.metadata
  BY <1>1 DEF ProgramHeld
<1>. QED
  BY <1>5, <1>6, <1>7, <1>8, <1>9, <1>10, <1>11, <1>12, SMTT(60) DEF DescriptorsAgree,
     Agreeing

\* All descriptions of the buffers agree, and what crosses to the device lies in
\* its DMA buffer (QBindingsParser.cpp, QProgram.cpp).
THEOREM EveryDescriptorAgrees == ContainerSpec => []DescriptorsAgree
BY HeldAgrees, ContainerAlways, PTL

-----------------------------------------------------------------------------
(* The fields an encoder names.                                            *)

\* The fields of the schema that are in the message and not in the base.
LEMMA FieldsNamed ==
  ASSUME NEW schema \in Schemas, NEW message, NEW base \in Seq(KnownFields)
  PROVE  LET required == filterBaseVersionFields(generateRequiredFields(message, schema), base) IN
         /\ required \in Seq(ToSet(schema))
         /\ \A k \in DOMAIN required : isInMessage(required[k], message)
         /\ \A f \in ToSet(schema) : isInMessage(f, message) /\ f \notin KnownFields =>
                                       \E k \in DOMAIN required : required[k] = f
<1> DEFINE in == {field \in ToSet(schema) : isInMessage(field, message)}
           found == Kept(schema, in)
           new == ToSet(found) \ ToSet(base)
           required == Kept(found, new)
<1>1. schema \in Seq(ToSet(schema))
  BY SchemasAssumption
<1>2. Len(schema) \in Nat /\ DOMAIN schema = 1..Len(schema)
  BY <1>1
<1>3. ToSet(schema) = {schema[i] : i \in DOMAIN schema}
  BY DEF ToSet
<1>4. PICK c \in Nat : Holds(found, c, schema, in)
  <2>. HIDE DEF in
  <2>. QED
    BY <1>2, KeptElements
<1>. HIDE DEF in, found
<1>5. DOMAIN found = 1..c /\ ToSet(found) = {found[k] : k \in 1..c}
  BY <1>4 DEF ToSet, Holds
<1>6. PICK d \in Nat : Holds(required, d, found, new)
  <2>. HIDE DEF new
  <2>. QED
    BY <1>5, KeptElements
<1>7. \A e \in new : e \in ToSet(found) /\ e \notin ToSet(base)
  OBVIOUS
<1>8. \A e \in ToSet(found) : e \notin KnownFields => e \in new
  BY DEF ToSet
<1>9. required = filterBaseVersionFields(generateRequiredFields(message, schema), base)
  BY DEF filterBaseVersionFields, generateRequiredFields, found, in
<1>. HIDE DEF required, new
<1>10. \A k \in 1..d : required[k] \in in
  BY <1>4, <1>5, <1>6 DEF Holds
<1>11. \A f \in in : f \in ToSet(schema) /\ isInMessage(f, message)
  BY DEF in
<1>12. \A f \in ToSet(schema) : isInMessage(f, message) => f \in in
  BY DEF in
<1>13. \A k \in 1..d : required[k] \in ToSet(schema) /\ isInMessage(required[k], message)
  BY <1>10, <1>11, Zenon
<1>14. required \in Seq(ToSet(schema)) /\ DOMAIN required = 1..d
  BY <1>6, <1>13, SMTT(20) DEF Holds
<1>15. ASSUME NEW f \in ToSet(schema), isInMessage(f, message), f \notin KnownFields
       PROVE  \E k \in DOMAIN required : required[k] = f
  <2>1. PICK i \in DOMAIN schema : schema[i] = f
    BY <1>3
  <2>2. PICK k \in 1..c : found[k] = f
    BY <1>4, <1>12, <1>15, <2>1 DEF Holds
  <2>3. f \in ToSet(found)
    BY <1>5, <2>2
  <2>4. f \in new
    BY <1>8, <1>15, <2>3
  <2>. QED
    BY <1>5, <1>6, <1>14, <2>2, <2>4 DEF Holds
<1>. QED
  BY <1>9, <1>13, <1>14, <1>15

\* Of the fields a reader does not know the message has those that are used.
LEMMA UsedAreInMessage ==
  ASSUME NEW md, NEW size, NEW schema \in Schemas, NEW f \in ToSet(schema), f \notin KnownFields
  PROVE  isInMessage(f, Message(TableOf(md, size, schema, <<>>))) <=>
           f \in NewFieldsUsed(schema, aicMetadataTranslateFlatbuff(md, size, <<>>))
<1> DEFINE t == aicMetadataTranslateFlatbuff(md, size, <<>>)
           T == TableOf(md, size, schema, <<>>)
           N == NewFieldsUsed(schema, t)
           V == VectorsOf(t)
           M == Message(T)
<1>0. f \in Seq(ToSet(f))
  BY SchemasAssumption
<1> DEFINE n == Len(f)
<1>1. n \in Nat /\ n >= 2
  BY <1>0, SchemasAssumption
<1>2. T.newFields = N
  BY DEF TableOf, aicMetadataTranslateFlatbuff
<1>3. VectorsOf(T) = V
  BY DEF TableOf, aicMetadataTranslateFlatbuff, VectorsOf
<1>4. SubSeq(f, 2, 2) = <<f[2]>>
  <2>1. \A i \in 2..2 : f[i] \in {f[2]}
    OBVIOUS
  <2>2. /\ SubSeq(f, 2, 2) \in Seq({f[2]}) /\ Len(SubSeq(f, 2, 2)) = 1
        /\ \A i \in 1..1 : SubSeq(f, 2, 2)[i] = f[2 + i - 1]
    BY <2>1, SubSeqProperties
  <2>. DEFINE q == SubSeq(f, 2, 2)
  <2>3. q \in Seq({f[2]}) /\ Len(q) = 1
    BY <2>2
  <2>. HIDE DEF q
  <2>4. DOMAIN q = {1} /\ q[1] = f[2]
    BY <2>3
  <2>5. q = <<f[2]>>
    BY <2>3, <2>4
  <2>. QED
    BY <2>5 DEF q
<1>5. M.arrays = {<<v>> : v \in V}
  BY <1>3 DEF Message
<1>6. M.paths = {<<v>> : v \in V \union {"versionMajor", "networkName", "numNSPs"}}
                  \union {<<g[2]>> : g \in {h \in N : Len(h) = 2}}
  BY <1>2, <1>3 DEF Message
<1>7. f \in N <=> n = 2 \/ f[2] \in V
  BY DEF NewFieldsUsed
<1>8. isInMessage(f, M) <=> \A i \in 2..n : \/ SubSeq(f, 2, i) \in M.paths
                                            \/ \E j \in 2..(i - 1) : SubSeq(f, 2, j) \in M.arrays
  <2>. HIDE DEF M
  <2>. QED
    BY <1>1 DEF isInMessage
<1>. HIDE DEF t, T, N, V, M
<1>9. CASE n = 2
  <2>1. f \in N
    BY <1>7, <1>9
  <2>2. <<f[2]>> \in M.paths
    BY <1>6, <1>9, <2>1
  <2>. HIDE DEF n
  <2>3. \A i \in 2..n : i = 2
    BY <1>9
  <2>4. isInMessage(f, M)
    BY <1>4, <1>8, <2>2, <2>3
  <2>. QED
    BY <2>1, <2>4 DEF N, M, T, t
<1>. HIDE DEF n
<1>10. CASE n # 2 /\ f[2] \in V
  <2>1. <<f[2]>> \in M.paths /\ <<f[2]>> \in M.arrays
    BY <1>5, <1>6, <1>10
  <2>2. \A i \in 2..n : i = 2 \/ 2 \in 2..(i - 1)
    BY <1>1
  <2>3. isInMessage(f, M)
    BY <1>4, <1>8, <2>1, <2>2
  <2>. QED
    BY <1>7, <1>10, <2>3 DEF N, M, T, t
<1>11. CASE n # 2 /\ f[2] \notin V
  <2>1. 3 \in 2..n
    BY <1>1, <1>11
  <2>2. SubSeq(f, 2, 3) \in Seq({f[2], f[3]}) /\ Len(SubSeq(f, 2, 3)) = 2
    <3>1. \A i \in 2..3 : f[i] \in {f[2], f[3]}
      OBVIOUS
    <3>. QED
      BY <3>1, SubSeqProperties
  <2>3. \A p \in M.paths : Len(p) = 1
    BY <1>6
  <2>4. SubSeq(f, 2, 3) \notin M.paths
    <3>1. SubSeq(f, 2, 3) \in M.paths => Len(SubSeq(f, 2, 3)) = 1
      BY <2>3, Zenon
    <3>. QED
      BY <2>2, <3>1
  <2>5. <<f[2]>> \notin M.arrays
    BY <1>5, <1>11
  <2>6. \A j \in 2..(3 - 1) : SubSeq(f, 2, j) \notin M.arrays
    <3>1. \A j \in 2..(3 - 1) : j = 2
      OBVIOUS
    <3>. QED
      BY <1>4, <2>5, <3>1, Zenon
  <2>7. ~isInMessage(f, M)
    BY <1>8, <2>1, <2>4, <2>6
  <2>. QED
    BY <1>7, <1>11, <2>7 DEF N, M, T, t
<1>. QED
  BY <1>9, <1>10, <1>11 DEF n

\* What the fields named in a table say of the new ones it uses.
Named(table, asked) ==
  /\ table.newFields = {} => introspectionCheck(table)
  /\ asked /\ introspectionCheck(table) => table.newFields \subseteq KnownFields

\* An encoder that is asked for names gives those of its fields.
LEMMA EncodedNames ==
  ASSUME NEW md, NEW size, NEW schema \in Schemas, NEW asked \in BOOLEAN, NEW cr \in BOOLEAN
  PROVE  Named(TableOf(md, size, schema, IF asked THEN RequiredOf(md, size, schema, cr) ELSE <<>>), asked)
<1> DEFINE R == IF asked THEN RequiredOf(md, size, schema, cr) ELSE <<>>
           T == TableOf(md, size, schema, R)
           N == NewFieldsUsed(schema, aicMetadataTranslateFlatbuff(md, size, <<>>))
           M == Message(TableOf(md, size, schema, <<>>))
           base == getMajorSchemaFields([cr |-> cr, fields |-> BaseFields])
<1>1. T.newFields = N /\ T.requiredFields = [i \in 1..Len(R) |-> R[i]]
  BY DEF TableOf, aicMetadataTranslateFlatbuff, translateRequiredFields, Vector
<1>2. base \in Seq(KnownFields)
  BY SchemasAssumption DEF getMajorSchemaFields
<1>3. asked => /\ R \in Seq(ToSet(schema))
               /\ \A k \in DOMAIN R : isInMessage(R[k], M)
               /\ \A f \in ToSet(schema) : isInMessage(f, M) /\ f \notin KnownFields =>
                                             \E k \in DOMAIN R : R[k] = f
  <2>. HIDE DEF base, M
  <2>. QED
    BY <1>2, FieldsNamed DEF RequiredOf, base, M
<1>4. ~asked => R = <<>>
  OBVIOUS
<1>. HIDE DEF R
<1>5. R \in Seq(ToSet(schema))
  <2>1. <<>> \in Seq(ToSet(schema))
    OBVIOUS
  <2>. QED
    BY <1>3, <1>4, <2>1
<1>6. T.requiredFields = R
  BY <1>1, <1>5
<1>7. R # Null
  BY <1>5, SchemasAssumption
<1>8. \A f \in ToSet(schema) : f \notin KnownFields => (isInMessage(f, M) <=> f \in N)
  BY UsedAreInMessage
<1>9. \A f \in N : f \in ToSet(schema)
  BY DEF NewFieldsUsed
<1>. HIDE DEF T, N, M, base
<1>10. \A k \in DOMAIN R : R[k] \in ToSet(schema)
  BY <1>5
<1>11. introspectionCheck(T) <=> \A k \in DOMAIN R : R[k] \in KnownFields
  BY <1>6, <1>7 DEF introspectionCheck, searchKnownFields
<1>12. N = {} => introspectionCheck(T)
  <2>1. CASE asked
    BY <1>3, <1>8, <1>10, <1>11, <2>1
  <2>2. CASE ~asked
    BY <1>4, <1>11, <2>2
  <2>. QED
    BY <2>1, <2>2
<1>13. asked /\ introspectionCheck(T) => N \subseteq KnownFields
  BY <1>3, <1>8, <1>9, <1>11
<1>. QED
  BY <1>1, <1>12, <1>13 DEF Named, T, R

-----------------------------------------------------------------------------
(* The section and what readers made of it.                                *)

\* A writer of the flatbuffer names no field and knows no new one.
Plain(f) ==
  /\ {"requiredFields", "newFields", "networkName"} \subseteq DOMAIN f
  /\ f.requiredFields = <<>> /\ f.newFields = {}

\* A section is absent, of the struct form, or a flatbuffer whose table names
\* the fields that are to be known; a reader has refused it or has found that
\* it knows them.
NamesInv ==
  /\ writer \in {"struct", "flatbuffer"}
  /\ writer = "flatbuffer" => Plain(w)
  /\ \/ bytes = None /\ out = Refused("nothing")
     \/ bytes = [form |-> "struct", header |-> FALSE, buf |-> bytes.buf] /\ out.res # "ok"
     \/ /\ bytes.asked \in BOOLEAN
        /\ bytes = [form |-> "flatbuffer", header |-> bytes.header, table |-> bytes.table,
                    encoded |-> bytes.encoded, asked |-> bytes.asked]
        /\ Named(bytes.table, bytes.asked)
        /\ out.res = "ok" => compatibilityCheck(bytes.table)
        /\ compatibilityCheck(bytes.table) => out.res \notin {"incompatible", "unverified"}
        /\ compatibilityCheck(bytes.table) /\ out.res = "terminate" =>
             bytes.header /\ out.why = "unverified"

\* The names at the start.
LEMMA NamesInit == Init => NamesInv
<1> SUFFICES ASSUME Init PROVE NamesInv
  OBVIOUS
<1>1. writer = "flatbuffer" => Plain(w)
  <2>1. ASSUME NEW major, NEW n, NEW sems, NEW l2
        PROVE  Plain(FW_initL2TCMResize(FW_setNumSemaphores(FW_setNumNSPs(
                 MetadataFlatbufferWriter(major, 0), n), sems), l2))
    BY DEF Plain, FW_initL2TCMResize, FW_setNumSemaphores, FW_setNumNSPs,
       MetadataFlatbufferWriter
  <2>. QED
    BY <2>1 DEF Init
<1>. QED
  BY <1>1 DEF Init, NamesInv

\* A call on the writer adds to one part.
LEMMA PartNames ==
  ASSUME NamesInv, NEW struct, NEW flatbuffer, Part(struct, flatbuffer),
         Plain(w) => Plain(flatbuffer)
  PROVE  NamesInv'
  BY DEF NamesInv, Part, Building

\* Every step keeps the names.
LEMMA NamesStep == NamesInv /\ [Next]_vars => NamesInv'
<1> SUFFICES ASSUME NamesInv, [Next]_vars PROVE NamesInv'
  OBVIOUS
<1>1. CASE AddDMARequest
  BY <1>1, PartNames DEF AddDMARequest, FW_addDMARequest, Plain
<1>2. CASE AddNSPMulticastEntry
  BY <1>2, PartNames DEF AddNSPMulticastEntry, FW_addNSPMulticastEntry, Plain
<1>3. CASE AddHostMulticastEntry
  BY <1>3, PartNames DEF AddHostMulticastEntry, FW_addHostMulticastEntry, Plain
<1>4. CASE AddThreadDescriptor
  BY <1>4, PartNames DEF AddThreadDescriptor, FW_addThreadDescriptor, Plain
<1>5. CASE AddConstantMapping
  BY <1>5, PartNames DEF AddConstantMapping, FW_addConstantMapping, Plain
<1>6. CASE InitSemaphore
  BY <1>6, PartNames DEF InitSemaphore, FW_initSemaphore, Plain
<1>7. CASE InitL2TCM
  BY <1>7, PartNames DEF InitL2TCM, FW_initL2TCMByte, Plain
<1>8. CASE SetNetworkName
  BY <1>8, PartNames DEF SetNetworkName, FW_setNetworkName, Plain
<1>9. CASE SetScalar
  BY <1>9, PartNames DEF SetScalar, FW_setScalar, Plain
<1>10. CASE Finalize
  <2>1. bytes = None /\ out = Refused("nothing")
    BY <1>10 DEF Finalize, NamesInv, None
  <2>2. UNCHANGED <<writer, w, out>>
    BY <1>10 DEF Finalize
  <2>3. CASE writer = "struct"
    BY <1>10, <2>1, <2>2, <2>3 DEF Finalize, NamesInv, Refused
  <2>4. CASE writer = "flatbuffer"
    <3>. DEFINE t == FW_finalize(w)
    <3>1. Plain(w)
      BY <2>4 DEF NamesInv
    <3>2. t.requiredFields = Null /\ t.newFields = {}
      BY <3>1 DEF Plain, FW_finalize, Pack, OrNull
    <3>3. bytes' = [form |-> "flatbuffer", header |-> FALSE, table |-> t, encoded |-> FALSE, asked |-> FALSE]
      BY <1>10, <2>4 DEF Finalize
    <3>. HIDE DEF t
    <3>4. Named(t, FALSE)
      BY <3>2 DEF Named, introspectionCheck
    <3>. QED
      BY <2>1, <2>2, <2>4, <3>1, <3>3, <3>4 DEF NamesInv, Refused
  <2>. QED
    BY <2>3, <2>4 DEF NamesInv
<1>11. CASE Encode
  <2>1. PICK major \in Majors, schema \in Schemas, asked \in BOOLEAN, cr \in BOOLEAN :
          LET table == TableOf(MDR_readMetadata(bytes.buf), bytes.buf.size, schema,
                               IF asked THEN RequiredOf(MDR_readMetadata(bytes.buf), bytes.buf.size, schema, cr)
                               ELSE <<>>)
          IN  \/ bytes' = bytes /\ out' = Terminated("version")
              \/ /\ bytes' = [form |-> "flatbuffer", header |-> FALSE, table |-> table,
                              encoded |-> TRUE, asked |-> asked]
                 /\ out' = Refused("nothing")
    BY <1>11 DEF Encode
  <2>2. bytes.form = "struct" /\ UNCHANGED <<writer, w>>
    BY <1>11 DEF Encode
  <2>3. bytes = [form |-> "struct", header |-> FALSE, buf |-> bytes.buf]
    BY <2>2 DEF NamesInv, None
  <2>4. CASE bytes' = bytes /\ out' = Terminated("version")
    BY <2>2, <2>3, <2>4 DEF NamesInv, Terminated
  <2>5. CASE ~(bytes' = bytes /\ out' = Terminated("version"))
    <3>. DEFINE R == IF asked THEN RequiredOf(MDR_readMetadata(bytes.buf), bytes.buf.size, schema, cr) ELSE <<>>
                t == TableOf(MDR_readMetadata(bytes.buf), bytes.buf.size, schema, R)
    <3>1. bytes' = [form |-> "flatbuffer", header |-> FALSE, table |-> t, encoded |-> TRUE, asked |-> asked]
          /\ out' = Refused("nothing")
      BY <2>1, <2>5
    <3>2. Named(t, asked)
      BY EncodedNames
    <3>. HIDE DEF t
    <3>. QED
      BY <2>2, <3>1, <3>2 DEF NamesInv, Refused
  <2>. QED
    BY <2>4, <2>5
<1>12. CASE AddHeader
  <2>1. /\ bytes = [form |-> "flatbuffer", header |-> bytes.header, table |-> bytes.table,
                    encoded |-> bytes.encoded, asked |-> bytes.asked]
        /\ Named(bytes.table, bytes.asked) /\ bytes.asked \in BOOLEAN
    BY <1>12 DEF AddHeader, NamesInv, None
  <2>2. /\ bytes' = [form |-> "flatbuffer", header |-> TRUE, table |-> bytes.table,
                     encoded |-> bytes.encoded, asked |-> bytes.asked]
        /\ out' = Refused("nothing") /\ UNCHANGED <<writer, w>>
    BY <1>12, <2>1 DEF AddHeader
  <2>. QED
    BY <2>1, <2>2 DEF NamesInv, Refused
<1>13. CASE Decode
  <2>1. bytes # None /\ UNCHANGED <<writer, w, bytes>> /\ out' = readMetadataFlatNativeCPP(bytes)
    BY <1>13 DEF Decode
  <2>2. CASE bytes = [form |-> "struct", header |-> FALSE, buf |-> bytes.buf]
    <3>1. stripTerminatorMetadata(bytes).form = "cut"
      BY <2>2 DEF stripTerminatorMetadata, flatbufVerifyMetadataBuffer
    <3>2. out' = Refused("unverified")
      BY <2>1, <3>1 DEF readMetadataFlatNativeCPP, flatbufVerifyMetadataBuffer
    <3>. QED
      BY <2>1, <2>2, <3>2 DEF NamesInv, Refused
  <2>3. CASE /\ bytes = [form |-> "flatbuffer", header |-> bytes.header, table |-> bytes.table,
                         encoded |-> bytes.encoded, asked |-> bytes.asked]
             /\ Named(bytes.table, bytes.asked) /\ bytes.asked \in BOOLEAN
    <3>. DEFINE b == stripTerminatorMetadata(bytes)
    <3>1. b.form = "flatbuffer" /\ ~b.header /\ b.table = bytes.table
      BY <2>3 DEF stripTerminatorMetadata, flatbufVerifyMetadataBuffer
    <3>2. out' = IF ~flatbufVerifyMetadataBuffer(b) THEN Refused("unverified")
                 ELSE IF ~compatibilityCheck(b.table) THEN Refused("incompatible")
                 ELSE [res |-> "ok", md |-> UnPack(b.table)]
      BY <2>1 DEF readMetadataFlatNativeCPP
    <3>. HIDE DEF b
    <3>3. out' = IF ~compatibilityCheck(bytes.table) THEN Refused("incompatible")
                 ELSE [res |-> "ok", md |-> UnPack(b.table)]
      BY <3>1, <3>2 DEF flatbufVerifyMetadataBuffer
    <3>. QED
      BY <2>1, <2>3, <3>3 DEF NamesInv, Refused
  <2>. QED
    BY <2>1, <2>2, <2>3 DEF NamesInv
<1>14. CASE Translate
  <2>1. bytes.form = "flatbuffer" /\ UNCHANGED <<writer, w, bytes>>
        /\ out' = flatbufValidateTranslateAicMetadata(bytes)
    BY <1>14 DEF Translate
  <2>2. /\ bytes = [form |-> "flatbuffer", header |-> bytes.header, table |-> bytes.table,
                    encoded |-> bytes.encoded, asked |-> bytes.asked]
        /\ Named(bytes.table, bytes.asked) /\ bytes.asked \in BOOLEAN
    BY <2>1 DEF NamesInv, None
  <2>3. /\ out'.res = "ok" => compatibilityCheck(bytes.table)
        /\ out'.res \notin {"incompatible", "unverified"}
        /\ compatibilityCheck(bytes.table) /\ out'.res = "terminate" =>
             bytes.header /\ out'.why = "unverified"
    BY <2>1 DEF flatbufValidateTranslateAicMetadata, readMetadataFlat, Refused, Terminated,
                flatbufVerifyMetadataBuffer
  <2>. QED
    BY <2>1, <2>2, <2>3 DEF NamesInv
<1>15. CASE UNCHANGED vars
  BY <1>15 DEF vars, NamesInv
<1>. QED
  BY <1>1, <1>2, <1>3, <1>4, <1>5, <1>6, <1>7, <1>8, <1>9, <1>10, <1>11, <1>12, <1>13,
     <1>14, <1>15 DEF Next

\* A network that uses a field its reader does not know is refused, when the
\* encoder was asked to name what has to be known, and one of another major
\* version always is (generateRequiredFields, compatibilityCheck).
THEOREM EveryNetworkUnderstood == Spec => []Understood
<1>1. NamesInv => Understood
  BY DEF NamesInv, Understood, Named, compatibilityCheck, Refused, None
<1>. QED
  BY <1>1, NamesInit, NamesStep, PTL DEF Spec

\* What this version wrote for itself is refused by one reader only and for one
\* reason: the translation, when the header is in front, fails to verify it and
\* ends the process (stripTerminatorMetadata, compatibilityCheck,
\* flatbufValidateTranslateAicMetadata).
THEOREM OwnRefusedForHeaderOnly == Spec => []OwnAccepted
<1>1. NamesInv => OwnAccepted
  BY DEF NamesInv, OwnAccepted, Named, compatibilityCheck, Refused, None
<1>. QED
  BY <1>1, NamesInit, NamesStep, PTL DEF Spec

===============================================================================
