----------------------------- MODULE SmapsProofs -----------------------------
(***************************************************************************)
(* What TLAPS proves of the two parsers, for files of any length.          *)
(***************************************************************************)
EXTENDS Smaps, WellFoundedInduction, TLAPS

USE SmapsAssumption DEF SmapsAssumption

(* The fields the kernel writes (proc(5)). *)
Names ==
  Counted \union
    {"Size", "KernelPageSize", "MMUPageSize", "Pss_Dirty", "Referenced", "Anonymous", "KSM",
     "LazyFree", "AnonHugePages", "ShmemPmdMapped", "FilePmdMapped", "Shared_Hugetlb",
     "Private_Hugetlb", "Swap", "SwapPss", "Locked"}

Line ==
  [kind : {"header"}, jsa : BOOLEAN]
    \union [kind : {"field"}, name : Names, kib : Nat]
    \union {VmFlags}

Sums == [Counted -> Nat]
Reader == [in : BOOLEAN, sums : Sums]
Accumulator == [in : BOOLEAN, sums : Sums, any : BOOLEAN]
-----------------------------------------------------------------------------
(* Induction, and runs that are built line by line.                        *)

LEMMA LeastNat ==
  ASSUME NEW T \in SUBSET Nat, T # {}
  PROVE  \E n \in T : \A m \in T : n <= m
<1> DEFINE R == OpToRel(<, Nat)
<1>1. IsWellFoundedOn(R, Nat)
  BY NatLessThanWellFounded
<1>2. \A m, n \in T : <<m, n>> \in R <=> m < n
  BY DEF OpToRel
<1> HIDE DEF R
<1>3. PICK n \in T : \A m \in T : ~(<<m, n>> \in R)
  BY <1>1, WFMin
<1>4. \A m \in T : m \in Nat /\ ~(m < n)
  BY <1>2, <1>3
<1>5. \A m \in T : n <= m
  BY <1>4
<1>6. QED
  BY <1>5

(* What holds at 0 and is handed on from n - 1 to n holds up to len. *)
LEMMA UpTo ==
  ASSUME NEW len \in Nat, NEW G, 0 \in G, \A n \in 1..len : n - 1 \in G => n \in G
  PROVE  \A n \in 0..len : n \in G
<1> DEFINE T == {n \in 0..len : n \notin G}
<1>1. SUFFICES ASSUME T # {} PROVE FALSE
  OBVIOUS
<1>2. PICK n \in T : \A m \in T : n <= m
  <2>1. T \in SUBSET Nat
    OBVIOUS
  <2> HIDE DEF T
  <2>2. QED
    BY <1>1, <2>1, LeastNat
<1>3. n \in 1..len /\ n - 1 \in 0..len /\ n - 1 < n
  OBVIOUS
<1>4. n - 1 \notin T
  <2> HIDE DEF T
  <2>1. QED
    BY <1>2, <1>3
<1>5. QED
  BY <1>3, <1>4

(* step[n] is the n-th step. *)
LEMMA RunExists ==
  ASSUME NEW S, NEW b \in S, NEW len \in Nat, NEW step \in [1..len -> [S -> S]]
  PROVE  \E f \in [0..len -> S] : f[0] = b /\ \A n \in 1..len : f[n] = step[n][f[n - 1]]
<1> DEFINE Run(k, f) == f[0] = b /\ \A n \in 1..k : f[n] = step[n][f[n - 1]]
           HasRun(k) == \E f \in [0..k -> S] : Run(k, f)
           G == {k \in 0..len : HasRun(k)}
<1>1. HasRun(0)
  <2> DEFINE g == [i \in 0..0 |-> b]
  <2>1. g \in [0..0 -> S] /\ Run(0, g)
    OBVIOUS
  <2>2. QED
    BY <2>1
<1>2. ASSUME NEW k \in 1..len, HasRun(k - 1) PROVE HasRun(k)
  <2>1. PICK f \in [0..k - 1 -> S] : Run(k - 1, f)
    BY <1>2
  <2> DEFINE g == [i \in 0..k |-> IF i = k THEN step[k][f[k - 1]] ELSE f[i]]
  <2>2. g \in [0..k -> S] /\ g[0] = b
    <3>1. step[k] \in [S -> S] /\ f[k - 1] \in S
      BY <2>1
    <3>2. step[k][f[k - 1]] \in S
      BY <3>1
    <3>3. \A i \in 0..k : i # k => i \in 0..k - 1
      OBVIOUS
    <3>4. QED
      BY <2>1, <3>2, <3>3
  <2>3. \A n \in 1..k : g[n] = step[n][g[n - 1]]
    BY <2>1
  <2> HIDE DEF g
  <2>4. QED
    BY <2>2, <2>3
<1>3. HasRun(len)
  <2> HIDE DEF HasRun
  <2>1. 0 \in G /\ \A k \in 1..len : k - 1 \in G => k \in G
    BY <1>1, <1>2
  <2>2. \A k \in 0..len : k \in G
    <3> HIDE DEF G
    <3>1. QED
      BY <2>1, UpTo
  <2>3. QED
    BY <2>2
<1>4. QED
  BY <1>3
-----------------------------------------------------------------------------
(* Each parser, line by line.                                              *)

LEMMA ConsumeLineType ==
  ASSUME NEW s \in Reader, NEW l \in Line
  PROVE  ConsumeLine(s, l) \in Reader
<1>1. CASE l.kind = "header"
  BY <1>1 DEF Line, VmFlags, Reader, ConsumeLine, Opens
<1>2. CASE l.kind = "VmFlags"
  BY <1>2 DEF Line, VmFlags, Reader, ConsumeLine
<1>3. CASE l.kind = "field"
  <2>1. l.kib \in Nat
    BY <1>3 DEF Line, VmFlags
  <2>2. ParseField(s.sums, l) \in Sums
    BY <2>1 DEF ParseField, Reader, Sums
  <2>3. QED
    BY <1>3, <2>2 DEF Reader, ConsumeLine
<1>4. QED
  BY <1>1, <1>2, <1>3 DEF Line, VmFlags

LEMMA AccumulateLineType ==
  ASSUME NEW s \in Accumulator, NEW l \in Line
  PROVE  AccumulateLine(s, l) \in Accumulator
<1>1. CASE l.kind = "header"
  BY <1>1 DEF Line, VmFlags, Accumulator, AccumulateLine
<1>2. CASE l.kind = "VmFlags"
  BY <1>2 DEF Line, VmFlags, Accumulator, AccumulateLine
<1>3. CASE l.kind = "field"
  <2>1. l.kib \in Nat
    BY <1>3 DEF Line, VmFlags
  <2>2. AddField(s.sums, l) \in Sums
    BY <2>1 DEF AddField, Accumulator, Sums
  <2>3. QED
    BY <1>3, <2>2 DEF Accumulator, AccumulateLine
<1>4. QED
  BY <1>1, <1>2, <1>3 DEF Line, VmFlags

(* The reader after each line is what the reader of the previous line made *)
(* of this one.                                                            *)
LEMMA ConsumingSteps ==
  ASSUME NEW file \in Seq(Line)
  PROVE  LET s == Consuming(file)
         IN  /\ s \in [0..Len(file) -> Reader]
             /\ s[0] = [in |-> FALSE, sums |-> Zero]
             /\ \A n \in 1..Len(file) : s[n] = ConsumeLine(s[n - 1], file[n])
<1> DEFINE len == Len(file)
           b == [in |-> FALSE, sums |-> Zero]
           step == [n \in 1..len |-> [s \in Reader |-> ConsumeLine(s, file[n])]]
           F(f) == [n \in 0..len |-> IF n = 0 THEN b ELSE ConsumeLine(f[n - 1], file[n])]
<1>1. len \in Nat
  OBVIOUS
<1>2. \A n \in 1..len : file[n] \in Line
  OBVIOUS
<1>3. b \in Reader
  BY DEF Reader, Sums, Zero
<1>4. Consuming(file) = CHOOSE s : s = F(s)
  BY DEF Consuming
<1> HIDE DEF len, b
<1>5. step \in [1..len -> [Reader -> Reader]]
  BY <1>1, <1>2, ConsumeLineType
<1>6. PICK f \in [0..len -> Reader] : f[0] = b /\ \A n \in 1..len : f[n] = step[n][f[n - 1]]
  <2> HIDE DEF step
  <2>1. \E f \in [0..len -> Reader] : f[0] = b /\ \A n \in 1..len : f[n] = step[n][f[n - 1]]
    BY <1>1, <1>3, <1>5, RunExists
  <2>2. QED
    BY <2>1
<1>7. ASSUME NEW n \in 1..len PROVE f[n] = ConsumeLine(f[n - 1], file[n])
  <2>1. f[n - 1] \in Reader
    BY <1>1, <1>2
  <2>2. QED
    BY <1>6, <2>1
<1>8. f = F(f)
  BY <1>1, <1>2, <1>6, <1>7
<1>9. Consuming(file) = F(Consuming(file))
  <2> HIDE DEF F
  <2>1. QED
    BY <1>4, <1>8, Zenon
<1> DEFINE s == Consuming(file)
<1>10. DOMAIN s = 0..len /\ s[0] = b /\ \A n \in 1..len : s[n] = ConsumeLine(s[n - 1], file[n])
  <2> HIDE DEF s
  <2>1. s = F(s)
    BY <1>9 DEF s
  <2>2. QED
    BY <1>1, <1>2, <2>1
<1>11. s \in [0..len -> Reader]
  <2> DEFINE G == {n \in 0..len : s[n] \in Reader}
  <2> HIDE DEF s
  <2>1. 0 \in G
    BY <1>1, <1>2, <1>3, <1>10
  <2>2. ASSUME NEW n \in 1..len, n - 1 \in G PROVE n \in G
    <3>1. s[n - 1] \in Reader /\ file[n] \in Line /\ n \in 0..len
      BY <1>1, <1>2, <2>2
    <3>2. ConsumeLine(s[n - 1], file[n]) \in Reader
      BY <3>1, ConsumeLineType
    <3>3. QED
      BY <1>10, <3>1, <3>2
  <2>3. \A n \in 0..len : n \in G
    <3> HIDE DEF G
    <3>1. QED
      BY <1>1, <1>2, <2>1, <2>2, UpTo
  <2>4. QED
    BY <1>9, <2>3 DEF s
<1>12. QED
  BY <1>10, <1>11 DEF len, b

LEMMA AccumulatingSteps ==
  ASSUME NEW file \in Seq(Line)
  PROVE  LET s == Accumulating(file)
         IN  /\ s \in [0..Len(file) -> Accumulator]
             /\ s[0] = [in |-> FALSE, sums |-> Zero, any |-> FALSE]
             /\ \A n \in 1..Len(file) : s[n] = AccumulateLine(s[n - 1], file[n])
<1> DEFINE len == Len(file)
           b == [in |-> FALSE, sums |-> Zero, any |-> FALSE]
           step == [n \in 1..len |-> [s \in Accumulator |-> AccumulateLine(s, file[n])]]
           F(f) == [n \in 0..len |-> IF n = 0 THEN b ELSE AccumulateLine(f[n - 1], file[n])]
<1>1. len \in Nat
  OBVIOUS
<1>2. \A n \in 1..len : file[n] \in Line
  OBVIOUS
<1>3. b \in Accumulator
  BY DEF Accumulator, Sums, Zero
<1>4. Accumulating(file) = CHOOSE s : s = F(s)
  BY DEF Accumulating
<1> HIDE DEF len, b
<1>5. step \in [1..len -> [Accumulator -> Accumulator]]
  BY <1>1, <1>2, AccumulateLineType
<1>6. PICK f \in [0..len -> Accumulator] : f[0] = b /\ \A n \in 1..len : f[n] = step[n][f[n - 1]]
  <2> HIDE DEF step
  <2>1. \E f \in [0..len -> Accumulator] : f[0] = b /\ \A n \in 1..len : f[n] = step[n][f[n - 1]]
    BY <1>1, <1>3, <1>5, RunExists
  <2>2. QED
    BY <2>1
<1>7. ASSUME NEW n \in 1..len PROVE f[n] = AccumulateLine(f[n - 1], file[n])
  <2>1. f[n - 1] \in Accumulator
    BY <1>1, <1>2
  <2>2. QED
    BY <1>6, <2>1
<1>8. f = F(f)
  BY <1>1, <1>2, <1>6, <1>7
<1>9. Accumulating(file) = F(Accumulating(file))
  <2> HIDE DEF F
  <2>1. QED
    BY <1>4, <1>8, Zenon
<1> DEFINE s == Accumulating(file)
<1>10. DOMAIN s = 0..len /\ s[0] = b /\ \A n \in 1..len : s[n] = AccumulateLine(s[n - 1], file[n])
  <2> HIDE DEF s
  <2>1. s = F(s)
    BY <1>9 DEF s
  <2>2. QED
    BY <1>1, <1>2, <2>1
<1>11. s \in [0..len -> Accumulator]
  <2> DEFINE G == {n \in 0..len : s[n] \in Accumulator}
  <2> HIDE DEF s
  <2>1. 0 \in G
    BY <1>1, <1>2, <1>3, <1>10
  <2>2. ASSUME NEW n \in 1..len, n - 1 \in G PROVE n \in G
    <3>1. s[n - 1] \in Accumulator /\ file[n] \in Line /\ n \in 0..len
      BY <1>1, <1>2, <2>2
    <3>2. AccumulateLine(s[n - 1], file[n]) \in Accumulator
      BY <3>1, AccumulateLineType
    <3>3. QED
      BY <1>10, <3>1, <3>2
  <2>3. \A n \in 0..len : n \in G
    <3> HIDE DEF G
    <3>1. QED
      BY <1>1, <1>2, <2>1, <2>2, UpTo
  <2>4. QED
    BY <1>9, <2>3 DEF s
<1>12. QED
  BY <1>10, <1>11 DEF len, b
-----------------------------------------------------------------------------
(* Both parsers make the same of a file.                                   *)

(* The kernel ends a mapping with VmFlags before it begins the next one.   *)
Closed(file) ==
  \A n \in 2..Len(file) : file[n].kind = "header" => file[n - 1].kind = "VmFlags"

Agree(s, a) ==
  s.in = a.in /\ s.sums = a.sums /\ (s.sums["Rss"] # 0 => a.any)

LEMMA LinesAgree ==
  ASSUME NEW s \in Reader, NEW a \in Accumulator, NEW l \in Line,
         Agree(s, a), l.kind = "header" => ~s.in
  PROVE  /\ Agree(ConsumeLine(s, l), AccumulateLine(a, l))
         /\ l.kind = "VmFlags" => ~ConsumeLine(s, l).in
<1>1. CASE l.kind = "header"
  BY <1>1 DEF Line, VmFlags, Reader, Accumulator, ConsumeLine, AccumulateLine, Opens, Agree
<1>2. CASE l.kind = "VmFlags"
  BY <1>2 DEF Line, VmFlags, Reader, Accumulator, ConsumeLine, AccumulateLine, Agree
<1>3. CASE l.kind = "field"
  <2>1. ParseField(s.sums, l) = AddField(a.sums, l)
    BY DEF ParseField, AddField, Agree
  <2>2. ParseField(s.sums, l)["Rss"] # s.sums["Rss"] => l.name = "Rss"
    BY DEF ParseField, Reader, Sums
  <2>3. CASE s.in
    <3>1. /\ ConsumeLine(s, l) = [s EXCEPT !.sums = ParseField(s.sums, l)]
          /\ AccumulateLine(a, l)
               = [a EXCEPT !.sums = AddField(a.sums, l), !.any = a.any \/ l.name = "Rss"]
      BY <1>3, <2>3 DEF ConsumeLine, AccumulateLine, Agree
    <3> DEFINE c == ConsumeLine(s, l)
               d == AccumulateLine(a, l)
    <3>2. c.in = s.in /\ c.sums = ParseField(s.sums, l)
      BY <3>1 DEF Reader
    <3>3. d.in = a.in /\ d.sums = AddField(a.sums, l) /\ (d.any <=> a.any \/ l.name = "Rss")
      BY <3>1 DEF Accumulator
    <3> HIDE DEF c, d
    <3>4. Agree(c, d)
      BY <2>1, <2>2, <3>2, <3>3 DEF Agree
    <3>5. QED
      BY <1>3, <3>4 DEF c, d
  <2>4. CASE ~s.in
    BY <1>3, <2>4 DEF ConsumeLine, AccumulateLine, Agree
  <2>5. QED
    BY <2>3, <2>4
<1>4. QED
  BY <1>1, <1>2, <1>3 DEF Line, VmFlags

(* The two parsers add up the same, whatever the file, as long as every    *)
(* mapping ends with VmFlags, although a header without .jsa closes a      *)
(* block in one and not in the other (smaps.c:49-88, app.go:295-341).      *)
THEOREM ParsersAgreeOnFiles ==
  ASSUME NEW file \in Seq(Line), Closed(file)
  PROVE  /\ Consume(file) = AccumulateSmaps(file).sums
         /\ Consume(file)["Rss"] # 0 => AccumulateSmaps(file).any
<1> DEFINE len == Len(file)
           s == Consuming(file)
           a == Accumulating(file)
           Same(n) == Agree(s[n], a[n]) /\ (n # 0 /\ file[n].kind = "VmFlags" => ~s[n].in)
           G == {n \in 0..len : Same(n)}
<1>1. len \in Nat
  OBVIOUS
<1>2. \A n \in 1..len : file[n] \in Line
  OBVIOUS
<1>3. /\ s \in [0..len -> Reader] /\ s[0] = [in |-> FALSE, sums |-> Zero]
      /\ \A n \in 1..len : s[n] = ConsumeLine(s[n - 1], file[n])
  BY ConsumingSteps
<1>4. /\ a \in [0..len -> Accumulator] /\ a[0] = [in |-> FALSE, sums |-> Zero, any |-> FALSE]
      /\ \A n \in 1..len : a[n] = AccumulateLine(a[n - 1], file[n])
  BY AccumulatingSteps
<1>5. \A n \in 2..len : file[n].kind = "header" => file[n - 1].kind = "VmFlags"
  BY DEF Closed
<1> HIDE DEF len, s, a
<1>6. Same(0)
  BY <1>3, <1>4 DEF Agree, Zero, Counted
<1>7. ASSUME NEW n \in 1..len, Same(n - 1) PROVE Same(n)
  <2>1. s[n - 1] \in Reader /\ a[n - 1] \in Accumulator /\ file[n] \in Line
    BY <1>1, <1>2, <1>3, <1>4
  <2>2. file[n].kind = "header" => ~s[n - 1].in
    <3>1. CASE n = 1
      BY <1>3, <3>1
    <3>2. CASE n # 1
      BY <1>1, <1>5, <1>7, <3>2
    <3>3. QED
      BY <3>1, <3>2
  <2>3. QED
    BY <1>3, <1>4, <1>7, <2>1, <2>2, LinesAgree
<1>8. Same(len)
  <2> HIDE DEF Same
  <2>1. 0 \in G /\ \A n \in 1..len : n - 1 \in G => n \in G
    BY <1>1, <1>6, <1>7
  <2>2. \A n \in 0..len : n \in G
    <3> HIDE DEF G
    <3>1. QED
      BY <1>1, <2>1, UpTo
  <2>3. QED
    BY <1>1, <2>2
<1>9. QED
  BY <1>8 DEF Agree, Consume, AccumulateSmaps, len, s, a

(* A file without the archive adds nothing. *)
LEMMA NothingToSee ==
  ASSUME NEW file \in Seq(Line), \A n \in 1..Len(file) : file[n].kind = "header" => ~file[n].jsa
  PROVE  Consume(file) = Zero /\ ~AccumulateSmaps(file).any
<1> DEFINE len == Len(file)
           s == Consuming(file)
           a == Accumulating(file)
           Same(n) == ~s[n].in /\ s[n].sums = Zero /\ ~a[n].in /\ ~a[n].any
           G == {n \in 0..len : Same(n)}
<1>1. len \in Nat
  OBVIOUS
<1>2. \A n \in 1..len : file[n] \in Line
  OBVIOUS
<1>3. /\ s \in [0..len -> Reader] /\ s[0] = [in |-> FALSE, sums |-> Zero]
      /\ \A n \in 1..len : s[n] = ConsumeLine(s[n - 1], file[n])
  BY ConsumingSteps
<1>4. /\ a \in [0..len -> Accumulator] /\ a[0] = [in |-> FALSE, sums |-> Zero, any |-> FALSE]
      /\ \A n \in 1..len : a[n] = AccumulateLine(a[n - 1], file[n])
  BY AccumulatingSteps
<1>5. \A n \in 1..len : file[n].kind = "header" => ~file[n].jsa
  OBVIOUS
<1> HIDE DEF len, s, a
<1>6. Same(0)
  BY <1>3, <1>4
<1>7. ASSUME NEW n \in 1..len, Same(n - 1) PROVE Same(n)
  <2>1. n - 1 \in 0..len
    BY <1>1
  <2>2. s[n - 1] \in Reader /\ a[n - 1] \in Accumulator /\ file[n] \in Line
    BY <2>1, <1>2, <1>3, <1>4
  <2>3. file[n].kind = "header" => ~file[n].jsa
    BY <1>5
  <2>4. s[n] = ConsumeLine(s[n - 1], file[n]) /\ a[n] = AccumulateLine(a[n - 1], file[n])
    BY <1>3, <1>4
  <2>5. ~s[n].in /\ s[n].sums = Zero
    BY <1>7, <2>2, <2>3, <2>4 DEF ConsumeLine, Opens, Reader
  <2>6. ~a[n].in /\ ~a[n].any
    BY <1>7, <2>2, <2>3, <2>4 DEF AccumulateLine, Accumulator
  <2>7. QED
    BY <2>5, <2>6
<1>8. Same(len)
  <2> HIDE DEF Same
  <2>1. 0 \in G /\ \A n \in 1..len : n - 1 \in G => n \in G
    BY <1>1, <1>6, <1>7
  <2>2. \A n \in 0..len : n \in G
    <3> HIDE DEF G
    <3>1. QED
      BY <1>1, <2>1, UpTo
  <2>3. QED
    BY <1>1, <2>2
<1>9. QED
  BY <1>8 DEF Consume, AccumulateSmaps, len, s, a
-----------------------------------------------------------------------------
(* What the tool makes of the file of a JVM.                               *)

(* A mapping with the amounts a; what the tool does not count is free. *)
Mapping(jsa, size, dirty, a) ==
  << Header(jsa), Field("Size", size), Field("Rss", a["Rss"]), Field("Pss", a["Pss"]),
     Field("Pss_Dirty", dirty),
     Field("Shared_Clean", a["Shared_Clean"]), Field("Shared_Dirty", a["Shared_Dirty"]),
     Field("Private_Clean", a["Private_Clean"]), Field("Private_Dirty", a["Private_Dirty"]), VmFlags >>

LEMMA MappingLines ==
  ASSUME NEW jsa \in BOOLEAN, NEW size \in Nat, NEW dirty \in Nat, NEW a \in Sums
  PROVE  LET b == Mapping(jsa, size, dirty, a)
         IN  b \in Seq(Line) /\ Len(b) = 10
<1>1. \A f \in Counted : a[f] \in Nat
  BY DEF Sums
<1>2. Header(jsa) \in Line /\ VmFlags \in Line
  BY DEF Line, Header
<1>3. ASSUME NEW name \in Names, NEW k \in Nat PROVE Field(name, k) \in Line
  BY DEF Line, Field
<1>4. \A f \in Counted : f \in Names /\ Field(f, a[f]) \in Line
  BY <1>1, <1>3 DEF Names
<1>5. /\ Field("Rss", a["Rss"]) \in Line /\ Field("Pss", a["Pss"]) \in Line
      /\ Field("Shared_Clean", a["Shared_Clean"]) \in Line
      /\ Field("Shared_Dirty", a["Shared_Dirty"]) \in Line
      /\ Field("Private_Clean", a["Private_Clean"]) \in Line
      /\ Field("Private_Dirty", a["Private_Dirty"]) \in Line
  BY <1>4 DEF Counted
<1>6. Field("Size", size) \in Line /\ Field("Pss_Dirty", dirty) \in Line
  BY <1>3 DEF Names
<1>7. QED
  BY <1>2, <1>5, <1>6 DEF Mapping

LEMMA FieldAdds ==
  ASSUME NEW s \in Reader, NEW name \in Names, NEW k \in Nat
  PROVE  LET t == ConsumeLine(s, Field(name, k))
         IN  /\ t \in Reader /\ t.in = s.in
             /\ \A f \in Counted :
                  t.sums[f] = IF s.in /\ f = name THEN s.sums[f] + k ELSE s.sums[f]
<1>1. Field(name, k) \in Line
  BY DEF Line, Field
<1>2. CASE s.in
  <2>1. ConsumeLine(s, Field(name, k)) = [s EXCEPT !.sums = ParseField(s.sums, Field(name, k))]
    BY <1>2 DEF ConsumeLine, Field
  <2>2. \A f \in Counted :
          ParseField(s.sums, Field(name, k))[f] = IF f = name THEN s.sums[f] + k ELSE s.sums[f]
    BY DEF ParseField, Field, Reader, Sums
  <2>3. QED
    BY <1>1, <1>2, <2>1, <2>2, ConsumeLineType DEF Reader
<1>3. CASE ~s.in
  BY <1>3 DEF ConsumeLine, Field
<1>4. QED
  BY <1>2, <1>3

(* In the block of a mapping with the amounts a, which began with the sums *)
(* of r: the fields in names have been read, if it has the needle.         *)
Added(s, r, jsa, a, names) ==
  /\ s \in Reader /\ s.in = jsa
  /\ \A f \in Counted :
       s.sums[f] = IF jsa /\ f \in names THEN r.sums[f] + a[f] ELSE r.sums[f]

LEMMA HeaderEnters ==
  ASSUME NEW r \in Reader, NEW jsa \in BOOLEAN, NEW a
  PROVE  Added(ConsumeLine(r, Header(jsa)), r, jsa, a, {})
<1> DEFINE l == Header(jsa)
<1>1. l.kind = "header" /\ l.jsa = jsa
  BY DEF Header
<1> HIDE DEF l
<1>2. ConsumeLine(r, l) = [r EXCEPT !.in = l.jsa]
  BY <1>1 DEF ConsumeLine, Opens
<1>3. QED
  BY <1>1, <1>2 DEF Added, Reader, l

LEMMA FieldStep ==
  ASSUME NEW r \in Reader, NEW jsa \in BOOLEAN, NEW a \in Sums, NEW names, NEW s,
         Added(s, r, jsa, a, names),
         NEW name \in Names, name \notin names, NEW k \in Nat, name \in Counted => k = a[name]
  PROVE  Added(ConsumeLine(s, Field(name, k)), r, jsa, a, names \union {name})
<1> DEFINE t == ConsumeLine(s, Field(name, k))
<1>1. s \in Reader /\ s.in = jsa
      /\ \A f \in Counted : s.sums[f] = IF jsa /\ f \in names THEN r.sums[f] + a[f] ELSE r.sums[f]
  BY DEF Added
<1>2. t \in Reader /\ t.in = jsa
      /\ \A f \in Counted : t.sums[f] = IF s.in /\ f = name THEN s.sums[f] + k ELSE s.sums[f]
  BY <1>1, FieldAdds
<1> HIDE DEF t
<1>3. \A f \in Counted :
        t.sums[f] = IF jsa /\ f \in names \union {name} THEN r.sums[f] + a[f] ELSE r.sums[f]
  BY <1>1, <1>2
<1>4. QED
  BY <1>2, <1>3 DEF Added, t

(* The lines of x are lines i + 1 to i + Len(x). *)
LinesAt(file, i, x) ==
  i + Len(x) <= Len(file) /\ \A n \in 1..Len(x) : file[i + n] = x[n]

(* Outside of a block, a mapping adds its amounts if it has the needle. *)
LEMMA MappingAdds ==
  ASSUME NEW file \in Seq(Line), NEW i \in Nat, NEW jsa \in BOOLEAN,
         NEW size \in Nat, NEW dirty \in Nat, NEW a \in Sums,
         LinesAt(file, i, Mapping(jsa, size, dirty, a)), ~Consuming(file)[i].in
  PROVE  LET s == Consuming(file)
         IN  /\ i + 10 <= Len(file) /\ ~s[i + 10].in /\ s[i].sums \in Sums
             /\ s[i + 10].sums = IF jsa THEN Plus(s[i].sums, a) ELSE s[i].sums
<1> DEFINE len == Len(file)
           s == Consuming(file)
           k(f) == a[f]
           r == s[i]
           In(n, names) == Added(s[i + n], r, jsa, a, names)
<1>0. Len(Mapping(jsa, size, dirty, a)) = 10
  BY MappingLines
<1>1. len \in Nat /\ i + 10 <= len
  BY <1>0 DEF LinesAt
<1>2. /\ s \in [0..len -> Reader]
      /\ \A n \in 1..len : s[n] = ConsumeLine(s[n - 1], file[n])
  BY ConsumingSteps
<1>3. \A f \in Counted : k(f) \in Nat
  BY DEF Sums
<1>4. /\ file[i + 1] = Header(jsa)
      /\ file[i + 2] = Field("Size", size)
      /\ file[i + 3] = Field("Rss", k("Rss"))
      /\ file[i + 4] = Field("Pss", k("Pss"))
      /\ file[i + 5] = Field("Pss_Dirty", dirty)
      /\ file[i + 6] = Field("Shared_Clean", k("Shared_Clean"))
      /\ file[i + 7] = Field("Shared_Dirty", k("Shared_Dirty"))
      /\ file[i + 8] = Field("Private_Clean", k("Private_Clean"))
      /\ file[i + 9] = Field("Private_Dirty", k("Private_Dirty"))
      /\ file[i + 10] = VmFlags
  <2> DEFINE x == Mapping(jsa, size, dirty, a)
  <2>1. \A n \in 1..10 : file[i + n] = x[n]
    <3> HIDE DEF x
    <3>1. QED
      BY <1>0 DEF LinesAt, x
  <2>2. /\ x[1] = Header(jsa) /\ x[2] = Field("Size", size)
        /\ x[3] = Field("Rss", k("Rss")) /\ x[4] = Field("Pss", k("Pss"))
        /\ x[5] = Field("Pss_Dirty", dirty)
        /\ x[6] = Field("Shared_Clean", k("Shared_Clean"))
        /\ x[7] = Field("Shared_Dirty", k("Shared_Dirty"))
        /\ x[8] = Field("Private_Clean", k("Private_Clean"))
        /\ x[9] = Field("Private_Dirty", k("Private_Dirty")) /\ x[10] = VmFlags
    BY DEF Mapping
  <2> HIDE DEF x, k
  <2>3. /\ file[i + 1] = x[1] /\ file[i + 2] = x[2] /\ file[i + 3] = x[3] /\ file[i + 4] = x[4]
        /\ file[i + 5] = x[5] /\ file[i + 6] = x[6] /\ file[i + 7] = x[7] /\ file[i + 8] = x[8]
        /\ file[i + 9] = x[9] /\ file[i + 10] = x[10]
    <3>1. 1..10 = {1, 2, 3, 4, 5, 6, 7, 8, 9, 10}
      OBVIOUS
    <3>2. QED
      BY <2>1, <3>1, Zenon
  <2>4. QED
    BY <2>2, <2>3, Zenon
<1>5. r \in Reader
  BY <1>1, <1>2
<1> HIDE DEF len, s
<1>6. ASSUME NEW n \in 0..9 PROVE s[i + (n + 1)] = ConsumeLine(s[i + n], file[i + (n + 1)])
  <2>1. i + (n + 1) \in 1..len /\ i + (n + 1) - 1 = i + n
    BY <1>1
  <2>2. QED
    BY <1>2, <2>1
<1> HIDE DEF k, r
<1>7. ASSUME NEW n \in 0..9, NEW names, In(n, names), NEW name \in Names, name \notin names,
             NEW m \in Nat, name \in Counted => m = k(name), file[i + (n + 1)] = Field(name, m)
      PROVE  In(n + 1, names \union {name})
  <2>1. Added(ConsumeLine(s[i + n], Field(name, m)), r, jsa, a, names \union {name})
    BY <1>5, <1>7, FieldStep DEF k
  <2>2. QED
    BY <1>6, <1>7, <2>1
<1> HIDE DEF In
<1>8. In(1, {})
  BY <1>4, <1>5, <1>6, HeaderEnters DEF In, r
<1>9. In(2, {"Size"})
  <2>1. In(1 + 1, {} \union {"Size"})
    <3>1. 1 \in 0..9 /\ "Size" \notin {} /\ file[i + (1 + 1)] = Field("Size", size)
      BY <1>4
    <3>2. size \in Nat /\ ("Size" \in Counted => size = k("Size"))
      BY <1>3 DEF Counted
    <3>3. "Size" \in Names
      BY DEF Names, Counted
    <3>4. QED
      BY <1>7, <1>8, <3>1, <3>2, <3>3
  <2>2. 1 + 1 = 2 /\ {} \union {"Size"} = {"Size"}
    OBVIOUS
  <2>3. QED
    BY <2>1, <2>2
<1>10. In(3, {"Size", "Rss"})
  <2>1. In(2 + 1, {"Size"} \union {"Rss"})
    <3>1. 2 \in 0..9 /\ "Rss" \notin {"Size"} /\ file[i + (2 + 1)] = Field("Rss", k("Rss"))
      BY <1>4
    <3>2. k("Rss") \in Nat /\ ("Rss" \in Counted => k("Rss") = k("Rss"))
      BY <1>3 DEF Counted
    <3>3. "Rss" \in Names
      BY DEF Names, Counted
    <3>4. QED
      BY <1>7, <1>9, <3>1, <3>2, <3>3
  <2>2. 2 + 1 = 3 /\ {"Size"} \union {"Rss"} = {"Size", "Rss"}
    OBVIOUS
  <2>3. QED
    BY <2>1, <2>2
<1>11. In(4, {"Size", "Rss", "Pss"})
  <2>1. In(3 + 1, {"Size", "Rss"} \union {"Pss"})
    <3>1. 3 \in 0..9 /\ "Pss" \notin {"Size", "Rss"} /\ file[i + (3 + 1)] = Field("Pss", k("Pss"))
      BY <1>4
    <3>2. k("Pss") \in Nat /\ ("Pss" \in Counted => k("Pss") = k("Pss"))
      BY <1>3 DEF Counted
    <3>3. "Pss" \in Names
      BY DEF Names, Counted
    <3>4. QED
      BY <1>7, <1>10, <3>1, <3>2, <3>3
  <2>2. 3 + 1 = 4 /\ {"Size", "Rss"} \union {"Pss"} = {"Size", "Rss", "Pss"}
    OBVIOUS
  <2>3. QED
    BY <2>1, <2>2
<1>12. In(5, {"Size", "Rss", "Pss", "Pss_Dirty"})
  <2>1. In(4 + 1, {"Size", "Rss", "Pss"} \union {"Pss_Dirty"})
    <3>1. 4 \in 0..9 /\ "Pss_Dirty" \notin {"Size", "Rss", "Pss"} /\ file[i + (4 + 1)] = Field("Pss_Dirty", dirty)
      BY <1>4
    <3>2. dirty \in Nat /\ ("Pss_Dirty" \in Counted => dirty = k("Pss_Dirty"))
      BY <1>3 DEF Counted
    <3>3. "Pss_Dirty" \in Names
      BY DEF Names, Counted
    <3>4. QED
      BY <1>7, <1>11, <3>1, <3>2, <3>3
  <2>2. 4 + 1 = 5 /\ {"Size", "Rss", "Pss"} \union {"Pss_Dirty"} = {"Size", "Rss", "Pss", "Pss_Dirty"}
    OBVIOUS
  <2>3. QED
    BY <2>1, <2>2
<1>13. In(6, {"Size", "Rss", "Pss", "Pss_Dirty", "Shared_Clean"})
  <2>1. In(5 + 1, {"Size", "Rss", "Pss", "Pss_Dirty"} \union {"Shared_Clean"})
    <3>1. 5 \in 0..9 /\ "Shared_Clean" \notin {"Size", "Rss", "Pss", "Pss_Dirty"} /\ file[i + (5 + 1)] = Field("Shared_Clean", k("Shared_Clean"))
      BY <1>4
    <3>2. k("Shared_Clean") \in Nat /\ ("Shared_Clean" \in Counted => k("Shared_Clean") = k("Shared_Clean"))
      BY <1>3 DEF Counted
    <3>3. "Shared_Clean" \in Names
      BY DEF Names, Counted
    <3>4. QED
      BY <1>7, <1>12, <3>1, <3>2, <3>3
  <2>2. 5 + 1 = 6 /\ {"Size", "Rss", "Pss", "Pss_Dirty"} \union {"Shared_Clean"} = {"Size", "Rss", "Pss", "Pss_Dirty", "Shared_Clean"}
    OBVIOUS
  <2>3. QED
    BY <2>1, <2>2
<1>14. In(7, {"Size", "Rss", "Pss", "Pss_Dirty", "Shared_Clean", "Shared_Dirty"})
  <2>1. In(6 + 1, {"Size", "Rss", "Pss", "Pss_Dirty", "Shared_Clean"} \union {"Shared_Dirty"})
    <3>1. 6 \in 0..9 /\ "Shared_Dirty" \notin {"Size", "Rss", "Pss", "Pss_Dirty", "Shared_Clean"} /\ file[i + (6 + 1)] = Field("Shared_Dirty", k("Shared_Dirty"))
      BY <1>4
    <3>2. k("Shared_Dirty") \in Nat /\ ("Shared_Dirty" \in Counted => k("Shared_Dirty") = k("Shared_Dirty"))
      BY <1>3 DEF Counted
    <3>3. "Shared_Dirty" \in Names
      BY DEF Names, Counted
    <3>4. QED
      BY <1>7, <1>13, <3>1, <3>2, <3>3
  <2>2. 6 + 1 = 7 /\ {"Size", "Rss", "Pss", "Pss_Dirty", "Shared_Clean"} \union {"Shared_Dirty"} = {"Size", "Rss", "Pss", "Pss_Dirty", "Shared_Clean", "Shared_Dirty"}
    OBVIOUS
  <2>3. QED
    BY <2>1, <2>2
<1>15. In(8, {"Size", "Rss", "Pss", "Pss_Dirty", "Shared_Clean", "Shared_Dirty", "Private_Clean"})
  <2>1. In(7 + 1, {"Size", "Rss", "Pss", "Pss_Dirty", "Shared_Clean", "Shared_Dirty"} \union {"Private_Clean"})
    <3>1. 7 \in 0..9 /\ "Private_Clean" \notin {"Size", "Rss", "Pss", "Pss_Dirty", "Shared_Clean", "Shared_Dirty"} /\ file[i + (7 + 1)] = Field("Private_Clean", k("Private_Clean"))
      BY <1>4
    <3>2. k("Private_Clean") \in Nat /\ ("Private_Clean" \in Counted => k("Private_Clean") = k("Private_Clean"))
      BY <1>3 DEF Counted
    <3>3. "Private_Clean" \in Names
      BY DEF Names, Counted
    <3>4. QED
      BY <1>7, <1>14, <3>1, <3>2, <3>3
  <2>2. 7 + 1 = 8 /\ {"Size", "Rss", "Pss", "Pss_Dirty", "Shared_Clean", "Shared_Dirty"} \union {"Private_Clean"} = {"Size", "Rss", "Pss", "Pss_Dirty", "Shared_Clean", "Shared_Dirty", "Private_Clean"}
    OBVIOUS
  <2>3. QED
    BY <2>1, <2>2
<1>16. In(9, {"Size", "Rss", "Pss", "Pss_Dirty", "Shared_Clean", "Shared_Dirty", "Private_Clean", "Private_Dirty"})
  <2>1. In(8 + 1, {"Size", "Rss", "Pss", "Pss_Dirty", "Shared_Clean", "Shared_Dirty", "Private_Clean"} \union {"Private_Dirty"})
    <3>1. 8 \in 0..9 /\ "Private_Dirty" \notin {"Size", "Rss", "Pss", "Pss_Dirty", "Shared_Clean", "Shared_Dirty", "Private_Clean"} /\ file[i + (8 + 1)] = Field("Private_Dirty", k("Private_Dirty"))
      BY <1>4
    <3>2. k("Private_Dirty") \in Nat /\ ("Private_Dirty" \in Counted => k("Private_Dirty") = k("Private_Dirty"))
      BY <1>3 DEF Counted
    <3>3. "Private_Dirty" \in Names
      BY DEF Names, Counted
    <3>4. QED
      BY <1>7, <1>15, <3>1, <3>2, <3>3
  <2>2. 8 + 1 = 9 /\ {"Size", "Rss", "Pss", "Pss_Dirty", "Shared_Clean", "Shared_Dirty", "Private_Clean"} \union {"Private_Dirty"} = {"Size", "Rss", "Pss", "Pss_Dirty", "Shared_Clean", "Shared_Dirty", "Private_Clean", "Private_Dirty"}
    OBVIOUS
  <2>3. QED
    BY <2>1, <2>2
<1>17. ~s[i + 10].in /\ s[i + 10].sums = s[i + 9].sums
  <2>1. s[i + (9 + 1)] = ConsumeLine(s[i + 9], VmFlags)
    BY <1>4, <1>6
  <2>2. QED
    BY <2>1, <1>16 DEF ConsumeLine, VmFlags, Reader, In, Added
<1>18. s[i + 9].sums = IF jsa THEN Plus(r.sums, a) ELSE r.sums
  <2>1. s[i + 9] \in Reader
        /\ \A f \in Counted : s[i + 9].sums[f] = IF jsa THEN r.sums[f] + a[f] ELSE r.sums[f]
    BY <1>16 DEF In, Added, Counted
  <2>2. QED
    BY <1>5, <2>1 DEF Plus, Reader, Sums
<1>19. QED
  BY <1>1, <1>5, <1>17, <1>18 DEF Reader, len, s, r

(* A file in which the last mapping is over. *)
Whole(file) ==
  file \in Seq(Line) /\ Len(file) > 0 /\ Closed(file) /\ file[Len(file)].kind = "VmFlags"

LEMMA MappingIsWhole ==
  ASSUME NEW jsa \in BOOLEAN, NEW size \in Nat, NEW dirty \in Nat, NEW a \in Sums
  PROVE  Whole(Mapping(jsa, size, dirty, a))
<1> DEFINE b == Mapping(jsa, size, dirty, a)
<1>1. b \in Seq(Line) /\ Len(b) = 10
  BY MappingLines
<1>2. b[10].kind = "VmFlags"
  BY DEF Mapping, VmFlags
<1>3. ASSUME NEW n \in 2..10 PROVE b[n].kind # "header"
  <2>1. n \in {2, 3, 4, 5, 6, 7, 8, 9, 10}
    OBVIOUS
  <2>2. QED
    BY <2>1 DEF Mapping, Field, VmFlags
<1> HIDE DEF b
<1>4. Closed(b)
  BY <1>1, <1>3 DEF Closed
<1>5. QED
  BY <1>1, <1>2, <1>4 DEF Whole, b

LEMMA ConcatIsWhole ==
  ASSUME NEW a, Whole(a), NEW b, Whole(b)
  PROVE  Whole(a \o b) /\ Len(a \o b) = Len(a) + Len(b)
<1>1. a \in Seq(Line) /\ b \in Seq(Line)
  BY DEF Whole
<1>2. /\ a \o b \in Seq(Line) /\ Len(a \o b) = Len(a) + Len(b)
      /\ Len(a) \in Nat \ {0} /\ Len(b) \in Nat \ {0}
      /\ \A n \in 1..Len(a) : (a \o b)[n] = a[n]
      /\ \A n \in 1..Len(b) : (a \o b)[Len(a) + n] = b[n]
  BY <1>1 DEF Whole
<1> DEFINE c == a \o b
           k == Len(a)
           l == Len(b)
<1> HIDE DEF c, k, l
<1>3. /\ c \in Seq(Line) /\ Len(c) = k + l /\ k \in Nat \ {0} /\ l \in Nat \ {0}
      /\ \A n \in 1..k : c[n] = a[n]
      /\ \A n \in 1..l : c[k + n] = b[n]
  BY <1>2 DEF c, k, l
<1>4. /\ \A n \in 2..k : a[n].kind = "header" => a[n - 1].kind = "VmFlags"
      /\ \A n \in 2..l : b[n].kind = "header" => b[n - 1].kind = "VmFlags"
      /\ a[k].kind = "VmFlags" /\ b[l].kind = "VmFlags"
  BY DEF Whole, Closed, k, l
<1>5. ASSUME NEW n \in 2..(k + l), c[n].kind = "header" PROVE c[n - 1].kind = "VmFlags"
  <2>1. CASE n <= k
    <3>1. n \in 2..k /\ n \in 1..k /\ n - 1 \in 1..k
      BY <1>3, <2>1
    <3>2. QED
      BY <1>3, <1>4, <1>5, <3>1
  <2>2. CASE n = k + 1
    <3>1. n - 1 = k /\ k \in 1..k
      BY <1>3, <2>2
    <3>2. QED
      BY <1>3, <1>4, <3>1
  <2>3. CASE n > k + 1
    <3> DEFINE m == n - k
    <3>1. /\ m \in 2..l /\ m \in 1..l /\ m - 1 \in 1..l
          /\ n = k + m /\ n - 1 = k + (m - 1)
      BY <1>3, <2>3
    <3> HIDE DEF m
    <3>2. c[n] = b[m] /\ c[n - 1] = b[m - 1]
      BY <1>3, <3>1
    <3>3. QED
      BY <1>4, <1>5, <3>1, <3>2
  <2>4. QED
    BY <1>3, <2>1, <2>2, <2>3
<1>6. Closed(c)
  BY <1>3, <1>5 DEF Closed
<1>7. c[k + l].kind = "VmFlags"
  BY <1>3, <1>4
<1>8. QED
  BY <1>3, <1>6, <1>7 DEF Whole, c, k, l

(* What a mapping of m clean copies has, and one of dirty pages. *)
Clean(kib, m) ==
  [f \in Counted |->
     IF f = "Rss" \/ (f = "Shared_Clean" /\ m > 1) \/ (f = "Private_Clean" /\ ~(m > 1)) THEN kib
     ELSE IF f = "Pss" THEN kib \div m ELSE 0]

Dirty(kib) == [f \in Counted |-> IF f \in {"Rss", "Pss", "Private_Dirty"} THEN kib ELSE 0]

LEMMA CleanIsMapping ==
  ASSUME NEW jsa \in BOOLEAN, NEW kib \in Nat, NEW m \in Nat \ {0}
  PROVE  Clean(kib, m) \in Sums /\ CleanMapping(jsa, kib, m) = Mapping(jsa, kib, 0, Clean(kib, m))
<1>1. kib \div m \in Nat
  OBVIOUS
<1>2. Clean(kib, m) \in Sums
  BY <1>1 DEF Clean, Sums
<1> DEFINE a == Clean(kib, m)
<1>3. /\ a["Rss"] = kib /\ a["Pss"] = kib \div m
      /\ a["Shared_Clean"] = (IF m > 1 THEN kib ELSE 0) /\ a["Shared_Dirty"] = 0
      /\ a["Private_Clean"] = (IF m > 1 THEN 0 ELSE kib) /\ a["Private_Dirty"] = 0
  BY DEF Clean, Counted
<1> HIDE DEF a
<1>4. CleanMapping(jsa, kib, m) = Mapping(jsa, kib, 0, a)
  BY <1>3, Zenon DEF CleanMapping, Mapping
<1>5. QED
  BY <1>2, <1>4 DEF a

LEMMA DirtyIsMapping ==
  ASSUME NEW jsa \in BOOLEAN, NEW kib \in Nat
  PROVE  Dirty(kib) \in Sums /\ DirtyMapping(jsa, kib) = Mapping(jsa, kib, kib, Dirty(kib))
<1>1. Dirty(kib) \in Sums
  BY DEF Dirty, Sums
<1> DEFINE a == Dirty(kib)
<1>2. /\ a["Rss"] = kib /\ a["Pss"] = kib
      /\ a["Shared_Clean"] = 0 /\ a["Shared_Dirty"] = 0
      /\ a["Private_Clean"] = 0 /\ a["Private_Dirty"] = kib
  BY DEF Dirty, Counted
<1> HIDE DEF a
<1>3. DirtyMapping(jsa, kib) = Mapping(jsa, kib, kib, a)
  BY <1>2, Zenon DEF DirtyMapping, Mapping
<1>4. QED
  BY <1>1, <1>3 DEF a

LEMMA PlusZero ==
  ASSUME NEW a \in Sums
  PROVE  Zero \in Sums /\ Plus(a, Zero) = a /\ Plus(Zero, a) = a
  BY DEF Plus, Sums, Zero

LEMMA PlusSums ==
  ASSUME NEW a \in Sums, NEW b \in Sums
  PROVE  Plus(a, b) \in Sums
  BY DEF Plus, Sums

LEMMA PlusAssociates ==
  ASSUME NEW a \in Sums, NEW b \in Sums, NEW c \in Sums
  PROVE  Plus(Plus(a, b), c) = Plus(a, Plus(b, c))
  BY DEF Plus, Sums

(* Wherever the lines of x are in a file, outside of a block, they add v,  *)
(* and end outside of a block.                                             *)
Contributes(x, v) ==
  /\ Whole(x) /\ v \in Sums
  /\ \A file \in Seq(Line), i \in Nat :
       LinesAt(file, i, x) /\ ~Consuming(file)[i].in =>
         LET s == Consuming(file)
         IN  ~s[i + Len(x)].in /\ s[i].sums \in Sums /\ s[i + Len(x)].sums = Plus(s[i].sums, v)

LEMMA MappingContributes ==
  ASSUME NEW jsa \in BOOLEAN, NEW size \in Nat, NEW dirty \in Nat, NEW a \in Sums
  PROVE  Contributes(Mapping(jsa, size, dirty, a), IF jsa THEN a ELSE Zero)
<1> DEFINE x == Mapping(jsa, size, dirty, a)
           v == IF jsa THEN a ELSE Zero
<1>1. Whole(x) /\ Len(x) = 10
  BY MappingLines, MappingIsWhole
<1>2. Zero \in Sums /\ v \in Sums
  BY PlusZero
<1>3. ASSUME NEW file \in Seq(Line), NEW i \in Nat,
             LinesAt(file, i, x), ~Consuming(file)[i].in
      PROVE  LET s == Consuming(file)
             IN  ~s[i + 10].in /\ s[i].sums \in Sums /\ s[i + 10].sums = Plus(s[i].sums, v)
  <2> DEFINE s == Consuming(file)
  <2>1. /\ ~s[i + 10].in /\ s[i].sums \in Sums
        /\ s[i + 10].sums = IF jsa THEN Plus(s[i].sums, a) ELSE s[i].sums
    BY <1>3, MappingAdds
  <2> HIDE DEF s
  <2>2. s[i].sums = Plus(s[i].sums, Zero)
    BY <2>1, PlusZero
  <2>3. QED
    BY <2>1, <2>2 DEF s
<1> HIDE DEF x, v
<1>4. QED
  BY <1>1, <1>2, <1>3 DEF Contributes, x, v

LEMMA LinesAtConcat ==
  ASSUME NEW file \in Seq(Line), NEW i \in Nat, NEW x \in Seq(Line), NEW y \in Seq(Line),
         LinesAt(file, i, x \o y)
  PROVE  LinesAt(file, i, x) /\ LinesAt(file, i + Len(x), y)
<1> DEFINE k == Len(x)
           l == Len(y)
           c == x \o y
<1>1. /\ Len(c) = k + l /\ k \in Nat /\ l \in Nat
      /\ \A n \in 1..k : c[n] = x[n]
      /\ \A n \in 1..l : c[k + n] = y[n]
  OBVIOUS
<1>2. i + Len(c) <= Len(file) /\ \A n \in 1..Len(c) : file[i + n] = c[n]
  BY DEF LinesAt
<1>3. Len(file) \in Nat
  OBVIOUS
<1> HIDE DEF k, l, c
<1>4. i + k <= Len(file) /\ i + k + l <= Len(file)
  BY <1>1, <1>2, <1>3
<1>5. ASSUME NEW n \in 1..k PROVE file[i + n] = x[n]
  <2>1. n \in 1..(k + l)
    BY <1>1
  <2>2. QED
    BY <1>1, <1>2, <2>1
<1>6. ASSUME NEW n \in 1..l PROVE file[i + k + n] = y[n]
  <2>1. k + n \in 1..(k + l) /\ i + (k + n) = i + k + n
    BY <1>1
  <2>2. QED
    BY <1>1, <1>2, <2>1
<1>7. QED
  BY <1>4, <1>5, <1>6 DEF LinesAt, k, l

LEMMA ConcatContributes ==
  ASSUME NEW x, NEW v, Contributes(x, v), NEW y, NEW w, Contributes(y, w)
  PROVE  Contributes(x \o y, Plus(v, w))
<1>1. /\ Whole(x) /\ Whole(y) /\ x \in Seq(Line) /\ y \in Seq(Line)
      /\ v \in Sums /\ w \in Sums
  BY DEF Contributes, Whole
<1>2. Whole(x \o y) /\ Len(x \o y) = Len(x) + Len(y)
  BY <1>1, ConcatIsWhole
<1>3. Plus(v, w) \in Sums
  BY <1>1, PlusSums
<1>4. ASSUME NEW file \in Seq(Line), NEW i \in Nat,
             LinesAt(file, i, x \o y), ~Consuming(file)[i].in
      PROVE  LET s == Consuming(file)
             IN  /\ ~s[i + Len(x \o y)].in /\ s[i].sums \in Sums
                 /\ s[i + Len(x \o y)].sums = Plus(s[i].sums, Plus(v, w))
  <2> DEFINE s == Consuming(file)
             j == i + Len(x)
  <2>1. LinesAt(file, i, x) /\ LinesAt(file, j, y) /\ j \in Nat
    BY <1>1, <1>4, LinesAtConcat
  <2>2. ~s[j].in /\ s[i].sums \in Sums /\ s[j].sums = Plus(s[i].sums, v)
    BY <1>4, <2>1 DEF Contributes
  <2> HIDE DEF j
  <2>3. ~s[j + Len(y)].in /\ s[j + Len(y)].sums = Plus(s[j].sums, w)
    BY <2>1, <2>2 DEF Contributes
  <2>4. j + Len(y) = i + Len(x \o y)
    BY <1>1, <1>2 DEF j
  <2> HIDE DEF s
  <2>5. Plus(Plus(s[i].sums, v), w) = Plus(s[i].sums, Plus(v, w))
    <3>1. s[i].sums \in Sums /\ v \in Sums /\ w \in Sums
      BY <1>1, <2>2
    <3>2. QED
      BY <3>1, PlusAssociates
  <2>6. QED
    BY <2>2, <2>3, <2>4, <2>5 DEF s
<1>5. QED
  BY <1>2, <1>3, <1>4 DEF Contributes

LEMMA ContributesAsAFile ==
  ASSUME NEW x, NEW v, Contributes(x, v)
  PROVE  Consume(x) = v
<1>1. x \in Seq(Line) /\ v \in Sums /\ Len(x) \in Nat
  BY DEF Contributes, Whole
<1>2. ~Consuming(x)[0].in /\ Consuming(x)[0].sums = Zero
  BY <1>1, ConsumingSteps
<1>3. LinesAt(x, 0, x)
  BY <1>1 DEF LinesAt
<1>4. Consuming(x)[0 + Len(x)].sums = Plus(Consuming(x)[0].sums, v)
  BY <1>1, <1>2, <1>3 DEF Contributes
<1>5. 0 + Len(x) = Len(x) /\ Plus(Zero, v) = v
  <2>1. Plus(Zero, v) = v
    BY <1>1, PlusZero
  <2>2. QED
    BY <1>1, <2>1
<1>6. QED
  BY <1>2, <1>4, <1>5 DEF Consume

LEMMA CleanContributes ==
  ASSUME NEW jsa \in BOOLEAN, NEW kib \in Nat, NEW m \in Nat \ {0}
  PROVE  Contributes(CleanMapping(jsa, kib, m), IF jsa THEN Clean(kib, m) ELSE Zero)
<1> DEFINE a == Clean(kib, m)
<1>1. a \in Sums /\ CleanMapping(jsa, kib, m) = Mapping(jsa, kib, 0, a)
  BY CleanIsMapping
<1> HIDE DEF a
<1>2. Contributes(Mapping(jsa, kib, 0, a), IF jsa THEN a ELSE Zero)
  BY <1>1, MappingContributes
<1>3. QED
  BY <1>1, <1>2 DEF a

LEMMA DirtyContributes ==
  ASSUME NEW jsa \in BOOLEAN, NEW kib \in Nat
  PROVE  Contributes(DirtyMapping(jsa, kib), IF jsa THEN Dirty(kib) ELSE Zero)
<1> DEFINE a == Dirty(kib)
<1>1. a \in Sums /\ DirtyMapping(jsa, kib) = Mapping(jsa, kib, kib, a)
  BY DirtyIsMapping
<1> HIDE DEF a
<1>2. Contributes(Mapping(jsa, kib, kib, a), IF jsa THEN a ELSE Zero)
  BY <1>1, MappingContributes
<1>3. QED
  BY <1>1, <1>2 DEF a

(* What is counted of an archive that m have mapped, and of a JVM that is  *)
(* one of b with its JDK's archive and one of m with its ClassCache's.     *)
ArchiveSums(kib, m) == IF m = 0 THEN Zero ELSE Plus(Clean(kib, m), Dirty(Cow))
JvmSums(b, m) == Plus(ArchiveSums(Jdk, b), ArchiveSums(Archive, m))

LEMMA ArchiveContributes ==
  ASSUME NEW x, NEW v, Contributes(x, v), NEW kib \in Nat, NEW m \in Nat
  PROVE  /\ ArchiveSums(kib, m) \in Sums
         /\ Contributes(x \o ArchiveMappings(kib, m), Plus(v, ArchiveSums(kib, m)))
<1>1. x \in Seq(Line) /\ v \in Sums
  BY DEF Contributes, Whole
<1>2. CASE m = 0
  <2>1. x \o << >> = x /\ Plus(v, Zero) = v /\ Zero \in Sums
    BY <1>1, PlusZero
  <2>2. QED
    BY <1>2, <2>1 DEF ArchiveMappings, ArchiveSums
<1>3. CASE m # 0
  <2> DEFINE c == CleanMapping(TRUE, kib, m)
             d == DirtyMapping(TRUE, Cow)
  <2>1. Contributes(c, Clean(kib, m))
    <3>1. TRUE \in BOOLEAN /\ m \in Nat \ {0}
      BY <1>3
    <3>2. QED
      BY <3>1, CleanContributes
  <2>2. Contributes(d, Dirty(Cow))
    <3>1. TRUE \in BOOLEAN /\ Cow \in Nat
      OBVIOUS
    <3>2. QED
      BY <3>1, DirtyContributes
  <2> HIDE DEF c, d
  <2>3. Contributes(c \o d, Plus(Clean(kib, m), Dirty(Cow)))
    BY <2>1, <2>2, ConcatContributes
  <2>4. Contributes(c \o d, ArchiveSums(kib, m)) /\ ArchiveMappings(kib, m) = c \o d
    BY <1>3, <2>3 DEF ArchiveMappings, ArchiveSums, c, d
  <2>5. Contributes(x \o (c \o d), Plus(v, ArchiveSums(kib, m)))
    BY <2>4, ConcatContributes
  <2>6. QED
    BY <2>4, <2>5 DEF Contributes
<1>4. QED
  BY <1>2, <1>3

LEMMA FileContributes ==
  ASSUME NEW b \in Nat, NEW m \in Nat
  PROVE  JvmSums(b, m) \in Sums /\ Contributes(SmapsFile(b, m), JvmSums(b, m))
<1> DEFINE h == DirtyMapping(FALSE, Heap)
           t == CleanMapping(FALSE, Heap, 1)
           u == ArchiveSums(Jdk, b)
           v == ArchiveSums(Archive, m)
           x == h \o ArchiveMappings(Jdk, b)
           y == x \o ArchiveMappings(Archive, m)
<1>1. Contributes(h, Zero)
  <2>1. FALSE \in BOOLEAN /\ Heap \in Nat
    OBVIOUS
  <2>2. QED
    BY <2>1, DirtyContributes
<1>2. Contributes(t, Zero)
  <2>1. FALSE \in BOOLEAN /\ Heap \in Nat /\ 1 \in Nat \ {0}
    OBVIOUS
  <2> HIDE DEF t
  <2>2. Contributes(t, IF FALSE THEN Clean(Heap, 1) ELSE Zero)
    BY <2>1, CleanContributes DEF t
  <2>3. QED
    BY <2>2
<1>3. SmapsFile(b, m) = y \o t
  BY DEF SmapsFile
<1>4. Jdk \in Nat /\ Archive \in Nat
  OBVIOUS
<1> HIDE DEF h, t
<1>5. u \in Sums /\ Contributes(x, Plus(Zero, u))
  BY <1>1, <1>4, ArchiveContributes
<1> HIDE DEF u, x
<1>6. v \in Sums /\ Contributes(y, Plus(Plus(Zero, u), v))
  BY <1>4, <1>5, ArchiveContributes
<1> HIDE DEF v, y
<1>7. Contributes(y \o t, Plus(Plus(Plus(Zero, u), v), Zero))
  BY <1>2, <1>6, ConcatContributes
<1>8. Plus(Plus(Plus(Zero, u), v), Zero) = Plus(u, v) /\ Plus(u, v) \in Sums
  <2>1. Plus(Zero, u) = u /\ Plus(u, v) \in Sums
    BY <1>5, <1>6, PlusZero, PlusSums
  <2>2. QED
    BY <2>1, PlusZero
<1>9. QED
  BY <1>3, <1>7, <1>8 DEF JvmSums, u, v

LEMMA ConcatLines ==
  ASSUME NEW x \in Seq(Line), NEW y \in Seq(Line)
  PROVE  /\ Len(x \o y) = Len(x) + Len(y)
         /\ \A n \in 1..Len(x) : (x \o y)[n] = x[n]
         /\ \A n \in 1..Len(y) : (x \o y)[Len(x) + n] = y[n]
  OBVIOUS

LEMMA FileWithoutArchive ==
  LET file == SmapsFile(0, 0)
  IN  \A n \in 1..Len(file) : file[n].kind = "header" => ~file[n].jsa
<1> DEFINE a == DirtyMapping(FALSE, Heap)
           d == CleanMapping(FALSE, Heap, 1)
<1>1. a \in Seq(Line) /\ Len(a) = 10
  <2>1. FALSE \in BOOLEAN /\ Heap \in Nat /\ Dirty(Heap) \in Sums
    BY DEF Dirty, Sums
  <2>2. a = Mapping(FALSE, Heap, Heap, Dirty(Heap))
    BY <2>1, DirtyIsMapping
  <2> HIDE DEF a
  <2>3. QED
    BY <2>1, <2>2, MappingLines
<1>2. d \in Seq(Line) /\ Len(d) = 10
  <2>1. FALSE \in BOOLEAN /\ Heap \in Nat /\ 0 \in Nat /\ 1 \in Nat \ {0}
    OBVIOUS
  <2>2. Clean(Heap, 1) \in Sums /\ d = Mapping(FALSE, Heap, 0, Clean(Heap, 1))
    BY <2>1, CleanIsMapping
  <2> HIDE DEF d
  <2>3. QED
    BY <2>1, <2>2, MappingLines
<1>3. \A n \in 1..10 : a[n].kind = "header" => ~a[n].jsa
  <2>1. \A n \in 1..10 : n \in {1, 2, 3, 4, 5, 6, 7, 8, 9, 10}
    OBVIOUS
  <2>2. QED
    BY <2>1 DEF DirtyMapping, Header, Field, VmFlags
<1>4. \A n \in 1..10 : d[n].kind = "header" => ~d[n].jsa
  <2>1. \A n \in 1..10 : n \in {1, 2, 3, 4, 5, 6, 7, 8, 9, 10}
    OBVIOUS
  <2>2. QED
    BY <2>1 DEF CleanMapping, Header, Field, VmFlags
<1>5. SmapsFile(0, 0) = ((a \o << >>) \o << >>) \o d
  BY DEF SmapsFile, ArchiveMappings
<1> HIDE DEF a, d
<1>6. SmapsFile(0, 0) = a \o d
  BY <1>1, <1>5
<1>7. \A n \in 1..Len(a \o d) : (a \o d)[n].kind = "header" => ~(a \o d)[n].jsa
  <2> DEFINE c == a \o d
  <2>1. /\ Len(c) = 20 /\ \A n \in 1..10 : c[n] = a[n]
        /\ \A n \in 1..10 : c[10 + n] = d[n]
    <3>1. /\ Len(c) = Len(a) + Len(d)
          /\ \A n \in 1..Len(a) : c[n] = a[n]
          /\ \A n \in 1..Len(d) : c[Len(a) + n] = d[n]
      BY <1>1, <1>2, ConcatLines
    <3> HIDE DEF c
    <3>2. QED
      BY <1>1, <1>2, <3>1
  <2> HIDE DEF c
  <2>2. ASSUME NEW n \in 1..20 PROVE c[n].kind = "header" => ~c[n].jsa
    <3>1. CASE n <= 10
      BY <1>3, <2>1, <3>1
    <3>2. CASE n > 10
      <4>1. n - 10 \in 1..10 /\ n = 10 + (n - 10)
        BY <3>2
      <4>2. QED
        BY <1>4, <2>1, <4>1
    <3>3. QED
      BY <3>1, <3>2
  <2>3. QED
    BY <2>1, <2>2 DEF c
<1>8. QED
  BY <1>6, <1>7

(* Of a JVM that is one of b with the same archive of the JDK, and one of  *)
(* m with the same archive of a ClassCache, both tools count the mappings  *)
(* of both archives, for both have .jsa in their names: its own pages in   *)
(* full, a b-th or an m-th of those it shares, and nothing else.  The      *)
(* desktop counts it as a JVM exactly if it has one of the two, and so     *)
(* does stats, by its Rss (smaps.c:49-88, stats.c:68-104, app.go:298-341). *)
THEOREM WhatIsCounted ==
  ASSUME NEW b \in Nat, NEW m \in Nat
  PROVE  /\ Consume(SmapsFile(b, m)) = JvmSums(b, m)
         /\ AccumulateSmaps(SmapsFile(b, m)).sums = JvmSums(b, m)
         /\ AccumulateSmaps(SmapsFile(b, m)).any <=> b # 0 \/ m # 0
         /\ Consume(SmapsFile(b, m))["Rss"] # 0 <=> b # 0 \/ m # 0
<1> DEFINE file == SmapsFile(b, m)
<1>1. Contributes(file, JvmSums(b, m))
  BY FileContributes
<1>2. file \in Seq(Line) /\ Closed(file) /\ Consume(file) = JvmSums(b, m)
  BY <1>1, ContributesAsAFile DEF Contributes, Whole
<1>3. Consume(file) = AccumulateSmaps(file).sums
      /\ (Consume(file)["Rss"] # 0 => AccumulateSmaps(file).any)
  BY <1>2, ParsersAgreeOnFiles
<1>4. CASE b = 0 /\ m = 0
  <2>1. Consume(file) = Zero /\ ~AccumulateSmaps(file).any
    BY <1>2, <1>4, FileWithoutArchive, NothingToSee
  <2>2. QED
    BY <1>2, <1>3, <1>4, <2>1 DEF Zero, Counted
<1>5. CASE b # 0 \/ m # 0
  <2>1. JvmSums(b, m)["Rss"] = (IF b = 0 THEN 0 ELSE Jdk + Cow) + (IF m = 0 THEN 0 ELSE Archive + Cow)
    BY DEF JvmSums, ArchiveSums, Plus, Clean, Dirty, Zero, Counted
  <2>2. JvmSums(b, m)["Rss"] # 0
    BY <1>5, <2>1
  <2>3. QED
    BY <1>2, <1>3, <1>5, <2>2
<1>6. QED
  BY <1>4, <1>5
=============================================================================
