----------------------------- MODULE HistProofs -----------------------------
(***************************************************************************)
(* Proofs about the capacity history for every size of the flash and every *)
(* bound on time, cycles and failures.                                     *)
(***************************************************************************)
EXTENDS Hist, SequenceTheorems, WellFoundedInduction, TLAPS

-----------------------------------------------------------------------------
(* The scan.                                                               *)

LEMMA MaximumExists ==
    ASSUME NEW to \in Nat, NEW A, A \subseteq 0 .. to, A # {}
    PROVE  \E i \in A : \A j \in A : j <= i
  <1> DEFINE T == {n \in Nat : \E i \in A : n = to - i}
  <1>1. PICK a : a \in A
    OBVIOUS
  <1>2. a \in 0 .. to
    BY <1>1
  <1>3. to - a \in T
    BY <1>1, <1>2
  <1>4. PICK n \in T : \A m \in T : <<m, n>> \notin OpToRel(<, Nat)
    <2>1. T \subseteq Nat /\ T # {}
      BY <1>3
    <2> HIDE DEF T
    <2> QED
      BY <2>1, WFMin, NatLessThanWellFounded, Zenon
  <1>5. \A m \in T : ~(m < n)
    BY <1>4, Zenon DEF OpToRel
  <1>6. PICK i \in A : n = to - i
    BY <1>4
  <1>7. ASSUME NEW j \in A PROVE j <= i
    <2>1. to - j \in T
      BY <1>7
    <2>2. ~(to - j < n)
      BY <1>5, <2>1
    <2>3. i \in 0 .. to /\ j \in 0 .. to
      BY <1>6, <1>7
    <2> QED
      BY <2>2, <2>3, <1>6, SMT
  <1> QED
    BY <1>6, <1>7

\* What the scan returns is nothing, or the last position it accepts.
LEMMA ScanIsMaximum ==
    ASSUME NEW l, NEW from \in Nat, NEW to \in Nat, Accepted(l, from, to) # {}
    PROVE  /\ Scan(l, from, to) \in Accepted(l, from, to)
           /\ \A j \in Accepted(l, from, to) : j <= Scan(l, from, to)
  <1> DEFINE A == Accepted(l, from, to)
  <1>1. A \subseteq 0 .. to /\ A # {}
    BY DEF Accepted, Good
  <1>2. Scan(l, from, to) = CHOOSE i \in A : \A j \in A : j <= i
    BY <1>1 DEF Scan
  <1> HIDE DEF A
  <1>3. \E i \in A : \A j \in A : j <= i
    BY <1>1, MaximumExists
  <1>4. /\ Scan(l, from, to) \in A
        /\ \A j \in A : j <= Scan(l, from, to)
    BY <1>2, <1>3
  <1> QED
    BY <1>4 DEF A

LEMMA ScanRange ==
    ASSUME NEW l, NEW from \in Nat, NEW to \in Nat, Scan(l, from, to) # 0
    PROVE  Scan(l, from, to) \in Good(l, from, to)
  <1>1. Accepted(l, from, to) # {}
    BY DEF Scan
  <1> QED
    BY <1>1, ScanIsMaximum DEF Accepted

LEMMA ScanOfNothing ==
    ASSUME NEW l, NEW from, NEW to, Good(l, from, to) = {}
    PROVE  Scan(l, from, to) = 0
  BY DEF Scan, Accepted

\* Where no good entry steps back, the scan finds the last of them.
LEMMA ScanOfSorted ==
    ASSUME NEW l, NEW from \in Nat, NEW to \in Nat,
           NEW n \in Good(l, from, to),
           \A i \in Good(l, from, to) : i <= n,
           \A i, j \in Good(l, from, to) : i < j => ~Before(l[j], l[i])
    PROVE  Scan(l, from, to) = n
  <1>1. Good(l, from, n) \subseteq Good(l, from, to)
    BY DEF Good
  <1>2. n \in Accepted(l, from, to)
    BY <1>1 DEF Accepted, SortedUpTo
  <1>3. /\ Scan(l, from, to) \in Good(l, from, to)
        /\ n <= Scan(l, from, to)
    BY <1>2, ScanIsMaximum DEF Accepted
  <1>4. Scan(l, from, to) \in Nat /\ n \in Nat
    BY <1>3 DEF Good
  <1>5. Scan(l, from, to) <= n
    BY <1>3
  <1> QED
    BY <1>3, <1>4, <1>5

-----------------------------------------------------------------------------
(* The scan and the loop of hist_find_last.                                *)

\* Induction over an interval, as a fact about sets.
LEMMA IntervalInduction ==
    ASSUME NEW lo \in Nat, NEW hi \in Nat, lo <= hi,
           NEW A, lo \in A,
           \A n \in lo .. hi : n < hi /\ n \in A => n + 1 \in A
    PROVE  lo .. hi \subseteq A
  <1> DEFINE B == {n \in lo .. hi : lo .. n \subseteq A}
  <1>1. lo \in B
    <2>1. lo .. lo = {lo}
      OBVIOUS
    <2> QED
      BY <2>1
  <1>2. B \subseteq 0 .. hi /\ B # {}
    BY <1>1
  <1>3. ASSUME NEW m \in B, m < hi PROVE m + 1 \in B
    <2>1. m \in lo .. hi /\ lo .. m \subseteq A /\ m \in A
      OBVIOUS
    <2>2. m + 1 \in A /\ m + 1 \in lo .. hi
      BY <1>3, <2>1
    <2>3. lo .. (m + 1) = (lo .. m) \cup {m + 1}
      BY <2>1
    <2> QED
      BY <2>1, <2>2, <2>3
  <1> HIDE DEF B
  <1>4. PICK m \in B : \A j \in B : j <= m
    BY <1>2, MaximumExists
  <1>5. m \in Nat /\ m <= hi
    BY <1>2
  <1>6. ~(m < hi)
    <2>1. SUFFICES ASSUME m < hi PROVE FALSE
      OBVIOUS
    <2>2. m + 1 <= m
      BY <1>3, <1>4, <2>1
    <2> QED
      BY <1>5, <2>2
  <1>7. m = hi
    BY <1>5, <1>6
  <1> QED
    BY <1>4, <1>7 DEF B

\* The recursion of Turns has a solution: the loop is well defined.
LEMMA TurnsAre ==
    ASSUME NEW l, Len(l) \in Nat, NEW from \in 1 .. Len(l) + 1
    PROVE  \A i \in from - 1 .. Len(l) :
             Turns(l, from)[i] =
               IF i = from - 1 THEN NothingFound ELSE Turn(Turns(l, from)[i - 1], l, i)
  <1> DEFINE D == from - 1 .. Len(l)
             At(g, i) == IF i = from - 1 THEN NothingFound ELSE Turn(g[i - 1], l, i)
             A == {n \in D : \E g : /\ g = [i \in D |-> g[i]]
                                    /\ \A i \in from - 1 .. n : g[i] = At(g, i)}
  <1>1. from - 1 \in Nat /\ from - 1 <= Len(l)
    OBVIOUS
  <1>2. from - 1 \in A
    <2> DEFINE g == [i \in D |-> NothingFound]
    <2>1. g = [i \in D |-> g[i]]
      OBVIOUS
    <2>2. \A i \in from - 1 .. from - 1 : g[i] = At(g, i)
      BY <1>1
    <2> QED
      BY <1>1, <2>1, <2>2
  <1>3. ASSUME NEW n \in D, n < Len(l), n \in A
        PROVE  n + 1 \in A
    <2>1. PICK g : /\ g = [i \in D |-> g[i]]
                   /\ \A i \in from - 1 .. n : g[i] = At(g, i)
      BY <1>3
    <2> DEFINE h == [i \in D |-> IF i = n + 1 THEN Turn(g[n], l, n + 1) ELSE g[i]]
    <2>2. n + 1 \in D /\ n \in D /\ n + 1 # from - 1 /\ (n + 1) - 1 = n /\ n # n + 1
      BY <1>1, <1>3
    <2>3. h = [i \in D |-> h[i]]
      OBVIOUS
    <2>4. ASSUME NEW i \in from - 1 .. n + 1 PROVE h[i] = At(h, i)
      <3>1. CASE i = n + 1
        BY <2>2, <3>1
      <3>2. CASE i # n + 1
        <4>1. i \in from - 1 .. n /\ i \in D
          BY <1>1, <1>3, <3>2
        <4>2. i # from - 1 => i - 1 \in D /\ i - 1 # n + 1
          BY <1>1, <4>1
        <4>3. h[i] = g[i] /\ (i # from - 1 => h[i - 1] = g[i - 1])
          BY <3>2, <4>1, <4>2
        <4>4. g[i] = At(g, i)
          BY <2>1, <4>1
        <4> QED
          BY <4>3, <4>4
      <3> QED
        BY <3>1, <3>2
    <2> HIDE DEF h
    <2> QED
      BY <2>2, <2>3, <2>4
  <1>4. Len(l) \in A
    <2>1. \A n \in from - 1 .. Len(l) : n < Len(l) /\ n \in A => n + 1 \in A
      BY <1>3
    <2> HIDE DEF A
    <2>2. from - 1 .. Len(l) \subseteq A
      BY <1>1, <1>2, <2>1, IntervalInduction
    <2> QED
      BY <1>1, <2>2
  <1>5. PICK g : /\ g = [i \in D |-> g[i]]
                 /\ \A i \in D : g[i] = At(g, i)
    BY <1>4
  <1>6. g = [i \in D |-> At(g, i)]
    BY <1>5
  <1>7. Turns(l, from) = [i \in D |-> At(Turns(l, from), i)]
    <2>1. Turns(l, from) = CHOOSE found : found = [i \in D |-> At(found, i)]
      BY DEF Turns
    <2> HIDE DEF D, At
    <2> QED
      BY <1>6, <2>1
  <1> QED
    BY <1>7

\* What the loop knows after position i: nothing while there was no good entry;
\* else the last entry it took, up to which the good entries are in order, and
\* once it is done the good entry that steps back right behind that one.
LoopKnows(l, from, i) ==
    LET f == Turns(l, from)[i]
        G == Good(l, from, i)
    IN  /\ f \in [rst : Nat, minute : Nat, at : Nat, done : BOOLEAN]
        /\ f.at = 0 => f = NothingFound /\ G = {}
        /\ f.at # 0 => /\ f.at \in G
                       /\ f.rst = l[f.at].rst /\ f.minute = l[f.at].minute
                       /\ SortedUpTo(l, from, f.at)
        /\ ~f.done => \A j \in G : j <= f.at
        /\ f.done => \E k \in G : /\ k > f.at /\ Before(l[k], l[f.at])
                                  /\ \A j \in G : j <= f.at \/ j >= k

\* Of a good entry the loop takes, the order is kept up to it.
LEMMA NewerKeepsSorted ==
    ASSUME NEW l \in Seq(Entry), NEW from \in 1 .. Len(l) + 1,
           NEW at \in Good(l, from, Len(l)), SortedUpTo(l, from, at),
           NEW n \in Good(l, from, Len(l)), at < n,
           \A j \in Good(l, from, n) : j <= at \/ j = n,
           ~Before(l[n], l[at])
    PROVE  SortedUpTo(l, from, n)
  <1>1. \A i \in Good(l, from, Len(l)) :
            i \in Nat /\ from <= i /\ l[i].rst \in Nat /\ l[i].minute \in Nat
    <2> SUFFICES ASSUME NEW i \in Good(l, from, Len(l))
                 PROVE  i \in Nat /\ from <= i /\ l[i].rst \in Nat /\ l[i].minute \in Nat
      OBVIOUS
    <2>1. Len(l) \in Nat
      BY LenProperties
    <2>2. i \in 1 .. Len(l) /\ from <= i
      BY <2>1 DEF Good
    <2>3. l[i] \in Entry
      BY <2>2, ElementOfSeq
    <2> QED
      BY <2>1, <2>2, <2>3 DEF Entry
  <1>2. Good(l, from, n) \subseteq Good(l, from, Len(l)) /\ Len(l) \in Nat
    <2>1. Len(l) \in Nat
      BY LenProperties
    <2> QED
      BY <2>1, SMT DEF Good
  <1>3. SUFFICES ASSUME NEW j \in Good(l, from, n), NEW k \in Good(l, from, n), j < k
                 PROVE  ~Before(l[k], l[j])
    BY DEF SortedUpTo
  <1>4. j \in Nat /\ k \in Nat /\ at \in Nat /\ n \in Nat /\ j <= n /\ k <= n
    BY <1>1, <1>2, SMT DEF Good
  <1>5. \A m \in Good(l, from, n) : m <= at => m \in Good(l, from, at)
    BY <1>1, <1>2, SMT DEF Good
  <1>6. j <= at
    BY <1>3, <1>4
  <1>7. CASE k <= at
    BY <1>3, <1>5, <1>6, <1>7 DEF SortedUpTo
  <1>8. CASE k = n
    <2>1. j = at \/ (j < at /\ j \in Good(l, from, at) /\ at \in Good(l, from, at))
      BY <1>4, <1>5, <1>6, SMT DEF Good
    <2>2. ~Before(l[at], l[j])
      <3>1. CASE j = at
        BY <1>1, <3>1, SMT DEF Before
      <3>2. CASE j # at
        BY <2>1, <3>2 DEF SortedUpTo
      <3> QED
        BY <3>1, <3>2
    <2>3. /\ l[j].rst \in Nat /\ l[at].rst \in Nat /\ l[n].rst \in Nat
          /\ l[j].minute \in Nat /\ l[at].minute \in Nat /\ l[n].minute \in Nat
      BY <1>1, <1>2
    <2> QED
      BY <1>8, <2>2, <2>3, SMT DEF Before
  <1> QED
    BY <1>7, <1>8

LEMMA LoopKnowsAtFirst ==
    ASSUME NEW l \in Seq(Entry), NEW from \in 1 .. Len(l) + 1
    PROVE  LoopKnows(l, from, from - 1)
  <1>1. Len(l) \in Nat
    BY LenProperties
  <1>2. from - 1 \in from - 1 .. Len(l)
    BY <1>1
  <1>3. Turns(l, from)[from - 1] = NothingFound
    BY <1>1, <1>2, TurnsAre
  <1>4. Good(l, from, from - 1) = {}
    BY <1>1 DEF Good
  <1> QED
    BY <1>3, <1>4 DEF LoopKnows, NothingFound

LEMMA LoopKnowsNext ==
    ASSUME NEW l \in Seq(Entry), NEW from \in 1 .. Len(l) + 1,
           NEW i \in from - 1 .. Len(l), i < Len(l), LoopKnows(l, from, i)
    PROVE  LoopKnows(l, from, i + 1)
  <1> DEFINE f == Turns(l, from)[i]
             G == Good(l, from, i)
             n == i + 1
             g == Turns(l, from)[n]
             H == Good(l, from, n)
  <1>1. Len(l) \in Nat /\ i \in Nat /\ n \in from .. Len(l) /\ n \in 1 .. Len(l)
    BY LenProperties
  <1>2. g = Turn(f, l, n)
    <2>1. n \in from - 1 .. Len(l) /\ n # from - 1 /\ n - 1 = i
      BY <1>1
    <2> QED
      BY <1>1, <2>1, TurnsAre
  <1>3. H = IF l[n].state = "good" THEN G \cup {n} ELSE G
    <2>1. from .. n = (from .. i) \cup {n}
      BY <1>1
    <2> QED
      BY <2>1 DEF Good
  <1>4. l[n].rst \in Nat /\ l[n].minute \in Nat
    <2>1. l[n] \in Entry
      BY <1>1, ElementOfSeq
    <2> QED
      BY <2>1 DEF Entry
  <1>5. \A j \in G : j \in Nat /\ j < n /\ j \in Good(l, from, Len(l))
    BY <1>1, SMT DEF Good
  <1>6. /\ f \in [rst : Nat, minute : Nat, at : Nat, done : BOOLEAN]
        /\ f.at = 0 => f = NothingFound /\ G = {}
        /\ f.at # 0 => /\ f.at \in G
                       /\ f.rst = l[f.at].rst /\ f.minute = l[f.at].minute
                       /\ SortedUpTo(l, from, f.at)
        /\ ~f.done => \A j \in G : j <= f.at
        /\ f.done => \E k \in G : /\ k > f.at /\ Before(l[k], l[f.at])
                                  /\ \A j \in G : j <= f.at \/ j >= k
    BY DEF LoopKnows
  <1>7. SUFFICES /\ g \in [rst : Nat, minute : Nat, at : Nat, done : BOOLEAN]
                 /\ g.at = 0 => g = NothingFound /\ H = {}
                 /\ g.at # 0 => /\ g.at \in H
                                /\ g.rst = l[g.at].rst /\ g.minute = l[g.at].minute
                                /\ SortedUpTo(l, from, g.at)
                 /\ ~g.done => \A j \in H : j <= g.at
                 /\ g.done => \E k \in H : /\ k > g.at /\ Before(l[k], l[g.at])
                                           /\ \A j \in H : j <= g.at \/ j >= k
    BY DEF LoopKnows
  <1>8. f.at = 0 \/ f.at \in Nat
    BY <1>5, <1>6
  <1> HIDE DEF f, g, G, H
  <1>9. CASE l[n].state # "good"
    <2>1. g = f /\ H = G
      BY <1>2, <1>3, <1>9 DEF Turn
    <2> QED
      BY <1>6, <2>1
  <1>10. CASE l[n].state = "good" /\ f.done
    <2>1. g = f /\ H = G \cup {n}
      BY <1>2, <1>3, <1>10 DEF Turn
    <2>2. f.at # 0
      BY <1>6, <1>10 DEF NothingFound
    <2>3. PICK k \in G : /\ k > f.at /\ Before(l[k], l[f.at])
                         /\ \A j \in G : j <= f.at \/ j >= k
      BY <1>6, <1>10
    <2>4. n >= k
      BY <1>1, <1>5, <2>3
    <2>5. \E m \in H : /\ m > f.at /\ Before(l[m], l[f.at])
                       /\ \A j \in H : j <= f.at \/ j >= m
      BY <2>1, <2>3, <2>4
    <2> QED
      BY <1>6, <1>10, <2>1, <2>2, <2>5
  <1>11. CASE l[n].state = "good" /\ ~f.done /\ IsNewer(l[n], f)
    <2>1. g = [rst |-> l[n].rst, minute |-> l[n].minute, at |-> n, done |-> FALSE]
      BY <1>2, <1>11 DEF Turn
    <2>2. H = G \cup {n} /\ n # 0
      BY <1>1, <1>3, <1>11
    <2>3. \A j \in H : j <= n
      BY <1>1, <1>5, <2>2
    <2>4. SortedUpTo(l, from, n)
      <3>1. CASE f.at = 0
        <4>1. H = {n}
          BY <1>6, <2>2, <3>1
        <4> QED
          BY <4>1, <1>1 DEF SortedUpTo, H
      <3>2. CASE f.at # 0
        <4>1. f.at \in Good(l, from, Len(l)) /\ f.at < n /\ f.at \in 1 .. Len(l)
          BY <1>1, <1>5, <1>6, <3>2, SMT DEF Good
        <4>2. n \in Good(l, from, Len(l))
          BY <1>1, <1>11 DEF Good
        <4>3. \A j \in Good(l, from, n) : j <= f.at \/ j = n
          BY <1>6, <1>11, <2>2 DEF H
        <4>4. l[f.at].rst \in Nat /\ l[f.at].minute \in Nat
          <5>1. l[f.at] \in Entry
            BY <4>1, ElementOfSeq
          <5> QED
            BY <5>1 DEF Entry
        <4>5. ~Before(l[n], l[f.at])
          BY <1>4, <1>6, <1>11, <3>2, <4>4, SMT DEF IsNewer, Before
        <4> QED
          BY <1>6, <3>2, <4>1, <4>2, <4>3, <4>5, NewerKeepsSorted
      <3> QED
        BY <3>1, <3>2
    <2>5. /\ g \in [rst : Nat, minute : Nat, at : Nat, done : BOOLEAN]
          /\ g.rst = l[n].rst /\ g.minute = l[n].minute /\ g.at = n /\ ~g.done
      BY <1>1, <1>4, <2>1
    <2> QED
      BY <2>2, <2>3, <2>4, <2>5
  <1>12. CASE l[n].state = "good" /\ ~f.done /\ ~IsNewer(l[n], f)
    <2>1. g = [f EXCEPT !.done = TRUE]
      BY <1>2, <1>12 DEF Turn
    <2>2. f.at # 0
      <3>1. SUFFICES ASSUME f.at = 0 PROVE FALSE
        OBVIOUS
      <3>2. f.rst = 0 /\ f.minute = 0
        BY <1>6, <3>1 DEF NothingFound
      <3> QED
        BY <1>4, <1>12, <3>2, SMT DEF IsNewer
    <2>3. /\ g \in [rst : Nat, minute : Nat, at : Nat, done : BOOLEAN]
          /\ g.at = f.at /\ g.rst = f.rst /\ g.minute = f.minute /\ g.done
      BY <1>6, <2>1
    <2>4. H = G \cup {n}
      BY <1>3, <1>12
    <2>5. f.at \in Nat /\ f.at < n /\ n \in H
      BY <1>5, <1>6, <2>2, <2>4
    <2>6. Before(l[n], l[f.at])
      <3>1. f.rst \in Nat /\ f.minute \in Nat
        BY <1>6
      <3> QED
        BY <1>4, <1>6, <1>12, <2>2, <3>1, SMT DEF IsNewer, Before
    <2>7. \A j \in H : j <= f.at \/ j >= n
      BY <1>1, <1>6, <1>12, <2>4
    <2> QED
      BY <1>6, <2>2, <2>3, <2>4, <2>5, <2>6, <2>7
  <1> QED
    BY <1>9, <1>10, <1>11, <1>12

\* On every log, the loop of hist_find_last stops where Scan says.
LEMMA LoopFindsScan ==
    ASSUME NEW l \in Seq(Entry), NEW from \in 1 .. Len(l) + 1
    PROVE  FindLast(l, from) = Scan(l, from, Len(l))
  <1> DEFINE A == {i \in from - 1 .. Len(l) : LoopKnows(l, from, i)}
             f == Turns(l, from)[Len(l)]
             G == Good(l, from, Len(l))
  <1>1. Len(l) \in Nat /\ from - 1 \in Nat /\ from - 1 <= Len(l) /\ from \in Nat
    BY LenProperties
  <1>2. Len(l) \in A
    <2>1. from - 1 \in A
      BY <1>1, LoopKnowsAtFirst
    <2>2. \A n \in from - 1 .. Len(l) : n < Len(l) /\ n \in A => n + 1 \in A
      BY <1>1, LoopKnowsNext
    <2> HIDE DEF A
    <2>3. from - 1 .. Len(l) \subseteq A
      BY <1>1, <2>1, <2>2, IntervalInduction
    <2> QED
      BY <1>1, <2>3
  <1>3. /\ f \in [rst : Nat, minute : Nat, at : Nat, done : BOOLEAN]
        /\ f.at = 0 => G = {}
        /\ f.at # 0 => f.at \in G /\ SortedUpTo(l, from, f.at)
        /\ ~f.done => \A j \in G : j <= f.at
        /\ f.done => \E k \in G : /\ k > f.at /\ Before(l[k], l[f.at])
                                  /\ \A j \in G : j <= f.at \/ j >= k
    BY <1>2 DEF LoopKnows
  <1>4. \A j \in G : j \in Nat /\ from <= j /\ j <= Len(l)
    BY <1>1 DEF Good
  <1>5. f.at \in Nat
    BY <1>3
  <1> HIDE DEF A, f, G
  <1>6. CASE f.at = 0
    BY <1>3, <1>6, ScanOfNothing DEF FindLast, f, G
  <1>7. CASE f.at # 0
    <2>1. f.at \in Accepted(l, from, Len(l))
      BY <1>3, <1>7 DEF Accepted, G
    <2>2. ASSUME NEW j \in Accepted(l, from, Len(l)) PROVE j <= f.at
      <3>1. j \in G /\ SortedUpTo(l, from, j)
        BY DEF Accepted, G
      <3>2. CASE ~f.done
        BY <1>3, <3>1, <3>2
      <3>3. CASE f.done
        <4>1. PICK k \in G : /\ k > f.at /\ Before(l[k], l[f.at])
                             /\ \A i \in G : i <= f.at \/ i >= k
          BY <1>3, <3>3
        <4>2. SUFFICES ASSUME j >= k PROVE FALSE
          BY <3>1, <4>1
        <4>3. f.at \in Good(l, from, j) /\ k \in Good(l, from, j)
          <5>1. /\ f.at \in Nat /\ k \in Nat /\ j \in Nat
                /\ from <= f.at /\ from <= k /\ k <= j /\ f.at <= j
            BY <1>3, <1>4, <1>7, <3>1, <4>1, <4>2
          <5>2. l[f.at].state = "good" /\ l[k].state = "good"
            BY <1>3, <1>7, <4>1 DEF G, Good
          <5> QED
            BY <1>1, <5>1, <5>2 DEF Good
        <4>4. f.at < k
          BY <1>4, <1>5, <4>1
        <4> QED
          BY <3>1, <4>1, <4>3, <4>4 DEF SortedUpTo
      <3> QED
        BY <1>3, <3>2, <3>3
    <2>3. /\ Scan(l, from, Len(l)) \in Accepted(l, from, Len(l))
          /\ f.at <= Scan(l, from, Len(l))
      BY <1>1, <2>1, ScanIsMaximum
    <2>4. Scan(l, from, Len(l)) <= f.at /\ Scan(l, from, Len(l)) \in Nat
      BY <1>4, <2>2, <2>3 DEF Accepted, G
    <2> QED
      BY <1>5, <2>3, <2>4 DEF FindLast, f
  <1> QED
    BY <1>6, <1>7

-----------------------------------------------------------------------------
(* Positions and sectors.                                                  *)

\* The types alone; that the active sector lies where TypeOK puts it is part
\* of LayoutInv.
Types ==
    /\ pc \in {"off", "idle", "append", "write", "finish"}
    /\ log \in Seq(Entry)
    /\ oldest \in Nat /\ active \in Nat
    /\ rst \in Nat /\ uptime \in Nat
    /\ wrote \in BOOLEAN
    /\ restored \in [rst : Nat, minute : Nat] \cup {None}
    /\ newest \in 0 .. Len(log)

\* The writes between the step that starts an entry and the one that ends it.
Storing == pc \in {"write", "finish"}

\* Where the entries lie: the sectors in use hold all but the rotated ones,
\* no entry after the newest is usable, and few enough failed after it that
\* it cannot be in the sector rotated next.
LayoutInv ==
    /\ oldest <= active /\ active < oldest + Usable
    /\ active * SectorCap <= Len(log) /\ Len(log) <= (active + 1) * SectorCap
    /\ \A i \in newest + 1 .. Len(log) : log[i].state # "good"
    /\ newest # 0 => newest >= First /\ log[newest].state = "good"
    /\ Storing => Len(log) > newest /\ Len(log) > active * SectorCap
    /\ Len(log) <= newest + MaxFailures + (IF Storing THEN 1 ELSE 0)
    /\ pc = "finish" /\ ~wrote => Len(log) <= newest + MaxFailures

Sound == Types /\ LayoutInv

LEMMA Product ==
    ASSUME NEW s \in Nat
    PROVE  /\ s * SectorCap \in Nat
           /\ (s + 1) * SectorCap = s * SectorCap + SectorCap
           /\ SectorCap \in Nat /\ SectorCap > 0
  BY SMT, SectorsAssumption

LEMMA FirstIsNat == ASSUME Types PROVE First \in Nat /\ First >= 1
  <1>1. oldest * SectorCap \in Nat
    BY Product DEF Types
  <1> QED
    BY <1>1, SMT DEF First

LEMMA LenIsNat == ASSUME Types PROVE Len(log) \in Nat /\ newest \in Nat
  BY LenProperties DEF Types

LEMMA LogElement ==
    ASSUME Types, NEW i \in 1 .. Len(log)
    PROVE  log[i] \in Entry /\ log[i].rst \in Nat /\ log[i].minute \in Nat
  <1>1. log[i] \in Entry
    BY ElementOfSeq DEF Types
  <1> QED
    BY <1>1 DEF Entry

\* A position the scan stops at holds a good entry of the log.
LEMMA ScanElement ==
    ASSUME Types, NEW to \in 0 .. Len(log), Scan(log, First, to) # 0
    PROVE  /\ Scan(log, First, to) \in First .. to
           /\ Scan(log, First, to) \in 1 .. Len(log)
           /\ log[Scan(log, First, to)].state = "good"
  <1>1. to \in Nat /\ Len(log) \in Nat /\ First \in Nat
    BY LenIsNat, FirstIsNat
  <1>2. Scan(log, First, to) \in Good(log, First, to)
    BY <1>1, ScanRange
  <1>3. First >= 1
    BY FirstIsNat
  <1> QED
    BY <1>1, <1>2, <1>3, SMT DEF Good

LEMMA LoadedType ==
    ASSUME Types, NEW last \in 0 .. Len(log), Loaded(last)
    PROVE  /\ pc' = "idle" /\ rst' \in Nat /\ uptime' \in Nat
           /\ wrote' \in BOOLEAN
           /\ restored' \in [rst : Nat, minute : Nat] \cup {None}
  <1>1. RST_CYCLES \in Nat \ {0}
    BY SMT DEF RST_CYCLES
  <1>2. last # 0 => log[last].rst \in Nat /\ log[last].minute \in Nat
    BY LogElement, LenIsNat
  <1>3. rst' \in Nat
    <2>1. CASE last = 0
      BY <2>1 DEF Loaded
    <2>2. CASE last # 0
      BY <2>2, <1>1, <1>2, SMT DEF Loaded
    <2> QED
      BY <2>1, <2>2
  <1>4. restored' \in [rst : Nat, minute : Nat] \cup {None}
    BY <1>2 DEF Loaded, Key
  <1> QED
    BY <1>3, <1>4 DEF Loaded, Types

LEMMA ErasedSound ==
    ASSUME Erased, pc' = "idle", rst' \in Nat, uptime' \in Nat, wrote' \in BOOLEAN,
           restored' \in [rst : Nat, minute : Nat] \cup {None}
    PROVE  Sound'
  <1>1. log' \in Seq(Entry) /\ Len(log') = 0
    BY EmptySeq DEF Erased
  <1>2. oldest' = 0 /\ active' = 0 /\ newest' = 0
    BY DEF Erased
  <1>3. Types'
    BY <1>1, <1>2 DEF Types
  <1>4. 0 * SectorCap = 0 /\ (0 + 1) * SectorCap = SectorCap
    BY SectorsAssumption, SMT
  <1>5. LayoutInv'
    BY <1>1, <1>2, <1>4, SectorsAssumption, FailuresAssumption, SMT
       DEF LayoutInv, Storing, First
  <1> QED
    BY <1>3, <1>5 DEF Sound

LEMMA InitSound == Init => Sound
  <1> SUFFICES ASSUME Init PROVE Sound
    OBVIOUS
  <1>1. log \in Seq(Entry) /\ Len(log) = 0
    BY EmptySeq DEF Init
  <1>2. Types
    <2>1. newest \in 0 .. Len(log)
      BY <1>1, SMT DEF Init
    <2> QED
      BY <1>1, <2>1 DEF Init, Types
  <1>3. 0 * SectorCap = 0 /\ (0 + 1) * SectorCap = SectorCap
    BY SectorsAssumption, SMT
  <1>4. LayoutInv
    BY <1>1, <1>3, SectorsAssumption, FailuresAssumption, SMT
       DEF LayoutInv, Storing, First, Init
  <1> QED
    BY <1>2, <1>4 DEF Sound

-----------------------------------------------------------------------------
(* Every step keeps types and layout.                                      *)

\* A start-up that leaves the flash as it is.
LEMMA LoadedSound ==
    ASSUME Sound, pc = "off", NEW last \in 0 .. Len(log), Loaded(last),
           UNCHANGED flashVars
    PROVE  Sound'
  <1>1. Types'
    BY LoadedType DEF Sound, Types, flashVars
  <1>2. LayoutInv'
    <2>1. pc' = "idle" /\ ~Storing'
      BY DEF Loaded, Storing
    <2>2. ~Storing
      BY DEF Storing
    <2>3. Len(log) <= newest + MaxFailures + 0
      BY <2>2 DEF Sound, LayoutInv
    <2> QED
      BY <2>1, <2>2, <2>3 DEF Sound, LayoutInv, First, flashVars
  <1> QED
    BY <1>1, <1>2 DEF Sound

LEMMA BootSound == ASSUME Sound, Boot PROVE Sound'
  <1> DEFINE last == Scan(log, First, Len(log))
  <1>1. last \in 0 .. Len(log)
    BY ScanElement, LenIsNat, SMT DEF Sound
  <1>2. Loaded(last) /\ pc = "off"
    BY DEF Boot
  <1>3. CASE last = 0
    <2>1. Erased
      BY <1>3 DEF Boot
    <2> QED
      BY <1>1, <1>2, <2>1, LoadedType, ErasedSound DEF Sound
  <1>4. CASE last # 0
    <2>1. UNCHANGED flashVars
      BY <1>4 DEF Boot
    <2> QED
      BY <1>1, <1>2, <2>1, LoadedSound
  <1> QED
    BY <1>3, <1>4

LEMMA BootReadFaultSound == ASSUME Sound, BootReadFault PROVE Sound'
  <1>1. PICK stop \in First - 1 .. Len(log) - 1 :
          Scan(log, First, stop) # 0 /\ Loaded(Scan(log, First, stop))
    BY DEF BootReadFault
  <1>2. stop \in 0 .. Len(log)
    BY LenIsNat, FirstIsNat, SMT DEF Sound
  <1>3. Scan(log, First, stop) \in 0 .. Len(log)
    BY <1>1, <1>2, ScanElement DEF Sound
  <1> QED
    BY <1>1, <1>3, LoadedSound DEF BootReadFault

LEMMA BootInitFaultSound == ASSUME Sound, BootInitFault PROVE Sound'
  <1>1. 0 \in 0 .. Len(log)
    BY LenIsNat, SMT DEF Sound
  <1> QED
    BY <1>1, LoadedType, ErasedSound DEF Sound, BootInitFault

\* Steps that change neither the log nor the sectors.
LEMMA StoreBeginSound == ASSUME Sound, StoreBegin PROVE Sound'
  <1>1. uptime' \in Nat
    BY IntervalAssumption, SMT DEF Sound, Types, StoreBegin
  <1>2. Types'
    BY <1>1 DEF Sound, Types, StoreBegin, flashVars
  <1>3. ~Storing /\ ~Storing' /\ pc' # "finish"
    BY DEF StoreBegin, Storing
  <1>4. LayoutInv'
    BY <1>3 DEF Sound, LayoutInv, StoreBegin, First, flashVars
  <1> QED
    BY <1>2, <1>4 DEF Sound

LEMMA StoreFailsSound == ASSUME Sound, StoreFails PROVE Sound'
  <1>1. Types'
    BY DEF Sound, Types, StoreFails, flashVars
  <1>2. ~Storing /\ ~Storing' /\ pc' # "finish"
    BY DEF StoreFails, Storing
  <1>3. LayoutInv'
    BY <1>2 DEF Sound, LayoutInv, StoreFails, First, flashVars
  <1> QED
    BY <1>1, <1>3 DEF Sound

LEMMA WritePayloadSound == ASSUME Sound, WritePayload PROVE Sound'
  <1>1. Types'
    BY DEF Sound, Types, WritePayload, flashVars
  <1>2. Storing /\ Storing'
    BY DEF WritePayload, Storing
  <1>3. ~wrote' => Len(log) <= newest + MaxFailures
    <2>1. ~wrote' => Len(log) - newest <= MaxFailures
      BY DEF WritePayload, FaultAllowed
    <2> QED
      BY <2>1, LenIsNat, FailuresAssumption, SMT DEF Sound
  <1>4. LayoutInv'
    BY <1>2, <1>3 DEF Sound, LayoutInv, WritePayload, First, flashVars
  <1> QED
    BY <1>1, <1>4 DEF Sound

LEMMA CrashSound == ASSUME Sound, Crash PROVE Sound'
  <1>1. Types'
    BY DEF Sound, Types, Crash, flashVars
  <1>2. ~Storing' /\ pc' # "finish"
    BY DEF Crash, Storing
  <1>3. Len(log) <= newest + MaxFailures
    <2>1. CASE Storing
      BY <2>1, LenIsNat, FailuresAssumption, SMT DEF Sound, Crash, Storing, FaultAllowed
    <2>2. CASE ~Storing
      BY <2>2, LenIsNat, FailuresAssumption, SMT DEF Sound, LayoutInv
    <2> QED
      BY <2>1, <2>2
  <1>4. Len(log) <= newest + MaxFailures + 0
    BY <1>3, LenIsNat, FailuresAssumption, SMT DEF Sound
  <1>5. LayoutInv'
    BY <1>2, <1>4 DEF Sound, LayoutInv, Crash, First, flashVars
  <1> QED
    BY <1>1, <1>5 DEF Sound

NewEntry == [rst |-> rst, minute |-> uptime % MINUTES, state |-> "open"]

LEMMA NewEntryType == ASSUME Types PROVE NewEntry \in Entry
  <1>1. MINUTES \in Nat \ {0}
    BY SMT DEF MINUTES
  <1>2. uptime % MINUTES \in Nat
    BY <1>1, SMT DEF Types
  <1> QED
    BY <1>2 DEF Types, NewEntry, Entry

\* What fcb_append leaves of the log.
LEMMA AppendedLog ==
    ASSUME Types, AppendEntry
    PROVE  /\ log' \in Seq(Entry)
           /\ Len(log') = Len(log) + 1
           /\ \A i \in 1 .. Len(log) : log'[i] = log[i]
           /\ log'[Len(log) + 1] = NewEntry
  <1>1. log' = Append(log, NewEntry)
    BY DEF AppendEntry, NewEntry
  <1>2. log \in Seq(Entry)
    BY DEF Types
  <1> QED
    BY <1>1, <1>2, NewEntryType, AppendProperties

LEMMA AppendEntrySound == ASSUME Sound, AppendEntry PROVE Sound'
  <1>1. Len(log) \in Nat /\ newest \in Nat /\ newest \in 0 .. Len(log)
    BY LenIsNat DEF Sound, Types
  <1>2. /\ log' \in Seq(Entry)
        /\ Len(log') = Len(log) + 1
        /\ \A i \in 1 .. Len(log) : log'[i] = log[i]
        /\ log'[Len(log) + 1].state = "open"
    BY AppendedLog DEF Sound, NewEntry
  <1>3. newest' \in 0 .. Len(log')
    BY <1>1, <1>2, SMT DEF AppendEntry
  <1>4. Types'
    BY <1>2, <1>3 DEF Sound, Types, AppendEntry
  <1>5. ~Storing /\ Storing' /\ pc' # "finish"
    BY DEF AppendEntry, Storing
  <1>6. Len(log) < (active + 1) * SectorCap
    BY DEF AppendEntry, Room
  <1>7. /\ active * SectorCap <= Len(log) /\ Len(log) <= newest + MaxFailures
        /\ active * SectorCap \in Nat /\ (active + 1) * SectorCap \in Nat
    <2>1. /\ active * SectorCap \in Nat /\ SectorCap \in Nat
          /\ (active + 1) * SectorCap = active * SectorCap + SectorCap
      BY Product DEF Sound, Types
    <2>2. (active + 1) * SectorCap \in Nat
      BY <2>1, SMT
    <2>3. active * SectorCap <= Len(log) /\ Len(log) <= newest + MaxFailures + 0
      BY <1>5 DEF Sound, LayoutInv
    <2> QED
      BY <1>1, <2>1, <2>2, <2>3, FailuresAssumption, SMT
  <1>8. /\ active * SectorCap <= Len(log') /\ Len(log') <= (active + 1) * SectorCap
        /\ Len(log') > newest /\ Len(log') > active * SectorCap
        /\ Len(log') <= newest + MaxFailures + 1
    BY <1>1, <1>2, <1>6, <1>7, FailuresAssumption, SMT
  <1>9. ASSUME NEW i \in newest + 1 .. Len(log') PROVE log'[i].state # "good"
    <2>1. CASE i = Len(log) + 1
      BY <2>1, <1>2
    <2>2. CASE i # Len(log) + 1
      <3>1. i \in newest + 1 .. Len(log) /\ i \in 1 .. Len(log)
        BY <1>1, <1>2, <2>2, SMT
      <3> QED
        BY <3>1, <1>2 DEF Sound, LayoutInv
    <2> QED
      BY <2>1, <2>2
  <1>10. newest # 0 => newest >= First /\ log'[newest].state = "good"
    <2>1. newest # 0 => newest \in 1 .. Len(log)
      BY <1>1, SMT
    <2> QED
      BY <2>1, <1>2 DEF Sound, LayoutInv
  <1>11. UNCHANGED <<oldest, active, newest>> /\ First' = First
    BY DEF AppendEntry, First
  <1>12. oldest <= active /\ active < oldest + Usable
    BY DEF Sound, LayoutInv
  <1>13. LayoutInv'
    BY <1>5, <1>8, <1>9, <1>10, <1>11, <1>12 DEF LayoutInv
  <1> QED
    BY <1>4, <1>13 DEF Sound

LEMMA NewSectorSound == ASSUME Sound, NewSector PROVE Sound'
  <1>1. active' \in Nat
    BY SMT DEF Sound, Types, NewSector
  <1>2. Types'
    BY <1>1 DEF Sound, Types, NewSector
  <1>3. oldest <= active' /\ active' < oldest + Usable
    BY SectorsAssumption, SMT
       DEF Sound, Types, LayoutInv, NewSector, AllUsed
  <1>4. active' * SectorCap <= Len(log) /\ Len(log) <= (active' + 1) * SectorCap
    <2>1. /\ (active + 1) * SectorCap \in Nat
          /\ (active + 1 + 1) * SectorCap = (active + 1) * SectorCap + SectorCap
          /\ SectorCap \in Nat
      <3>1. active \in Nat /\ active + 1 \in Nat
        BY SMT DEF Sound, Types
      <3>2. active * SectorCap \in Nat
        BY <3>1, Product
      <3> QED
        BY <3>1, <3>2, Product
    <2>2. Len(log) >= (active + 1) * SectorCap /\ Len(log) <= (active + 1) * SectorCap
      BY <2>1, LenIsNat, SMT DEF Sound, LayoutInv, NewSector, Room
    <2>3. active' = active + 1 /\ Len(log) \in Nat
      BY LenIsNat DEF Sound, NewSector
    <2> QED
      BY <2>1, <2>2, <2>3, SMT
  <1>5. ~Storing /\ ~Storing' /\ pc' # "finish"
    BY DEF NewSector, Storing
  <1>6. LayoutInv'
    BY <1>3, <1>4, <1>5 DEF Sound, LayoutInv, NewSector, First
  <1> QED
    BY <1>2, <1>6 DEF Sound

\* Rotation takes the oldest sector: Usable sectors are full, and at most
\* MaxFailures entries, which fit the others, follow the newest one.
LEMMA RotateSound == ASSUME Sound, Rotate PROVE Sound'
  <1>1. oldest' = oldest + 1 /\ oldest' \in Nat /\ active \in Nat /\ oldest \in Nat
    BY SMT DEF Sound, Types, Rotate
  <1>2. Types'
    BY <1>1 DEF Sound, Types, Rotate
  <1>3. active + 1 = oldest + Usable
    BY SectorsAssumption, <1>1, SMT DEF Rotate, AllUsed
  <1>4. oldest' <= active /\ active < oldest' + Usable
    BY <1>1, <1>3, SectorsAssumption, SMT
  <1>5. ~Storing /\ ~Storing' /\ pc' # "finish"
    BY DEF Rotate, Storing
  <1>6. newest >= First'
    <2>1. Len(log) >= (active + 1) * SectorCap /\ Len(log) <= newest + MaxFailures
      <3>1. /\ active * SectorCap \in Nat
            /\ (active + 1) * SectorCap = active * SectorCap + SectorCap
            /\ SectorCap \in Nat
        BY <1>1, Product
      <3>2. Len(log) \in Nat /\ newest \in Nat
        BY LenIsNat DEF Sound
      <3>3. (active + 1) * SectorCap \in Nat
        BY <3>1, SMT
      <3>4. Len(log) >= (active + 1) * SectorCap
        BY <3>2, <3>3, SMT DEF Rotate, Room
      <3>5. Len(log) <= newest + MaxFailures + 0
        BY <1>5 DEF Sound, LayoutInv
      <3> QED
        BY <3>2, <3>4, <3>5, FailuresAssumption, SMT
    <2>2. (oldest + Usable) * SectorCap
             = (oldest + 1) * SectorCap + (Usable - 1) * SectorCap
      BY <1>1, SectorsAssumption, SMT
    <2>3. (oldest + 1) * SectorCap \in Nat /\ (Usable - 1) * SectorCap \in Int
      BY <1>1, Product, SectorsAssumption, SMT
    <2>4. Len(log) >= (oldest + 1) * SectorCap + (Usable - 1) * SectorCap
      BY <1>3, <2>1, <2>2
    <2>5. newest >= (oldest + 1) * SectorCap + 1
      BY <2>1, <2>3, <2>4, LenIsNat, FailuresAssumption, SMT DEF Sound
    <2> QED
      BY <1>1, <2>5 DEF First
  <1>7. LayoutInv'
    BY <1>4, <1>5, <1>6 DEF Sound, LayoutInv, Rotate
  <1> QED
    BY <1>2, <1>7 DEF Sound

\* What fcb_append_finish leaves of the log when it succeeds.
LEMMA FinishedLog ==
    ASSUME Sound, pc = "finish",
           log' = [log EXCEPT ![Len(log)] = Finished(log[Len(log)])]
    PROVE  /\ Len(log) \in 1 .. Len(log) /\ Len(log) > newest
           /\ log' \in Seq(Entry)
           /\ Len(log') = Len(log)
           /\ \A i \in 1 .. Len(log) :
                 log'[i] = IF i = Len(log) THEN Finished(log[Len(log)]) ELSE log[i]
  <1>1. Storing
    BY DEF Storing
  <1>2. Len(log) > newest /\ Len(log) \in Nat /\ newest \in Nat
    BY <1>1, LenIsNat DEF Sound, LayoutInv
  <1>3. Len(log) \in 1 .. Len(log)
    BY <1>2, SMT
  <1>4. Finished(log[Len(log)]) \in Entry
    BY <1>3, LogElement DEF Sound, Finished, Entry
  <1>5. log \in Seq(Entry)
    BY DEF Sound, Types
  <1> QED
    BY <1>2, <1>3, <1>4, <1>5, ExceptSeq

LEMMA FinishEntrySound == ASSUME Sound, FinishEntry PROVE Sound'
  <1>1. Storing /\ ~Storing' /\ pc = "finish" /\ pc' = "idle"
    BY DEF FinishEntry, Storing
  <1>2. Len(log) \in Nat /\ newest \in Nat /\ Len(log) > newest
    BY <1>1, LenIsNat DEF Sound, LayoutInv
  <1>3. UNCHANGED <<oldest, active, rst, uptime, wrote, restored>> /\ First' = First
    BY DEF FinishEntry, First
  <1>4. CASE UNCHANGED <<log, newest>> /\ FaultAllowed
    <2>1. Types'
      BY <1>1, <1>3, <1>4 DEF Sound, Types
    <2>2. Len(log) <= newest + MaxFailures + 0
      BY <1>2, <1>4, FailuresAssumption, SMT DEF FaultAllowed
    <2>3. LayoutInv'
      BY <1>1, <1>3, <1>4, <2>2 DEF Sound, LayoutInv
    <2> QED
      BY <2>1, <2>3 DEF Sound
  <1>5. CASE /\ log' = [log EXCEPT ![Len(log)] = Finished(log[Len(log)])]
             /\ newest' = IF wrote THEN Len(log) ELSE newest
    <2>1. /\ Len(log) \in 1 .. Len(log) /\ log' \in Seq(Entry) /\ Len(log') = Len(log)
          /\ \A i \in 1 .. Len(log) :
                log'[i] = IF i = Len(log) THEN Finished(log[Len(log)]) ELSE log[i]
      BY <1>1, <1>5, FinishedLog
    <2>2. newest' \in 0 .. Len(log')
      BY <1>2, <1>5, <2>1, SMT
    <2>3. Types'
      BY <1>1, <1>3, <2>1, <2>2 DEF Sound, Types
    <2>4. /\ oldest' <= active' /\ active' < oldest' + Usable
          /\ active' * SectorCap <= Len(log') /\ Len(log') <= (active' + 1) * SectorCap
      BY <1>3, <2>1 DEF Sound, LayoutInv
    <2>5. \A i \in newest' + 1 .. Len(log') : log'[i].state # "good"
      <3>1. CASE wrote
        <4>1. newest' + 1 .. Len(log') = {}
          BY <1>2, <1>5, <2>1, <3>1, SMT
        <4> QED
          BY <4>1
      <3>2. CASE ~wrote
        <4> SUFFICES ASSUME NEW i \in newest + 1 .. Len(log)
                     PROVE  log'[i].state # "good"
          BY <1>5, <2>1, <3>2
        <4>1. i \in 1 .. Len(log)
          BY <1>2, SMT
        <4> QED
          BY <2>1, <3>2, <4>1 DEF Finished, Sound, LayoutInv
      <3> QED
        BY <3>1, <3>2
    <2>6. newest' # 0 => newest' >= First' /\ log'[newest'].state = "good"
      <3>1. CASE wrote
        <4>1. newest' = Len(log) /\ log'[newest'].state = "good"
          BY <1>5, <2>1, <3>1 DEF Finished
        <4>2. First <= Len(log)
          <5>1. oldest * SectorCap <= active * SectorCap
            <6>1. oldest \in Nat /\ active \in Nat /\ oldest <= active
              BY DEF Sound, Types, LayoutInv
            <6> QED
              BY <6>1, SectorsAssumption, SMT
          <5>2. Len(log) > active * SectorCap
            BY <1>1 DEF Sound, LayoutInv
          <5>3. /\ oldest * SectorCap \in Nat /\ active * SectorCap \in Nat
                /\ First = oldest * SectorCap + 1
            BY Product DEF Sound, Types, First
          <5> QED
            BY <1>2, <5>1, <5>2, <5>3, SMT
        <4> QED
          BY <1>3, <4>1, <4>2
      <3>2. CASE ~wrote
        <4>1. newest' = newest /\ (newest # 0 => newest \in 1 .. Len(log) /\ newest # Len(log))
          BY <1>2, <1>5, <3>2, SMT
        <4> QED
          BY <1>3, <2>1, <4>1 DEF Sound, LayoutInv
      <3> QED
        BY <3>1, <3>2
    <2>7. Len(log') <= newest' + MaxFailures + 0
      BY <1>1, <1>2, <1>5, <2>1, FailuresAssumption, SMT DEF Sound, LayoutInv
    <2>8. LayoutInv'
      BY <1>1, <2>4, <2>5, <2>6, <2>7 DEF LayoutInv
    <2> QED
      BY <2>3, <2>8 DEF Sound
  <1> QED
    BY <1>4, <1>5 DEF FinishEntry

LEMMA NextSound == ASSUME Sound, [Next]_vars PROVE Sound'
  <1>1. CASE Next
    BY <1>1, BootSound, BootReadFaultSound, BootInitFaultSound, StoreBeginSound,
       AppendEntrySound, NewSectorSound, RotateSound, StoreFailsSound,
       WritePayloadSound, FinishEntrySound, CrashSound DEF Next, Store
  <1>2. CASE UNCHANGED vars
    <2>1. Types' /\ Storing' = Storing /\ First' = First
      BY <1>2 DEF Sound, Types, vars, flashVars, Storing, First
    <2>2. LayoutInv'
      BY <1>2, <2>1 DEF Sound, LayoutInv, vars, flashVars
    <2> QED
      BY <2>1, <2>2 DEF Sound
  <1> QED
    BY <1>1, <1>2

\* The history keeps its types, whatever fails (hist.c:48-333): no error path
\* makes the position of the active sector or of the newest entry senseless.
THEOREM TypeCorrect == Spec => []TypeOK
  <1>1. Sound => TypeOK
    <2> SUFFICES ASSUME Sound PROVE TypeOK
      OBVIOUS
    <2>1. active \in oldest .. oldest + Usable - 1
      BY SectorsAssumption, SMT DEF Sound, Types, LayoutInv
    <2> QED
      BY <2>1 DEF Sound, Types, TypeOK
  <1> QED
    BY <1>1, InitSound, NextSound, PTL DEF Spec

\* Rotation never erases the entry whose store completed last, for every size
\* of the partition, also when reads fail (hist.c:214-223).
THEOREM NewestStaysInFlashHolds == Spec => []NewestStaysInFlash
  <1>1. Sound => NewestStaysInFlash
    BY DEF Sound, LayoutInv, NewestStaysInFlash
  <1> QED
    BY <1>1, InitSound, NextSound, PTL DEF Spec

\* Every log the flash can hold is read by the loop of hist_find_last as the
\* operator Scan says, also one that steps back because a failed read made an
\* earlier start-up reuse a cycle (hist.c:125-182).
THEOREM ScanIsTheLoopHolds == Spec => []ScanIsTheLoop
  <1>1. Sound => ScanIsTheLoop
    <2> SUFFICES ASSUME Sound PROVE ScanIsTheLoop
      OBVIOUS
    <2>1. Len(log) \in Nat /\ First \in Nat /\ First >= 1 /\ log \in Seq(Entry)
      BY LenIsNat, FirstIsNat DEF Sound, Types
    <2>2. oldest * SectorCap <= active * SectorCap
      <3>1. oldest \in Nat /\ active \in Nat /\ oldest <= active /\ SectorCap \in Nat
        BY SectorsAssumption DEF Sound, Types, LayoutInv
      <3> QED
        BY <3>1, SMT
    <2>3. First <= Len(log) + 1
      <3>1. oldest * SectorCap \in Nat /\ active * SectorCap \in Nat
        BY Product DEF Sound, Types
      <3> QED
        BY <2>1, <2>2, <3>1 DEF First, Sound, LayoutInv
    <2>4. First \in 1 .. Len(log) + 1
      BY <2>1, <2>3
    <2> QED
      BY <2>1, <2>4, LoopFindsScan DEF ScanIsTheLoop
  <1> QED
    BY <1>1, InitSound, NextSound, PTL DEF Spec

-----------------------------------------------------------------------------
(* The order of the entries, without read errors during the scan.          *)

GoodLog == Good(log, 1, Len(log))

\* Entry e lies before the present minute of the present cycle.
Past(e)       == e.rst < rst \/ (e.rst = rst /\ e.minute < uptime)
PastOrNow(e)  == e.rst < rst \/ (e.rst = rst /\ e.minute <= uptime)

\* Good entries are in strictly rising order of cycle and minute, and while
\* the thread runs none of them carries a later name than the present one.
OrderInv ==
    /\ uptime <= MaxUptime /\ rst <= MaxCycle
    /\ \A i, j \in GoodLog : i < j => Before(log[i], log[j])
    /\ pc # "off" => \A i \in GoodLog : PastOrNow(log[i])
    /\ pc \in {"append", "write", "finish"} => \A i \in GoodLog : Past(log[i])
    /\ Storing => log[Len(log)].rst = rst /\ log[Len(log)].minute = uptime

Ordered == Sound /\ OrderInv

LEMMA GoodElement ==
    ASSUME Types, NEW i \in GoodLog
    PROVE  i \in 1 .. Len(log) /\ i \in Nat /\ log[i].state = "good"
           /\ log[i].rst \in Nat /\ log[i].minute \in Nat
  <1>1. i \in 1 .. Len(log) /\ log[i].state = "good"
    BY DEF GoodLog, Good
  <1> QED
    BY <1>1, LogElement

\* The scan finds the newest entry.
LEMMA ScanFinds ==
    ASSUME Ordered
    PROVE  Scan(log, First, Len(log)) = newest
  <1>1. First \in Nat /\ First >= 1 /\ Len(log) \in Nat /\ newest \in Nat
        /\ newest <= Len(log)
    BY FirstIsNat, LenIsNat DEF Ordered, Sound, Types
  <1>2. ASSUME NEW i \in Good(log, First, Len(log))
        PROVE  i \in GoodLog /\ i <= newest /\ i \in Nat
    <2>1. i \in First .. Len(log) /\ log[i].state = "good"
      BY DEF Good
    <2>2. i \in 1 .. Len(log) /\ i \in Nat
      BY <1>1, <2>1, SMT
    <2>3. ~(i \in newest + 1 .. Len(log))
      BY <2>1 DEF Ordered, Sound, LayoutInv
    <2>4. i <= newest
      BY <1>1, <2>2, <2>3, SMT
    <2> QED
      BY <2>1, <2>2, <2>4 DEF GoodLog, Good
  <1>3. CASE newest = 0
    <2>1. Good(log, First, Len(log)) = {}
      <3>1. \A i \in First .. Len(log) : i >= 1
        BY <1>1, SMT
      <3> QED
        BY <1>2, <1>3, <3>1, SMT DEF Good
    <2> QED
      BY <1>3, <2>1, ScanOfNothing
  <1>4. CASE newest # 0
    <2>1. newest \in Good(log, First, Len(log))
      <3>1. newest >= First /\ log[newest].state = "good"
        BY <1>4 DEF Ordered, Sound, LayoutInv
      <3>2. newest \in First .. Len(log)
        BY <1>1, <3>1, SMT
      <3> QED
        BY <3>1, <3>2 DEF Good
    <2>2. ASSUME NEW i \in Good(log, First, Len(log)),
                 NEW j \in Good(log, First, Len(log)), i < j
          PROVE  ~Before(log[j], log[i])
      <3>1. i \in GoodLog /\ j \in GoodLog
        BY <1>2
      <3>2. Before(log[i], log[j])
        BY <2>2, <3>1 DEF Ordered, OrderInv
      <3>3. /\ log[i].rst \in Nat /\ log[i].minute \in Nat
            /\ log[j].rst \in Nat /\ log[j].minute \in Nat
        BY <3>1, GoodElement DEF Ordered, Sound
      <3> QED
        BY <3>2, <3>3, SMT DEF Before
    <2> QED
      BY <1>1, <1>2, <2>1, <2>2, ScanOfSorted
  <1> QED
    BY <1>3, <1>4

\* Start-up without a fault opens a cycle later than every entry's.
LEMMA BootFresh ==
    ASSUME Ordered, Boot, newest # 0
    PROVE  /\ UNCHANGED flashVars /\ restored' = Key(newest)
           /\ rst' <= MaxCycle /\ rst' = log[newest].rst + 1
           /\ \A i \in GoodLog : log[i].rst < rst'
  <1>1. Scan(log, First, Len(log)) = newest
    BY ScanFinds
  <1>2. log[newest].rst < MaxCycle /\ Loaded(newest) /\ UNCHANGED flashVars
    BY <1>1 DEF Boot
  <1>3. newest \in 1 .. Len(log)
    BY LenIsNat, SMT DEF Ordered, Sound, Types
  <1>4. newest \in GoodLog
    BY <1>3 DEF GoodLog, Good, Ordered, Sound, LayoutInv
  <1>5. log[newest].rst \in Nat /\ newest \in Nat
    BY <1>4, GoodElement DEF Ordered, Sound
  <1>6. rst' = log[newest].rst + 1 /\ restored' = Key(newest)
    <2>1. rst' = (log[newest].rst + 1) % RST_CYCLES /\ restored' = Key(newest)
      BY <1>2 DEF Loaded
    <2>2. RST_CYCLES \in Nat
      BY SMT DEF RST_CYCLES
    <2>3. (log[newest].rst + 1) % RST_CYCLES = log[newest].rst + 1
      BY <1>2, <1>5, <2>2, CycleAssumption, SMT
    <2> QED
      BY <2>1, <2>3
  <1>7. ASSUME NEW i \in GoodLog PROVE log[i].rst <= log[newest].rst
    <2>1. i \in 1 .. Len(log) /\ log[i].state = "good" /\ log[i].rst \in Nat
      BY GoodElement DEF Ordered, Sound
    <2>2. ~(i \in newest + 1 .. Len(log))
      BY <2>1 DEF Ordered, Sound, LayoutInv
    <2>3. i = newest \/ i < newest
      BY <1>5, <2>1, <2>2, SMT
    <2>4. i < newest => Before(log[i], log[newest])
      BY <1>4 DEF Ordered, OrderInv
    <2> QED
      BY <1>5, <2>1, <2>3, <2>4, SMT DEF Before
  <1>8. \A i \in GoodLog : log[i].rst < rst'
    <2>1. \A i \in GoodLog : log[i].rst \in Nat
      BY GoodElement DEF Ordered, Sound
    <2> QED
      BY <1>5, <1>6, <1>7, <2>1, SMT
  <1>9. rst' <= MaxCycle
    BY <1>2, <1>5, <1>6, CycleAssumption, SMT
  <1> QED
    BY <1>2, <1>6, <1>8, <1>9

LEMMA ErasedOrdered ==
    ASSUME Erased, pc' = "idle", rst' = 0, uptime' <= MaxUptime
    PROVE  OrderInv'
  <1>1. Len(log') = 0
    BY EmptySeq DEF Erased
  <1>2. GoodLog' = {}
    <2>1. 1 .. Len(log') = {}
      BY <1>1, SMT
    <2> QED
      BY <2>1 DEF GoodLog, Good
  <1>3. rst' <= MaxCycle
    BY CycleAssumption, SMT
  <1> QED
    BY <1>2, <1>3 DEF OrderInv, Storing

LEMMA BootOrdered == ASSUME Ordered, Boot PROVE OrderInv'
  <1>1. Scan(log, First, Len(log)) = newest
    BY ScanFinds
  <1>2. pc' = "idle" /\ uptime' = uptime /\ uptime' <= MaxUptime
    BY DEF Boot, Loaded, Ordered, OrderInv
  <1>3. CASE newest = 0
    BY <1>1, <1>2, <1>3, ErasedOrdered DEF Boot, Loaded
  <1>4. CASE newest # 0
    <2>1. log' = log /\ GoodLog' = GoodLog
      BY <1>4, BootFresh DEF flashVars, GoodLog
    <2>2. rst' <= MaxCycle /\ \A i \in GoodLog : log[i].rst < rst'
      BY <1>4, BootFresh
    <2> QED
      BY <1>2, <2>1, <2>2 DEF Ordered, OrderInv, PastOrNow, Storing
  <1> QED
    BY <1>3, <1>4

LEMMA PastIsPastOrNow ==
    ASSUME Sound, NEW i \in GoodLog, Past(log[i]) PROVE PastOrNow(log[i])
  BY GoodElement, SMT DEF Sound, Types, Past, PastOrNow

LEMMA StoreBeginOrdered == ASSUME Ordered, StoreBegin PROVE OrderInv'
  <1>1. UNCHANGED <<log, rst>> /\ GoodLog' = GoodLog /\ pc = "idle" /\ pc' = "append"
    BY DEF StoreBegin, flashVars, GoodLog
  <1>2. /\ uptime \in Nat /\ uptime' \in Nat
        /\ uptime < uptime' /\ uptime' <= MaxUptime
    BY IntervalAssumption, SMT DEF StoreBegin, Ordered, Sound, Types
  <1>3. ASSUME NEW i \in GoodLog PROVE Past(log[i])'
    <2>1. PastOrNow(log[i])
      BY <1>1 DEF Ordered, OrderInv
    <2>2. log[i].minute <= uptime => log[i].minute < uptime'
      <3>1. log[i].minute \in Nat
        BY GoodElement DEF Ordered, Sound
      <3> QED
        BY <1>2, <3>1, SMT
    <2> QED
      BY <1>1, <2>1, <2>2 DEF Past, PastOrNow
  <1>4. ASSUME NEW i \in GoodLog PROVE PastOrNow(log[i])'
    <2>1. PastOrNow(log[i])
      BY <1>1 DEF Ordered, OrderInv
    <2>2. log[i].minute <= uptime => log[i].minute <= uptime'
      <3>1. log[i].minute \in Nat
        BY GoodElement DEF Ordered, Sound
      <3> QED
        BY <1>2, <3>1, SMT
    <2> QED
      BY <1>1, <2>1, <2>2 DEF PastOrNow
  <1>5. ~Storing'
    BY <1>1 DEF Storing
  <1> QED
    BY <1>1, <1>2, <1>3, <1>4, <1>5 DEF Ordered, OrderInv, Past, PastOrNow

\* NewSector, Rotate and StoreFails leave the entries and the clock alone.
LEMMA SectorsOrdered ==
    ASSUME Ordered, NewSector \/ Rotate \/ StoreFails PROVE OrderInv'
  <1>1. /\ UNCHANGED <<log, rst, uptime>> /\ GoodLog' = GoodLog
        /\ pc = "append" /\ pc' \in {"append", "idle"} /\ ~Storing'
    BY DEF NewSector, Rotate, StoreFails, flashVars, GoodLog, Storing
  <1>2. \A i \in GoodLog : Past(log[i]) /\ PastOrNow(log[i])
    BY <1>1 DEF Ordered, OrderInv
  <1> QED
    BY <1>1, <1>2 DEF Ordered, OrderInv, Past, PastOrNow

LEMMA WritePayloadOrdered == ASSUME Ordered, WritePayload PROVE OrderInv'
  <1>1. /\ UNCHANGED <<log, rst, uptime>> /\ GoodLog' = GoodLog
        /\ pc = "write" /\ pc' = "finish" /\ Storing
    BY DEF WritePayload, flashVars, GoodLog, Storing
  <1> QED
    BY <1>1 DEF Ordered, OrderInv, Past, PastOrNow

LEMMA CrashOrdered == ASSUME Ordered, Crash PROVE OrderInv'
  <1>1. log' = log /\ GoodLog' = GoodLog /\ pc' = "off" /\ ~Storing'
    BY DEF Crash, flashVars, GoodLog, Storing
  <1>2. rst' <= MaxCycle /\ uptime' <= MaxUptime
    BY CycleAssumption, UptimeAssumption, SMT DEF Crash
  <1> QED
    BY <1>1, <1>2 DEF Ordered, OrderInv

LEMMA AppendEntryOrdered == ASSUME Ordered, AppendEntry PROVE OrderInv'
  <1>1. /\ Len(log) \in Nat /\ Len(log') = Len(log) + 1
        /\ \A i \in 1 .. Len(log) : log'[i] = log[i]
        /\ log'[Len(log) + 1] = NewEntry
    BY LenIsNat, AppendedLog DEF Ordered, Sound
  <1>2. /\ UNCHANGED <<rst, uptime>> /\ pc = "append" /\ pc' = "write"
    BY DEF AppendEntry
  <1>3. ASSUME NEW i \in GoodLog' PROVE i \in GoodLog /\ log'[i] = log[i]
    <2>1. i \in 1 .. Len(log) + 1 /\ log'[i].state = "good"
      BY <1>1 DEF GoodLog, Good
    <2>2. i # Len(log) + 1
      BY <1>1, <2>1 DEF NewEntry
    <2>3. i \in 1 .. Len(log)
      BY <1>1, <2>1, <2>2, SMT
    <2> QED
      BY <1>1, <2>1, <2>3 DEF GoodLog, Good
  <1>4. \A i \in GoodLog : Past(log[i]) /\ PastOrNow(log[i])
    BY <1>2 DEF Ordered, OrderInv
  <1>5. log'[Len(log')].rst = rst' /\ log'[Len(log')].minute = uptime'
    <2>1. uptime \in Nat /\ uptime <= MaxUptime /\ MINUTES \in Nat
      BY SMT DEF Ordered, Sound, Types, OrderInv, MINUTES
    <2>2. uptime % MINUTES = uptime
      BY <2>1, UptimeAssumption, SMT
    <2> QED
      BY <1>1, <1>2, <2>2 DEF NewEntry
  <1>6. \A i, j \in GoodLog' : i < j => Before(log'[i], log'[j])
    BY <1>3 DEF Ordered, OrderInv
  <1>7. \A i \in GoodLog' : Past(log[i])' /\ PastOrNow(log[i])'
    BY <1>2, <1>3, <1>4 DEF Past, PastOrNow
  <1>8. uptime' <= MaxUptime /\ rst' <= MaxCycle
    BY <1>2 DEF Ordered, OrderInv
  <1> QED
    BY <1>5, <1>6, <1>7, <1>8 DEF OrderInv

LEMMA FinishEntryOrdered == ASSUME Ordered, FinishEntry PROVE OrderInv'
  <1>1. /\ UNCHANGED <<rst, uptime>> /\ pc = "finish" /\ pc' = "idle" /\ ~Storing'
        /\ Storing
    BY DEF FinishEntry, Storing
  <1>2. \A i \in GoodLog : Past(log[i]) /\ PastOrNow(log[i])
    BY <1>1, PastIsPastOrNow DEF Ordered, OrderInv
  <1>3. uptime' <= MaxUptime /\ rst' <= MaxCycle
    BY <1>1 DEF Ordered, OrderInv
  <1>4. CASE log' = log
    <2>1. GoodLog' = GoodLog
      BY <1>4 DEF GoodLog
    <2> QED
      BY <1>1, <1>2, <1>3, <1>4, <2>1 DEF Ordered, OrderInv, PastOrNow
  <1>5. CASE log' = [log EXCEPT ![Len(log)] = Finished(log[Len(log)])]
    <2> DEFINE n == Len(log)
    <2>1. /\ n \in Nat /\ n \in 1 .. n /\ Len(log') = n
          /\ \A i \in 1 .. n :
                log'[i] = IF i = n THEN Finished(log[n]) ELSE log[i]
      BY <1>1, <1>5, FinishedLog, LenIsNat DEF Ordered, Sound
    <2>2. log[n].rst = rst /\ log[n].minute = uptime
      BY <1>1 DEF Ordered, OrderInv
    <2>3. log'[n].rst = rst /\ log'[n].minute = uptime
      BY <2>1, <2>2 DEF Finished
    <2> HIDE DEF n
    <2>4. ASSUME NEW i \in GoodLog', i # n
          PROVE  i \in GoodLog /\ log'[i] = log[i] /\ i < n
      <3>1. i \in 1 .. n /\ log'[i].state = "good"
        BY <2>1 DEF GoodLog, Good
      <3>2. log'[i] = log[i]
        BY <2>1, <2>4, <3>1
      <3>3. i < n
        BY <2>1, <2>4, <3>1, SMT
      <3> QED
        BY <3>1, <3>2, <3>3 DEF GoodLog, Good, n
    <2>5. GoodLog' \subseteq 1 .. n
      BY <2>1 DEF GoodLog, Good
    <2>6. ASSUME NEW i \in GoodLog', NEW j \in GoodLog', i < j
          PROVE  Before(log'[i], log'[j])
      <3>1. i # n
        BY <2>1, <2>5, <2>6, SMT
      <3>2. CASE j = n
        <4>1. Past(log[i]) /\ log'[i] = log[i]
          BY <1>2, <2>4, <3>1
        <4> QED
          BY <2>3, <3>2, <4>1 DEF Past, Before
      <3>3. CASE j # n
        BY <2>4, <2>6, <3>1, <3>3 DEF Ordered, OrderInv
      <3> QED
        BY <3>2, <3>3
    <2>7. ASSUME NEW i \in GoodLog' PROVE PastOrNow(log[i])'
      <3>1. CASE i = n
        <4>1. uptime <= uptime
          BY SMT DEF Ordered, Sound, Types
        <4> QED
          BY <1>1, <2>3, <3>1, <4>1 DEF PastOrNow
      <3>2. CASE i # n
        BY <1>1, <1>2, <2>4, <3>2 DEF PastOrNow
      <3> QED
        BY <3>1, <3>2
    <2> QED
      BY <1>1, <1>3, <2>6, <2>7 DEF OrderInv
  <1> QED
    BY <1>4, <1>5 DEF FinishEntry

LEMMA InitOrdered == Init => Ordered
  <1> SUFFICES ASSUME Init PROVE Ordered
    OBVIOUS
  <1>1. Sound
    BY InitSound
  <1>2. Len(log) = 0
    BY EmptySeq DEF Init
  <1>3. GoodLog = {}
    <2>1. 1 .. Len(log) = {}
      BY <1>2, SMT
    <2> QED
      BY <2>1 DEF GoodLog, Good
  <1>4. rst <= MaxCycle /\ uptime <= MaxUptime
    BY CycleAssumption, UptimeAssumption, SMT DEF Init
  <1> QED
    BY <1>1, <1>3, <1>4 DEF Ordered, OrderInv, Storing, Init

LEMMA NextOrdered ==
    ASSUME ReadFaults = FALSE, Ordered, [Next]_vars PROVE Ordered'
  <1>1. Sound'
    BY NextSound DEF Ordered
  <1> SUFFICES OrderInv'
    BY <1>1 DEF Ordered
  <1>2. CASE Boot
    BY <1>2, BootOrdered
  <1>3. CASE BootReadFault
    BY <1>3 DEF BootReadFault
  <1>4. CASE BootInitFault
    <2>1. Erased /\ pc' = "idle" /\ rst' = 0 /\ uptime' <= MaxUptime
      BY <1>4 DEF BootInitFault, Loaded, Ordered, OrderInv
    <2> QED
      BY <2>1, ErasedOrdered
  <1>5. CASE Store
    BY <1>5, StoreBeginOrdered, AppendEntryOrdered, SectorsOrdered,
       WritePayloadOrdered, FinishEntryOrdered DEF Store
  <1>6. CASE Crash
    BY <1>6, CrashOrdered
  <1>7. CASE UNCHANGED vars
    <2>1. GoodLog' = GoodLog /\ Storing' = Storing
      BY <1>7 DEF vars, flashVars, GoodLog, Storing
    <2> QED
      BY <1>7, <2>1 DEF Ordered, OrderInv, Past, PastOrNow, vars, flashVars
  <1> QED
    BY <1>2, <1>3, <1>4, <1>5, <1>6, <1>7 DEF Next

\* Without read errors the scan finds the entry whose store completed last at
\* any moment, also between the steps of a store (hist.c:134-182).
THEOREM ScanFindsNewestHolds ==
    ASSUME ReadFaults = FALSE PROVE Spec => []ScanFindsNewest
  <1>1. Ordered => ScanFindsNewest
    BY ScanFinds DEF ScanFindsNewest
  <1>2. Ordered /\ [Next]_vars => Ordered'
    BY NextOrdered
  <1> QED
    BY <1>1, <1>2, InitOrdered, PTL DEF Spec

\* Every start-up that finds an entry restores the newest one and opens a
\* cycle that no entry still in flash belongs to (hist.c:184-193).
THEOREM FreshCycleHolds ==
    ASSUME ReadFaults = FALSE PROVE Spec => FreshCycle
  <1>1. Ordered /\ [Next]_vars => Ordered'
    BY NextOrdered
  <1>2. ASSUME Ordered, Next, pc = "off", pc' = "idle", newest' # 0
        PROVE  /\ restored' = Key(newest)
               /\ \A i \in Good(log, First, Len(log)) : rst' > log[i].rst
    <2>1. Boot
      <3>1. ~BootInitFault
        BY <1>2 DEF BootInitFault, Erased
      <3>2. Boot \/ BootReadFault \/ BootInitFault
        BY <1>2 DEF Next, Store, StoreBegin, AppendEntry, NewSector, Rotate,
                    StoreFails, WritePayload, FinishEntry, Crash
      <3> QED
        BY <3>1, <3>2 DEF BootReadFault
    <2>2. newest # 0
      <3>1. CASE Scan(log, First, Len(log)) = 0
        BY <1>2, <2>1, <3>1 DEF Boot, Erased
      <3>2. CASE Scan(log, First, Len(log)) # 0
        BY <1>2, <3>2, ScanFinds
      <3> QED
        BY <3>1, <3>2
    <2>3. restored' = Key(newest) /\ \A i \in GoodLog : log[i].rst < rst'
      BY <1>2, <2>1, <2>2, BootFresh
    <2>4. ASSUME NEW i \in Good(log, First, Len(log)) PROVE rst' > log[i].rst
      <3>1. i \in 1 .. Len(log) /\ log[i].state = "good"
        BY <1>2, FirstIsNat, LenIsNat, SMT DEF Ordered, Sound, Good
      <3>2. i \in GoodLog
        BY <3>1 DEF GoodLog, Good
      <3>3. log[i].rst < rst'
        BY <2>3, <3>2
      <3> QED
        BY <3>3
    <2> QED
      BY <2>3, <2>4
  <1>3. Ordered /\ [Next]_vars =>
          [pc = "off" /\ pc' = "idle" /\ newest' # 0 =>
              /\ restored' = Key(newest)
              /\ \A i \in Good(log, First, Len(log)) : rst' > log[i].rst]_vars
    BY <1>2
  <1> QED
    BY <1>1, <1>3, InitOrdered, PTL DEF Spec, FreshCycle

-----------------------------------------------------------------------------
(* The flash history implements HistSpec.                                  *)

Saved == Key(Scan(log, First, Len(log)))

\* A step that leaves the newest entry and the thread alone is a stutter.
LEMMA Stutter ==
    ASSUME ScanFindsNewest, ScanFindsNewest', newest' = newest,
           newest # 0 => log'[newest] = log[newest],
           restored' = restored, pc # "off", pc' # "off"
    PROVE  UNCHANGED Promise!vars
  <1>1. Saved' = Saved
    BY DEF Saved, ScanFindsNewest, Key
  <1>2. (pc # "off")' = (pc # "off")
    OBVIOUS
  <1> QED
    BY <1>1, <1>2 DEF Promise!vars, Saved

LEMMA PromiseStep ==
    ASSUME ReadFaults = FALSE, Ordered, Ordered', ScanFindsNewest, ScanFindsNewest',
           [Next]_vars
    PROVE  [Promise!Next]_(Promise!vars)
  <1>1. Saved = Key(newest) /\ Saved' = Key(newest)'
    BY DEF Saved, ScanFindsNewest, Key
  <1>2. Len(log) \in Nat /\ newest \in Nat /\ newest \in 0 .. Len(log)
    BY LenIsNat DEF Ordered, Sound, Types
  <1>3. newest # 0 => newest \in 1 .. Len(log)
    BY <1>2, SMT
  <1>4. CASE Boot
    <2>1. Loaded(newest) /\ pc = "off" /\ pc' = "idle" /\ restored' = Key(newest)
      BY <1>4 DEF Boot, Loaded, ScanFindsNewest
    <2>2. Saved' = Saved
      <3>1. CASE newest = 0
        BY <1>1, <1>4, <3>1 DEF Boot, ScanFindsNewest, Erased, Key
      <3>2. CASE newest # 0
        BY <1>1, <1>4, <3>2 DEF Boot, ScanFindsNewest, flashVars, Key
      <3> QED
        BY <3>1, <3>2
    <2>3. restored' = Saved'
      BY <1>1, <2>1, <2>2
    <2>4. Promise!Up
      BY <2>1, <2>2, <2>3 DEF Promise!Up, Saved
    <2> QED
      BY <2>4 DEF Promise!Next
  <1>5. CASE BootReadFault
    BY <1>5 DEF BootReadFault
  <1>6. CASE BootInitFault
    <2>1. pc = "off" /\ pc' = "idle" /\ InitFaults /\ restored' = None
      BY <1>6 DEF BootInitFault, Loaded, Key
    <2>2. Saved' = None
      BY <1>1, <1>6 DEF BootInitFault, Erased, Key
    <2>3. Promise!Up
      BY <2>1, <2>2 DEF Promise!Up, Saved
    <2> QED
      BY <2>3 DEF Promise!Next
  <1>7. CASE StoreBegin \/ NewSector \/ Rotate \/ StoreFails \/ WritePayload
    <2>1. /\ UNCHANGED <<log, newest, restored>> /\ pc # "off" /\ pc' # "off"
      BY <1>7 DEF StoreBegin, NewSector, Rotate, StoreFails, WritePayload, flashVars
    <2> QED
      BY <2>1, Stutter
  <1>8. CASE AppendEntry
    <2>1. newest # 0 => log'[newest] = log[newest]
      BY <1>3, <1>8, AppendedLog DEF Ordered, Sound
    <2> QED
      BY <1>8, <2>1, Stutter DEF AppendEntry
  <1>9. CASE FinishEntry
    <2>1. pc = "finish" /\ pc' = "idle" /\ restored' = restored
      BY <1>9 DEF FinishEntry
    <2>2. CASE UNCHANGED <<log, newest>>
      BY <2>1, <2>2, Stutter
    <2>3. CASE /\ log' = [log EXCEPT ![Len(log)] = Finished(log[Len(log)])]
               /\ newest' = IF wrote THEN Len(log) ELSE newest
      <3>1. /\ Len(log) \in 1 .. Len(log) /\ Len(log) > newest
            /\ \A i \in 1 .. Len(log) :
                  log'[i] = IF i = Len(log) THEN Finished(log[Len(log)]) ELSE log[i]
        BY <2>1, <2>3, FinishedLog DEF Ordered
      <3>2. CASE ~wrote
        <4>1. newest' = newest /\ (newest # 0 => log'[newest] = log[newest])
          BY <1>2, <1>3, <2>3, <3>1, <3>2, SMT
        <4> QED
          BY <2>1, <4>1, Stutter
      <3>3. CASE wrote
        <4>1. Len(log) # 0 /\ newest' = Len(log)
          BY <2>3, <3>1, <3>3, SMT
        <4>2. log[Len(log)].rst = rst /\ log[Len(log)].minute = uptime
          BY <2>1 DEF Ordered, OrderInv, Storing
        <4>3. Saved' = [rst |-> rst, minute |-> uptime]
          BY <1>1, <3>1, <4>1, <4>2 DEF Key, Finished
        <4>4. Saved' \in Promise!Record
          BY <4>3 DEF Promise!Record, Ordered, Sound, Types
        <4>5. Promise!Later(Saved', Saved)
          <5>1. CASE newest = 0
            BY <1>1, <5>1 DEF Key, Promise!Later
          <5>2. CASE newest # 0
            <6>1. newest \in GoodLog
              BY <1>3, <5>2 DEF GoodLog, Good, Ordered, Sound, LayoutInv
            <6>2. Past(log[newest])
              BY <2>1, <6>1 DEF Ordered, OrderInv
            <6>3. Saved = [rst |-> log[newest].rst, minute |-> log[newest].minute]
              BY <1>1, <5>2 DEF Key
            <6>4. /\ log[newest].rst \in Nat /\ log[newest].minute \in Nat
                  /\ rst \in Nat /\ uptime \in Nat
              BY <6>1, GoodElement DEF Ordered, Sound, Types
            <6>5. \/ rst > log[newest].rst
                  \/ rst = log[newest].rst /\ uptime > log[newest].minute
              BY <6>2, <6>4, SMT DEF Past
            <6> QED
              BY <4>3, <6>3, <6>5 DEF Promise!Later
          <5> QED
            BY <5>1, <5>2
        <4>6. Promise!Save
          BY <2>1, <4>4, <4>5 DEF Promise!Save, Saved
        <4> QED
          BY <4>6 DEF Promise!Next
      <3> QED
        BY <3>2, <3>3
    <2> QED
      BY <1>9, <2>2, <2>3 DEF FinishEntry
  <1>10. CASE Crash
    <2>1. Saved' = Saved
      BY <1>1, <1>10 DEF Crash, flashVars, Key
    <2>2. Promise!Down
      BY <1>10, <2>1 DEF Crash, Promise!Down, Saved
    <2> QED
      BY <2>2 DEF Promise!Next
  <1>11. CASE UNCHANGED vars
    <2>1. Saved' = Saved
      BY <1>1, <1>11 DEF vars, flashVars, Key
    <2> QED
      BY <1>11, <2>1 DEF vars, Promise!vars, Saved
  <1> QED
    BY <1>4, <1>5, <1>6, <1>7, <1>8, <1>9, <1>10, <1>11 DEF Next, Store

\* The entries, sectors, rotations and resets of the flash implement one
\* durable record that every store replaces in a single step and every
\* start-up restores (hist.c:48-333, README.md:205-213).
THEOREM ImplementsPromiseHolds ==
    ASSUME ReadFaults = FALSE PROVE Spec => ImplementsPromise
  <1>1. Ordered => ScanFindsNewest
    BY ScanFinds DEF ScanFindsNewest
  <1>2. Ordered /\ [Next]_vars => Ordered'
    BY NextOrdered
  <1>3. Init => Promise!Init
    <2> SUFFICES ASSUME Init PROVE Promise!Init
      OBVIOUS
    <2>1. newest = 0 /\ Saved = Key(newest)
      BY InitOrdered, ScanFinds DEF Init, Saved
    <2>2. Saved = None
      BY <2>1 DEF Key
    <2> QED
      BY <2>2 DEF Init, Promise!Init, Saved
  <1>4. Ordered /\ Ordered' /\ ScanFindsNewest /\ ScanFindsNewest' /\ [Next]_vars
           => [Promise!Next]_(Promise!vars)
    BY PromiseStep
  <1> QED
    BY <1>1, <1>2, <1>3, <1>4, InitOrdered, PTL DEF Spec, ImplementsPromise, Promise!Spec
=============================================================================
