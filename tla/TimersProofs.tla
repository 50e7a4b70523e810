---------------------------- MODULE TimersProofs ----------------------------
(***************************************************************************)
(* Proofs about the root counter (Timers), for every video timing, range   *)
(* of the counter, set of modes and length of an instruction.              *)
(***************************************************************************)
EXTENDS MCTimers, Induction, TLAPS

(* The counter's types. *)
Counter ==
  [mode : Mode, target : 0 .. Wrap - 1, counter : 0 .. Wrap - 1, frac : Nat, age : Nat,
   sync_started : BOOLEAN, irq_fired : BOOLEAN, line : BOOLEAN, raised : BOOLEAN]

(* Two states of it differ in nothing that says what it counts, or to.     *)
SameSetting(t, u) == u.mode = t.mode /\ u.target = t.target

-----------------------------------------------------------------------------
(* Quotient and remainder.                                                 *)
LEMMA DivIs ==
  ASSUME NEW a \in Nat, NEW b \in Nat, b > 0
  PROVE  /\ a \div b \in Nat /\ a % b \in 0 .. b - 1
         /\ a = b * (a \div b) + (a % b)
OBVIOUS

(* One more: the remainder grows by one, or the quotient does.             *)
LEMMA DivNext ==
  ASSUME NEW a \in Nat, NEW b \in Nat, b > 0
  PROVE  \/ (a + 1) \div b = a \div b /\ (a + 1) % b = (a % b) + 1
         \/ (a + 1) \div b = a \div b + 1 /\ (a + 1) % b = 0 /\ a % b = b - 1
<1>1. /\ a \div b \in Nat /\ a % b \in 0 .. b - 1
      /\ a = b * (a \div b) + (a % b)
  BY DivIs
<1>2. /\ (a + 1) \div b \in Nat /\ (a + 1) % b \in 0 .. b - 1
      /\ a + 1 = b * ((a + 1) \div b) + ((a + 1) % b)
  BY DivIs
<1> QED
  BY <1>1, <1>2

(* The numerator and the denominator of the counter's clock.               *)
LEMMA RatioIs ==
  ASSUME NEW t \in Counter, NEW tm \in Timings
  PROVE  Num(t, tm) \in Nat \ {0} /\ Den(t, tm) \in Nat \ {0}
<1>1. t.mode.source \in Sources
  BY DEF Counter, Mode
<1> QED
  BY <1>1, TimersAssumption DEF Num, Den

LEMMA RequestIrqKeeps ==
  ASSUME NEW t \in Counter
  PROVE  /\ RequestIrq(t) \in Counter /\ SameSetting(t, RequestIrq(t))
         /\ RequestIrq(t).frac = t.frac /\ RequestIrq(t).age = t.age
BY DEF RequestIrq, Counter, SameSetting, Mode

LEMMA EdgeKeeps ==
  ASSUME NEW t \in Counter
  PROVE  /\ Edge(t) \in Counter /\ SameSetting(t, Edge(t))
         /\ Edge(t).frac \in {0, t.frac} /\ Edge(t).age = t.age
<1>1. 0 \in 0 .. Wrap - 1
  BY TimersAssumption
<1> QED
  BY <1>1 DEF Edge, Counter, SameSetting, Mode

LEMMA AdvanceKeeps ==
  ASSUME NEW t \in Counter, NEW tm \in Timings, NEW cycles \in Nat
  PROVE  LET u == Advance(t, cycles, tm) IN
    /\ u \in Counter /\ SameSetting(t, u) /\ u.age = t.age /\ u.frac < Num(t, tm)
<1> DEFINE elapsed == cycles * Den(t, tm) + t.frac
           reached == t.counter + elapsed \div Num(t, tm)
           crossed == t.counter <= t.target /\ t.target < reached
           counter == IF crossed /\ t.mode.reset THEN reached % (t.target + 1) ELSE reached
           overflow == counter >= Wrap
           frac == elapsed % Num(t, tm)
           round == counter % Wrap
           next == [t EXCEPT !.counter = round, !.frac = frac]
           u == Advance(t, cycles, tm)
<1>1. Num(t, tm) \in Nat /\ Num(t, tm) > 0 /\ Den(t, tm) \in Nat
  BY RatioIs
<1>2. t.frac \in Nat /\ t.counter \in Nat /\ t.target \in Nat
  BY DEF Counter
<1>3. elapsed \in Nat
  BY <1>1, <1>2
<1>4. elapsed \div Num(t, tm) \in Nat /\ frac \in Nat /\ frac < Num(t, tm)
  <2> HIDE DEF elapsed
  <2> QED
    BY <1>1, <1>3, DivIs
<1>5. reached \in Nat
  <2> HIDE DEF elapsed
  <2> QED
    BY <1>2, <1>4
<1>6. counter \in Nat
  <2> HIDE DEF reached
  <2>1. reached % (t.target + 1) \in Nat
    BY <1>2, <1>5, DivIs
  <2> QED
    BY <1>5, <2>1
<1>7. round \in 0 .. Wrap - 1
  <2> HIDE DEF counter
  <2> QED
    BY <1>6, DivIs, TimersAssumption
<1>8. next \in Counter /\ SameSetting(t, next) /\ next.age = t.age /\ next.frac = frac
  <2> HIDE DEF round, frac
  <2> QED
    BY <1>4, <1>7 DEF Counter, SameSetting
<1>9. u = next \/ u = RequestIrq(next)
  BY DEF Advance
<1> HIDE DEF next, frac, u
<1>10. /\ RequestIrq(next) \in Counter /\ SameSetting(next, RequestIrq(next))
       /\ RequestIrq(next).frac = next.frac /\ RequestIrq(next).age = next.age
  BY <1>8, RequestIrqKeeps
<1>11. u \in Counter /\ SameSetting(t, u) /\ u.age = t.age /\ u.frac < Num(t, tm)
  BY <1>4, <1>8, <1>9, <1>10 DEF SameSetting
<1> QED
  BY <1>11 DEF u
-----------------------------------------------------------------------------
(* What is spent blanking up to the next phase: that cycle or not.         *)
LEMMA BlankingNext ==
  ASSUME NEW tm \in Timings, NEW p \in Nat
  PROVE  /\ BlankingBefore(p, tm) \in Nat
         /\ BlankingBefore(p + 1, tm) \in {BlankingBefore(p, tm), BlankingBefore(p, tm) + 1}
<1> DEFINE P == tm.period
           B == tm.blank
           a == p \div P
           r == p % P
           b == (p + 1) \div P
           s == (p + 1) % P
           Least(x) == IF x <= B THEN x ELSE B
<1>1. P \in Nat /\ P > 0 /\ B \in 0 .. P
  BY TimersAssumption
<1>2. /\ a \in Nat /\ r \in 0 .. P - 1
      /\ b \in Nat /\ s \in 0 .. P - 1
  <2> HIDE DEF P
  <2> QED
    BY <1>1, DivIs
<1>3. ASSUME NEW x \in Nat PROVE Min({x, B}) = Least(x)
  BY <1>1 DEF Min
<1>4. /\ BlankingBefore(p, tm) = a * B + Least(r)
      /\ BlankingBefore(p + 1, tm) = b * B + Least(s)
  <2>1. Min({r, B}) = Least(r) /\ Min({s, B}) = Least(s)
    <3> HIDE DEF Least, r, s, B
    <3> QED
      BY <1>2, <1>3
  <2> QED
    BY <2>1 DEF BlankingBefore
<1>5. (b = a /\ s = r + 1) \/ (b = a + 1 /\ s = 0 /\ r = P - 1)
  <2> HIDE DEF P
  <2> QED
    BY <1>1, DivNext
<1> HIDE DEF P, B, a, b, r, s
<1>6. a * B \in Nat /\ (a + 1) * B = a * B + B
  BY <1>1, <1>2
<1>7. a * B + Least(r) \in Nat
  BY <1>1, <1>2, <1>6
<1>8. CASE b = a /\ s = r + 1
  BY <1>1, <1>2, <1>4, <1>6, <1>7, <1>8
<1>9. CASE b = a + 1 /\ s = 0 /\ r = P - 1
  BY <1>1, <1>2, <1>4, <1>6, <1>7, <1>9
<1> QED
  BY <1>4, <1>5, <1>7, <1>8, <1>9

(* Of the cycles between two phases, none or some or all are blanking.     *)
LEMMA BlankingWithinIs ==
  ASSUME NEW tm \in Timings, NEW from \in Nat, NEW to \in Nat, from <= to
  PROVE  BlankingWithin(from, to, tm) \in 0 .. to - from
<1> DEFINE N == to - from
           W(m) == BlankingBefore(from + m, tm) - BlankingBefore(from, tm)
           T == {m \in 0 .. N : W(m) \in 0 .. m}
<1>1. N \in Nat
  OBVIOUS
<1>2. 0 \in T
  <2>1. BlankingBefore(from, tm) \in Nat
    BY BlankingNext
  <2>2. from + 0 = from
    OBVIOUS
  <2>3. W(0) = 0
    BY <2>1, <2>2
  <2> QED
    BY <1>1, <2>3
<1>3. ASSUME NEW m \in 0 .. N, m < N, m \in T PROVE m + 1 \in T
  <2>1. PICK p : p = from + m
    OBVIOUS
  <2>2. p \in Nat /\ from + (m + 1) = p + 1
    BY <1>1, <2>1
  <2>3. /\ BlankingBefore(from, tm) \in Nat /\ BlankingBefore(p, tm) \in Nat
        /\ BlankingBefore(p + 1, tm) \in {BlankingBefore(p, tm), BlankingBefore(p, tm) + 1}
    BY <2>2, BlankingNext
  <2>4. W(m) = BlankingBefore(p, tm) - BlankingBefore(from, tm) /\ W(m) \in 0 .. m
    BY <1>3, <2>1
  <2>5. W(m + 1) = BlankingBefore(p + 1, tm) - BlankingBefore(from, tm)
    BY <2>2
  <2>6. W(m + 1) \in {W(m), W(m) + 1}
    <3> HIDE DEF W
    <3> QED
      BY <2>3, <2>4, <2>5
  <2> HIDE DEF W
  <2>7. W(m + 1) \in 0 .. m + 1
    BY <2>4, <2>6
  <2> QED
    BY <1>1, <1>3, <2>7
<1> HIDE DEF T
<1>4. 0 .. N \subseteq T
  <2> HIDE DEF N
  <2> QED
    BY <1>1, <1>2, <1>3, UptoInduction
<1>5. W(N) \in 0 .. N
  BY <1>1, <1>4 DEF T
<1>6. from + N = to
  OBVIOUS
<1> QED
  BY <1>5, <1>6 DEF BlankingWithin

(* Between two phases a counter counts for no longer than they are apart.  *)
LEMMA CountingIs ==
  ASSUME NEW t \in Counter, NEW tm \in Timings, NEW from \in Nat, NEW to \in Nat, from <= to
  PROVE  Counting(t, from, to, tm) \in Nat
<1>1. BlankingWithin(from, to, tm) \in 0 .. to - from
  BY BlankingWithinIs
<1>2. t.mode.gate \in Gates
  BY DEF Counter, Mode
<1> QED
  BY <1>1, <1>2 DEF Counting, Gates

LEMMA SegmentKeeps ==
  ASSUME NEW t \in Counter, NEW tm \in Timings, NEW cursor \in Nat, NEW end \in Nat,
         NEW now \in Nat, cursor <= end, end <= now
  PROVE  LET u == Segment(t, cursor, end, now, tm) IN
    /\ u \in Counter /\ SameSetting(t, u) /\ u.age = now - end /\ u.frac < Num(t, tm)
<1> DEFINE cycles == Counting(t, cursor, end, tm)
           age == now - end
           s == [t EXCEPT !.age = age]
           c == Advance(s, cycles, tm)
           u == Segment(t, cursor, end, now, tm)
<1>1. cycles \in Nat
  BY CountingIs
<1>2. age \in Nat
  OBVIOUS
<1>3. s \in Counter /\ SameSetting(t, s) /\ s.age = age
  <2> HIDE DEF age
  <2> QED
    BY <1>2 DEF Counter, SameSetting
<1> HIDE DEF cycles, s
<1>4. c \in Counter /\ SameSetting(s, c) /\ c.age = s.age /\ c.frac < Num(s, tm)
  BY <1>1, <1>3, AdvanceKeeps
<1>5. /\ Edge(c) \in Counter /\ SameSetting(c, Edge(c))
      /\ Edge(c).frac \in {0, c.frac} /\ Edge(c).age = c.age
  <2> HIDE DEF c
  <2> QED
    BY <1>4, EdgeKeeps
<1>6. u = c \/ u = Edge(c)
  BY DEF Segment, s, cycles
<1>7. Num(t, tm) \in Nat \ {0} /\ Num(s, tm) = Num(t, tm)
  BY <1>3, RatioIs DEF SameSetting, Num
<1> HIDE DEF c, u, age
<1>8. u \in Counter /\ SameSetting(t, u) /\ u.age = age /\ u.frac < Num(t, tm)
  BY <1>3, <1>4, <1>5, <1>6, <1>7 DEF SameSetting
<1> QED
  BY <1>8 DEF u, age

(* What the cursor is at a place: an earlier one, or the start.            *)
LEMMA CursorIs ==
  ASSUME NEW t \in Counter, NEW tm \in Timings, NEW from \in Nat, NEW end \in Nat, from < end
  PROVE  Max({from} \cup Edges(t, from, end - 1, tm)) \in from .. end - 1
<1> DEFINE S == {from} \cup Edges(t, from, end - 1, tm)
<1>1. S \subseteq from .. end - 1 /\ S # {}
  BY DEF Edges
<1>2. S \subseteq 0 .. end
  BY <1>1
<1> HIDE DEF S
<1>3. \E x \in S : \A y \in S : x >= y
  BY <1>1, <1>2, UptoGreatest
<1>4. Max(S) \in S
  BY <1>3 DEF Max
<1>5. Max(S) \in from .. end - 1
  BY <1>1, <1>4
<1> QED
  BY <1>5 DEF S

(* The states that catching up goes through, by phase.                     *)
Walk(t, now, tm) ==
  LET from == now - t.age
      Cursor(end) == Max({from} \cup Edges(t, from, end - 1, tm))
      walked[end \in from .. now] ==
        IF end = from THEN t ELSE Segment(walked[Cursor(end)], Cursor(end), end, now, tm)
  IN walked

LEMMA WalkIs ==
  ASSUME NEW t \in Counter, NEW tm \in Timings, NEW now \in Nat, t.age <= now
  PROVE  LET from == now - t.age
             w == Walk(t, now, tm)
             Cursor(end) == Max({from} \cup Edges(t, from, end - 1, tm))
         IN w = [end \in from .. now |->
                   IF end = from THEN t ELSE Segment(w[Cursor(end)], Cursor(end), end, now, tm)]
<1> DEFINE from == now - t.age
           Cursor(end) == Max({from} \cup Edges(t, from, end - 1, tm))
           w == Walk(t, now, tm)
           F == [from .. now -> Counter]
           Step(f, end) ==
             IF end = from THEN t ELSE Segment(f[Cursor(end)], Cursor(end), end, now, tm)
           G == [end \in from .. now |-> [f \in F |-> Step(f, end)]]
<1>1. from \in Nat /\ from <= now /\ Counter # {}
  BY DEF Counter
<1>2. ASSUME NEW end \in from .. now, end # from
      PROVE  Cursor(end) \in from .. now /\ Cursor(end) < end /\ Cursor(end) \in Nat /\ end \in Nat
  <2>1. end \in Nat /\ from < end
    BY <1>1, <1>2
  <2>2. Cursor(end) \in from .. end - 1
    <3> HIDE DEF from
    <3> QED
      BY <1>1, <2>1, CursorIs
  <2> HIDE DEF from, Cursor
  <2> QED
    BY <1>1, <2>1, <2>2
<1> HIDE DEF from, Cursor
<1>3. ASSUME NEW end \in from .. now, NEW f \in F PROVE Step(f, end) \in Counter
  <2>1. CASE end = from
    BY <2>1
  <2>2. CASE end # from
    <3>1. Cursor(end) \in from .. now /\ Cursor(end) < end /\ Cursor(end) \in Nat /\ end \in Nat
      BY <1>2, <2>2
    <3>2. f[Cursor(end)] \in Counter /\ end <= now /\ Cursor(end) <= end
      BY <1>1, <3>1
    <3>3. Segment(f[Cursor(end)], Cursor(end), end, now, tm) \in Counter
      BY <3>1, <3>2, SegmentKeeps
    <3> QED
      BY <2>2, <3>3
  <2> QED
    BY <2>1, <2>2
<1>4. G \in [from .. now -> [F -> Counter]]
  BY <1>3
<1>5. ASSUME NEW end \in from .. now, NEW f \in F, NEW g \in F,
             \A j \in from .. now : j < end => f[j] = g[j]
      PROVE  G[end][f] = G[end][g]
  <2>1. Step(f, end) = Step(g, end)
    <3>1. CASE end = from
      BY <3>1
    <3>2. CASE end # from
      <4>1. f[Cursor(end)] = g[Cursor(end)]
        BY <1>2, <1>5, <3>2
      <4> QED
        BY <4>1
    <3> QED
      BY <3>1, <3>2
  <2> QED
    BY <2>1
<1>6. PICK f : f \in Ascents(from, now, Counter, G)
  <2> HIDE DEF G
  <2>1. Ascents(from, now, Counter, G) # {}
    BY <1>1, <1>4, <1>5, UpRecursion
  <2> QED
    BY <2>1
<1>7. f = [end \in from .. now |-> Step(f, end)]
  <2>1. f \in F /\ \A end \in from .. now : f[end] = G[end][f]
    BY <1>6 DEF Ascents
  <2>2. \A end \in from .. now : G[end][f] = Step(f, end)
    BY <2>1
  <2> HIDE DEF G, Step
  <2> QED
    BY <2>1, <2>2
<1>8. w = CHOOSE g : g = [end \in from .. now |-> Step(g, end)]
  BY DEF Walk, from, Cursor
<1> HIDE DEF w, Step
<1>9. w = [end \in from .. now |-> Step(w, end)]
  BY <1>7, <1>8
<1> QED
  BY <1>9 DEF w, Step, from, Cursor

(* Catching up keeps the counter's types and its setting, takes it to the  *)
(* phase now and leaves less than a tick over.                             *)
LEMMA CatchUpKeeps ==
  ASSUME NEW t \in Counter, NEW tm \in Timings, NEW now \in Nat, t.age <= now
  PROVE  LET u == CatchUp(t, now, tm) IN
    /\ u \in Counter /\ SameSetting(t, u) /\ u.age = 0
    /\ t.age > 0 => u.frac < Num(u, tm)
<1> DEFINE from == now - t.age
           Cursor(end) == Max({from} \cup Edges(t, from, end - 1, tm))
           w == Walk(t, now, tm)
           Good(end, u) == /\ u \in Counter /\ SameSetting(t, u) /\ u.age = now - end
                           /\ end # from => u.frac < Num(t, tm)
           N == t.age
           T == {m \in 0 .. N : \A end \in from .. from + m : Good(end, w[end])}
<1>1. from \in Nat /\ N \in Nat /\ from + N = now /\ from <= now
  BY DEF Counter
<1>2. w = [end \in from .. now |->
             IF end = from THEN t ELSE Segment(w[Cursor(end)], Cursor(end), end, now, tm)]
  <2> HIDE DEF w
  <2> QED
    BY WalkIs DEF w
<1>3. ASSUME NEW end \in from .. now, end # from
      PROVE  Cursor(end) \in from .. end - 1 /\ end \in Nat
  <2>1. end \in Nat /\ from < end
    BY <1>1, <1>3
  <2> HIDE DEF from
  <2> QED
    BY <1>1, <2>1, CursorIs
<1> HIDE DEF w, Cursor
<1>4. Good(from, t)
  BY DEF SameSetting, Counter
<1> HIDE DEF from, N
<1>5. 0 \in T
  <2>1. w[from] = t
    BY <1>1, <1>2
  <2>2. \A end \in from .. from + 0 : end = from
    BY <1>1
  <2> HIDE DEF Good
  <2> QED
    BY <1>1, <1>4, <2>1, <2>2
<1>6. ASSUME NEW m \in 0 .. N, m < N, m \in T PROVE m + 1 \in T
  <2>1. \A end \in from .. from + m : Good(end, w[end])
    BY <1>6
  <2>2. PICK end : end = from + m + 1
    OBVIOUS
  <2>3. end \in from .. now /\ end # from /\ end - 1 = from + m /\ from + (m + 1) = end
    BY <1>1, <1>6, <2>2
  <2>4. Cursor(end) \in from .. end - 1 /\ end \in Nat
    BY <1>3, <2>3
  <2>5. w[end] = Segment(w[Cursor(end)], Cursor(end), end, now, tm)
    BY <1>2, <2>3
  <2>6. /\ w[Cursor(end)] \in Counter /\ SameSetting(t, w[Cursor(end)])
        /\ Cursor(end) \in Nat /\ Cursor(end) <= end /\ end <= now
    BY <1>1, <2>1, <2>3, <2>4
  <2> DEFINE c == Cursor(end)
             v == w[c]
             u == w[end]
  <2>7. /\ u \in Counter /\ SameSetting(v, u) /\ u.age = now - end /\ u.frac < Num(v, tm)
    <3>1. v \in Counter /\ c \in Nat /\ end \in Nat /\ c <= end /\ end <= now
      BY <2>4, <2>6
    <3>2. u = Segment(v, c, end, now, tm)
      BY <2>5
    <3> HIDE DEF u, v, c
    <3> QED
      BY <3>1, <3>2, SegmentKeeps
  <2>8. Num(v, tm) = Num(t, tm)
    BY <2>6 DEF SameSetting, Num
  <2>9. Good(end, u)
    <3>1. SameSetting(t, v)
      BY <2>6
    <3> HIDE DEF u, v
    <3> QED
      BY <2>7, <2>8, <3>1 DEF SameSetting
  <2>10. \A e \in from .. from + (m + 1) : e = end \/ e \in from .. from + m
    BY <1>1, <2>2
  <2> HIDE DEF Good
  <2>11. \A e \in from .. from + (m + 1) : Good(e, w[e])
    BY <2>1, <2>9, <2>10
  <2> QED
    BY <1>1, <1>6, <2>11
<1> HIDE DEF T
<1>7. 0 .. N \subseteq T
  BY <1>1, <1>5, <1>6, UptoInduction
<1>8. Good(now, w[now])
  <2>1. N \in T
    BY <1>1, <1>7
  <2>2. \A end \in from .. from + N : Good(end, w[end])
    BY <2>1 DEF T
  <2>3. now \in from .. from + N
    BY <1>1
  <2> HIDE DEF Good
  <2> QED
    BY <2>2, <2>3
<1> DEFINE u == CatchUp(t, now, tm)
<1>9. u = w[now]
  BY DEF CatchUp, Walk, w
<1>10. t.age > 0 => now # from
  BY <1>1 DEF N
<1>11. SameSetting(t, u) => Num(u, tm) = Num(t, tm)
  BY DEF SameSetting, Num
<1> HIDE DEF u
<1>12. u \in Counter /\ SameSetting(t, u) /\ u.age = 0 /\ (t.age > 0 => u.frac < Num(u, tm))
  BY <1>8, <1>9, <1>10, <1>11
<1> QED
  BY <1>12 DEF u

(* Catching up at the phase it has caught up to changes nothing.           *)
LEMMA CaughtUpAlready ==
  ASSUME NEW t \in Counter, NEW tm \in Timings, NEW now \in Nat, t.age = 0
  PROVE  CatchUp(t, now, tm) = t
<1> DEFINE from == now - t.age
           Cursor(end) == Max({from} \cup Edges(t, from, end - 1, tm))
           w == Walk(t, now, tm)
<1>1. t.age <= now /\ from = now /\ now \in from .. now
  OBVIOUS
<1>2. w = [end \in from .. now |->
             IF end = from THEN t ELSE Segment(w[Cursor(end)], Cursor(end), end, now, tm)]
  <2> HIDE DEF w
  <2> QED
    BY <1>1, WalkIs DEF w
<1>3. w[now] = t
  <2> HIDE DEF from, Cursor, w
  <2> QED
    BY <1>1, <1>2
<1>4. CatchUp(t, now, tm) = w[now]
  BY DEF CatchUp, Walk, w
<1> QED
  BY <1>3, <1>4
-----------------------------------------------------------------------------
(* The estimates are whole ticks still to come.                            *)
LEMMA EstimatesAre ==
  ASSUME NEW t \in Counter, NEW tm \in Timings
  PROVE  Estimates(t, tm) \subseteq Nat \ {0}
<1>1. t.counter \in 0 .. Wrap - 1 /\ t.target \in 0 .. Wrap - 1 /\ Wrap \in Nat
  BY TimersAssumption DEF Counter
<1>2. ToTarget(t) \cup ToWrap(t) \cup ToTargetAfterReset(t) \subseteq Nat \ {0}
  BY <1>1 DEF ToTarget, ToWrap, ToTargetAfterReset, Past
<1> QED
  BY <1>2 DEF Estimates

(* A wake-up is not in the past; and of a counter that has caught up and   *)
(* counted something, it is ahead.                                         *)
LEMMA DeadlineIsAhead ==
  ASSUME NEW t \in Counter, NEW tm \in Timings, Estimates(t, tm) # {}
  PROVE  /\ ToDeadline(t, tm) \in Nat
         /\ t.age = 0 /\ t.frac < Num(t, tm) => ToDeadline(t, tm) > 0
<1> DEFINE E == Estimates(t, tm)
           m == Min(E)
           num == Num(t, tm)
           den == Den(t, tm)
           parts == m * num - t.frac
           up == CeilDiv(parts, den)
           d == up - t.age
<1>1. num \in Nat /\ num > 0 /\ den \in Nat /\ den > 0 /\ t.frac \in Nat /\ t.age \in Nat
  BY RatioIs DEF Counter
<1>2. m \in Nat /\ m > 0
  <2>1. E \subseteq Nat /\ E # {} /\ 0 \notin E
    BY EstimatesAre
  <2> HIDE DEF E
  <2>2. \E x \in E : \A y \in E : x <= y
    BY <2>1, NatLeast
  <2>3. Min(E) \in E
    BY <2>2 DEF Min
  <2>4. \A x \in E : x \in Nat /\ x > 0
    BY <2>1
  <2>5. m \in E
    BY <2>3
  <2> HIDE DEF m
  <2> QED
    BY <2>4, <2>5
<1> HIDE DEF num, den, m
<1>3. m * num \in Nat /\ m * num >= num
  BY <1>1, <1>2
<1>4. parts \in Int /\ (t.frac < num => parts > 0)
  BY <1>1, <1>3
<1> HIDE DEF parts
<1>5. up \in Int /\ (parts > 0 => up > 0)
  <2>1. PICK a : a = parts + den - 1
    OBVIOUS
  <2>2. a \in Int /\ up = a \div den
    BY <1>1, <1>4, <2>1 DEF CeilDiv
  <2>3. a \div den \in Int
    BY <1>1, <2>2
  <2>4. ASSUME parts > 0 PROVE a \div den > 0
    <3>1. a \in Nat /\ a >= den
      BY <1>1, <1>4, <2>1, <2>4
    <3>2. a \div den \in Nat /\ a % den \in 0 .. den - 1 /\ a = den * (a \div den) + (a % den)
      BY <1>1, <3>1, DivIs
    <3> QED
      BY <1>1, <3>1, <3>2
  <2> QED
    BY <2>2, <2>3, <2>4
<1> HIDE DEF up
<1>6. Max({0, d}) = IF d > 0 THEN d ELSE 0
  <2>1. d \in Int
    BY <1>1, <1>5
  <2> HIDE DEF d
  <2> QED
    BY <2>1 DEF Max
<1>7. ToDeadline(t, tm) = Max({0, d})
  BY DEF ToDeadline, parts, up, num, den, m
<1>8. d \in Int /\ (t.age = 0 /\ t.frac < num => d > 0)
  BY <1>1, <1>4, <1>5
<1> HIDE DEF d
<1> QED
  BY <1>6, <1>7, <1>8 DEF num

(* Arming adds no wake-up but the deadline.                                *)
LEMMA ArmKeeps ==
  ASSUME NEW t \in Counter, NEW tm \in Timings, NEW w, w \subseteq Nat
  PROVE  /\ Arm(w, t, tm) \subseteq Nat
         /\ t.age = 0 /\ t.frac < Num(t, tm) /\ 0 \notin w => 0 \notin Arm(w, t, tm)
<1>1. CASE Estimates(t, tm) = {}
  BY <1>1 DEF Arm
<1>2. CASE Estimates(t, tm) # {}
  <2> DEFINE d == ToDeadline(t, tm)
             ahead == t.age = 0 /\ t.frac < Num(t, tm)
  <2>1. d \in Nat /\ (ahead => d > 0)
    BY <1>2, DeadlineIsAhead
  <2>2. Arm(w, t, tm) = w \/ Arm(w, t, tm) = w \cup {d}
    BY DEF Arm
  <2> HIDE DEF d
  <2>3. Arm(w, t, tm) \subseteq Nat
    BY <2>1, <2>2
  <2>4. ASSUME ahead, 0 \notin w PROVE 0 \notin Arm(w, t, tm)
    <3>1. d > 0
      BY <2>1, <2>4
    <3> HIDE DEF ahead
    <3> QED
      BY <2>1, <2>2, <2>4, <3>1
  <2> QED
    BY <2>3, <2>4
<1> QED
  BY <1>1, <1>2
-----------------------------------------------------------------------------
(* The counter's types, the wake-ups ahead of it.                          *)
IInv ==
  /\ timing \in Timings /\ field \in Nat /\ phase \in 0 .. field
  /\ timer \in Counter /\ timer.mode \in Modes /\ timer.age <= phase
  /\ wakes \subseteq Nat /\ 0 \notin wakes

(* An instruction ends: whatever its access left, if it is of the types.   *)
LEMMA EndStepKeeps ==
  ASSUME NEW t \in Counter, t.mode \in Modes, t.age <= phase, phase \in Nat, field \in Nat,
         NEW w, w \subseteq Nat, NEW tm \in Timings, NEW n \in Cost, EndStep(t, w, tm, n)
  PROVE  IInv'
<1> DEFINE now == phase + n
           vblank == now >= field
           woken == \E e \in w : e <= n
           left == {e - n : e \in {x \in w : x > n}}
           age == t.age + n
           later == [t EXCEPT !.age = age]
           closed == IF vblank THEN SyncAll(later, now, tm) ELSE later
           caught == CatchUp(closed, now, tm)
           next == IF woken THEN caught ELSE closed
<1>1. n \in Nat /\ n > 0 /\ t.age \in Nat /\ now \in Nat /\ age \in Nat /\ age > 0 /\ age <= now
  BY TimersAssumption DEF Counter
<1>2. later \in Counter /\ SameSetting(t, later) /\ later.age = age
  <2> HIDE DEF age
  <2> QED
    BY <1>1 DEF Counter, SameSetting
<1>3. left \subseteq Nat /\ 0 \notin left
  <2>1. \A x \in w : x > n => x - n \in Nat /\ x - n # 0
    BY <1>1
  <2>2. \A e \in left : \E x \in w : x > n /\ e = x - n
    OBVIOUS
  <2> HIDE DEF left
  <2> QED
    BY <2>1, <2>2
<1> HIDE DEF age, later, now
<1>4. /\ closed \in Counter /\ SameSetting(t, closed) /\ closed.age <= now
      /\ vblank => closed.age = 0 /\ closed.frac < Num(closed, tm)
      /\ ~vblank => closed.age = age
  <2>1. LET u == CatchUp(later, now, tm) IN
          /\ u \in Counter /\ SameSetting(later, u) /\ u.age = 0
          /\ later.age > 0 => u.frac < Num(u, tm)
    BY <1>1, <1>2, CatchUpKeeps
  <2>2. vblank => closed = CatchUp(later, now, tm)
    BY DEF SyncAll
  <2>3. ~vblank => closed = later
    OBVIOUS
  <2> HIDE DEF closed, vblank
  <2> QED
    BY <1>1, <1>2, <2>1, <2>2, <2>3 DEF SameSetting
<1>5. /\ caught \in Counter /\ SameSetting(t, caught) /\ caught.age = 0
      /\ caught.frac < Num(caught, tm)
  <2>1. /\ caught \in Counter /\ SameSetting(closed, caught) /\ caught.age = 0
        /\ closed.age > 0 => caught.frac < Num(caught, tm)
    <3> HIDE DEF closed, vblank
    <3> QED
      BY <1>1, <1>4, CatchUpKeeps
  <2>2. SameSetting(t, caught)
    BY <1>4, <2>1 DEF SameSetting
  <2>3. CASE vblank
    <3>1. closed.age = 0 /\ closed.frac < Num(closed, tm)
      BY <1>4, <2>3
    <3>2. caught = closed
      <4> HIDE DEF closed
      <4>1. now - 0 = now /\ now \in now .. now
        BY <1>1
      <4> QED
        BY <1>1, <1>4, <3>1, <4>1, CaughtUpAlready
    <3> QED
      BY <2>1, <2>2, <3>1, <3>2
  <2>4. CASE ~vblank
    <3>1. closed.age > 0
      BY <1>1, <1>4, <2>4
    <3> QED
      BY <2>1, <2>2, <3>1
  <2> QED
    BY <2>3, <2>4
<1>6. /\ timer' = next /\ wakes' = IF woken THEN Arm(left, timer', tm) ELSE left
      /\ phase' = IF vblank THEN 0 ELSE now
      /\ field' = IF vblank THEN tm.period * tm.lines ELSE field
      /\ timing' = tm
  BY DEF EndStep, later, now, age
<1>7. tm.period * tm.lines \in Nat
  <2>1. tm.period \in Nat /\ tm.lines \in Nat
    BY TimersAssumption
  <2> QED
    BY <2>1
<1>8. next \in Counter /\ SameSetting(t, next) /\ (woken => next = caught) /\ (~woken => next = closed)
  <2> HIDE DEF closed, caught, woken
  <2> QED
    BY <1>4, <1>5
<1>9. wakes' \subseteq Nat /\ 0 \notin wakes'
  <2>1. CASE woken
    <3>1. timer' = caught /\ wakes' = Arm(left, caught, tm)
      BY <1>6, <2>1
    <3> HIDE DEF caught, left
    <3> QED
      BY <1>3, <1>5, <3>1, ArmKeeps
  <2>2. CASE ~woken
    BY <1>3, <1>6, <2>2
  <2> QED
    BY <2>1, <2>2
<1>10. next.age <= phase' /\ phase' \in 0 .. field' /\ field' \in Nat
  <2> HIDE DEF closed, caught, woken, next
  <2>1. CASE vblank
    <3>1. next.age = 0 /\ phase' = 0 /\ field' = tm.period * tm.lines
      BY <1>4, <1>5, <1>6, <1>8, <2>1
    <3> QED
      BY <1>7, <3>1
  <2>2. CASE ~vblank
    <3>1. next.age <= now /\ phase' = now /\ field' = field
      BY <1>1, <1>4, <1>5, <1>6, <1>8, <2>2
    <3> QED
      BY <1>1, <2>2, <3>1
  <2> QED
    BY <2>1, <2>2
<1>11. next.mode \in Modes
  <2> HIDE DEF next
  <2> QED
    BY <1>8 DEF SameSetting
<1> HIDE DEF next
<1> QED
  BY <1>6, <1>8, <1>9, <1>10, <1>11 DEF IInv

(* The counter as an instruction finds it, and caught up.                  *)
LEMMA SyncedIs ==
  ASSUME IInv
  PROVE  /\ Quiet(timer) \in Counter /\ Quiet(timer).mode \in Modes /\ Quiet(timer).age <= phase
         /\ Synced \in Counter /\ Synced.mode \in Modes /\ Synced.age = 0 /\ phase \in Nat
<1> DEFINE q == Quiet(timer)
<1>1. q \in Counter /\ q.mode \in Modes /\ q.age <= phase
  BY DEF IInv, Quiet, Counter
<1>2. phase \in Nat /\ timing \in Timings
  BY DEF IInv
<1>3. Synced = CatchUp(q, phase, timing)
  BY DEF Synced
<1> HIDE DEF q
<1>4. Synced \in Counter /\ SameSetting(q, Synced) /\ Synced.age = 0
  BY <1>1, <1>2, <1>3, CatchUpKeeps
<1> QED
  BY <1>1, <1>2, <1>4 DEF SameSetting, q

(* A register is written: what it makes of the counter that has caught up  *)
(* is of the types.                                                        *)
LEMMA WriteKeeps ==
  ASSUME IInv, NEW t \in Counter, t.mode \in Modes, t.age = 0, NEW n \in Cost,
         EndStep(t, Arm(wakes, t, timing), timing, n)
  PROVE  IInv'
<1>1. /\ timing \in Timings /\ field \in Nat /\ phase \in Nat /\ wakes \subseteq Nat
      /\ t.age <= phase
  BY DEF IInv
<1>2. Arm(wakes, t, timing) \subseteq Nat
  BY <1>1, ArmKeeps
<1> QED
  BY <1>1, <1>2, EndStepKeeps

(* The counter starts with no wake-up and keeps those it has ahead of it.  *)
LEMMA IInvInit == Init => IInv
<1> SUFFICES ASSUME Init PROVE IInv
  OBVIOUS
<1>1. timing \in Timings /\ timing.period \in Nat /\ timing.lines \in Nat
  BY TimersAssumption DEF Init
<1>2. timing.period * timing.lines \in Nat
  BY <1>1
<1>3. PowerOnMode \in Modes /\ PowerOnMode \in Mode /\ 0 \in 0 .. Wrap - 1
  BY TimersAssumption
<1>4. timer \in Counter /\ timer.mode \in Modes /\ timer.age = 0
  BY <1>3 DEF Init, Counter
<1> QED
  BY <1>1, <1>2, <1>4 DEF Init, IInv

LEMMA IInvStep == IInv /\ [Next]_vars => IInv'
<1> SUFFICES ASSUME IInv, [Next]_vars PROVE IInv'
  OBVIOUS
<1>1. /\ Quiet(timer) \in Counter /\ Quiet(timer).mode \in Modes /\ Quiet(timer).age <= phase
      /\ Synced \in Counter /\ Synced.mode \in Modes /\ Synced.age = 0 /\ phase \in Nat
  BY SyncedIs
<1>2. timing \in Timings /\ field \in Nat /\ wakes \subseteq Nat
  BY DEF IInv
<1>3. CASE Compute
  <2>1. PICK n \in Cost : EndStep(Quiet(timer), wakes, timing, n)
    BY <1>3 DEF Compute
  <2> QED
    BY <1>1, <1>2, <2>1, EndStepKeeps
<1>4. CASE Read
  <2>1. PICK n \in Cost : EndStep(Synced, wakes, timing, n)
    BY <1>4 DEF Read
  <2>2. Synced.age <= phase
    BY <1>1
  <2> QED
    BY <1>1, <1>2, <2>1, <2>2, EndStepKeeps
<1>5. CASE WriteCounter
  <2> DEFINE t(v) == [Synced EXCEPT !.counter = v]
  <2>1. PICK v \in Counts, n \in Cost : EndStep(t(v), Arm(wakes, t(v), timing), timing, n)
    BY <1>5 DEF WriteCounter, Write
  <2>2. v \in 0 .. Wrap - 1
    BY TimersAssumption
  <2>3. t(v) \in Counter /\ t(v).mode \in Modes /\ t(v).age = 0
    BY <1>1, <2>2 DEF Counter
  <2> HIDE DEF t
  <2> QED
    BY <2>1, <2>3, WriteKeeps
<1>6. CASE WriteTarget
  <2> DEFINE t(v) == [Synced EXCEPT !.target = v]
  <2>1. PICK v \in Targets, n \in Cost : EndStep(t(v), Arm(wakes, t(v), timing), timing, n)
    BY <1>6 DEF WriteTarget, Write
  <2>2. v \in 0 .. Wrap - 1
    BY TimersAssumption
  <2>3. t(v) \in Counter /\ t(v).mode \in Modes /\ t(v).age = 0
    BY <1>1, <2>2 DEF Counter
  <2> HIDE DEF t
  <2> QED
    BY <2>1, <2>3, WriteKeeps
<1>7. CASE WriteMode
  <2> DEFINE t(m) == [Synced EXCEPT !.mode = m, !.counter = 0, !.frac = 0,
                                    !.sync_started = FALSE, !.irq_fired = FALSE, !.line = TRUE]
  <2>1. PICK m \in Modes, n \in Cost : EndStep(t(m), Arm(wakes, t(m), timing), timing, n)
    BY <1>7 DEF WriteMode, Write
  <2>2. m \in Mode /\ 0 \in 0 .. Wrap - 1
    BY TimersAssumption
  <2>3. t(m) \in Counter /\ t(m).mode \in Modes /\ t(m).age = 0
    BY <1>1, <2>2 DEF Counter
  <2> HIDE DEF t
  <2> QED
    BY <2>1, <2>3, WriteKeeps
<1>8. CASE WriteGp1
  <2>1. PICK n \in Cost, tm \in Timings : EndStep(Quiet(timer), Arm(wakes, timer, tm), tm, n)
    BY <1>8 DEF WriteGp1
  <2>2. Arm(wakes, timer, tm) \subseteq Nat
    BY <1>2, ArmKeeps DEF IInv
  <2> QED
    BY <1>1, <1>2, <2>1, <2>2, EndStepKeeps
<1>9. CASE UNCHANGED vars
  BY <1>9 DEF vars, IInv
<1> QED
  BY <1>3, <1>4, <1>5, <1>6, <1>7, <1>8, <1>9 DEF Next

(* However the program sets the counter up, whatever its instructions cost *)
(* and whenever it changes the video timing, every wake-up the scheduler   *)
(* holds for it is ahead: a wake-up that is served is never replaced by    *)
(* one that is due already, which would be served for ever.                *)
THEOREM WakesMoveOn == Spec => []MovesOn
<1>1. IInv => MovesOn
  <2> SUFFICES ASSUME IInv PROVE MovesOn
    OBVIOUS
  <2>1. \A e \in wakes : e > 0
    BY DEF IInv
  <2>2. /\ timer.target \in 0 .. Wrap - 1 /\ timer.counter \in 0 .. Wrap - 1
        /\ timer.frac \in Nat /\ timer.age \in Nat
        /\ {timer.sync_started, timer.irq_fired, timer.line, timer.raised} \subseteq BOOLEAN
    BY DEF IInv, Counter
  <2>3. timer.age \in 0 .. phase
    BY <2>2 DEF IInv
  <2>4. TypeOK
    BY <2>2, <2>3 DEF IInv, TypeOK
  <2> QED
    BY <2>1, <2>4 DEF MovesOn, WakeMovesOn
<1> QED
  BY <1>1, IInvInit, IInvStep, PTL DEF Spec
=============================================================================
