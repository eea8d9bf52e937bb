------------------------- MODULE AtomicStore_proofs -------------------------
(***************************************************************************)
(* What the recursive function Reached of AtomicStore computes.            *)
(***************************************************************************)
EXTENDS AtomicStore, WellFoundedInduction, TLAPS

\* Induction over a set of naturals.
LEMMA NatSetInduction ==
  ASSUME NEW S, 0 \in S, \A n \in Nat : n \in S => n + 1 \in S
  PROVE  Nat \subseteq S
<1> SUFFICES ASSUME Nat \ S # {}
             PROVE  FALSE
  OBVIOUS
<1>1. PICK n \in Nat \ S : \A m \in Nat \ S : ~ <<m, n>> \in OpToRel(<, Nat)
  BY NatLessThanWellFounded, WFMin
<1>2. n # 0 /\ n - 1 \in Nat /\ n - 1 < n
  OBVIOUS
<1>3. n - 1 \in S
  BY <1>1, <1>2 DEF OpToRel
<1>4. (n - 1) + 1 = n
  BY <1>2
<1> QED BY <1>2, <1>3, <1>4

\* The body of after in the definition of Reached, and its equation up to n.
Body(f, tbl, ws, i) ==
  IF i = 0 THEN {tbl} ELSE UNION {Outcomes(tbl2, ws[i]) : tbl2 \in f[i - 1]}

Unfolds(f, tbl, ws, n) == f = [i \in 0 .. n |-> Body(f, tbl, ws, i)]

\* There is such a function.
LEMMA UnfoldsExists ==
  ASSUME NEW tbl, NEW ws, NEW n \in Nat
  PROVE  \E f : Unfolds(f, tbl, ws, n)
<1> DEFINE S == {m \in Nat : \E f : Unfolds(f, tbl, ws, m)}
<1>1. 0 \in S
  <2>1. Unfolds([i \in 0 .. 0 |-> {tbl}], tbl, ws, 0)
    BY DEF Unfolds, Body
  <2> QED BY <2>1
<1>2. ASSUME NEW m \in Nat, m \in S
      PROVE  m + 1 \in S
  <2>1. PICK f : Unfolds(f, tbl, ws, m)
    BY <1>2
  <2>2. \A i \in 0 .. m : f[i] = Body(f, tbl, ws, i)
    BY <2>1 DEF Unfolds
  <2> DEFINE g == [i \in 0 .. (m + 1) |->
                     IF i <= m THEN f[i] ELSE Body(f, tbl, ws, i)]
  <2>3. \A i \in 0 .. (m + 1) : g[i] = Body(f, tbl, ws, i)
    BY <2>2
  <2>4. \A i \in 0 .. m : g[i] = f[i]
    OBVIOUS
  <2>5. g = [i \in 0 .. (m + 1) |-> g[i]]
    OBVIOUS
  <2> HIDE DEF g
  <2>6. ASSUME NEW i \in 0 .. (m + 1)
        PROVE  Body(f, tbl, ws, i) = Body(g, tbl, ws, i)
    <3>1. CASE i = 0
      BY <3>1 DEF Body
    <3>2. CASE i # 0
      <4>1. g[i - 1] = f[i - 1]
        BY <2>4, <3>2
      <4> QED BY <3>2, <4>1 DEF Body
    <3> QED BY <3>1, <3>2
  <2>7. Unfolds(g, tbl, ws, m + 1)
    BY <2>3, <2>5, <2>6 DEF Unfolds
  <2> QED BY <2>7
<1> HIDE DEF S
<1>3. n \in S
  BY <1>1, <1>2, NatSetInduction
<1> QED BY <1>3 DEF S

(***************************************************************************)
(* Nothing is reached by no write but the table itself; one more write     *)
(* reaches the outcomes of that write on every table reached before.       *)
(***************************************************************************)
LEMMA ReachedSteps ==
  ASSUME NEW tbl, NEW ws, Len(ws) \in Nat
  PROVE  /\ Reached(tbl, ws)[0] = {tbl}
         /\ \A n \in 1 .. Len(ws) :
              Reached(tbl, ws)[n] =
                UNION {Outcomes(tbl2, ws[n]) : tbl2 \in Reached(tbl, ws)[n - 1]}
<1> DEFINE f == Reached(tbl, ws)
<1>1. f = CHOOSE g : Unfolds(g, tbl, ws, Len(ws))
  BY DEF Reached, Unfolds, Body
<1>2. Unfolds(f, tbl, ws, Len(ws))
  BY <1>1, UnfoldsExists
<1> HIDE DEF f
<1>3. ASSUME NEW n \in 0 .. Len(ws)
      PROVE  f[n] = Body(f, tbl, ws, n)
  BY <1>2 DEF Unfolds
<1>4. 0 \in 0 .. Len(ws) /\ \A n \in 1 .. Len(ws) : n \in 0 .. Len(ws) /\ n # 0
  OBVIOUS
<1>5. f[0] = {tbl}
  BY <1>3, <1>4 DEF Body
<1>6. ASSUME NEW n \in 1 .. Len(ws)
      PROVE  f[n] = UNION {Outcomes(tbl2, ws[n]) : tbl2 \in f[n - 1]}
  <2>1. f[n] = Body(f, tbl, ws, n)
    BY <1>3, <1>4
  <2> QED BY <1>4, <2>1 DEF Body
<1> QED BY <1>5, <1>6 DEF f

\* Table a at the paths in U, table b at the others.
Mix(U, a, b) == [p \in Paths |-> IF p \in U THEN a[p] ELSE b[p]]

(***************************************************************************)
(* What happens at paths that the writes leave alone, but for deletes that *)
(* may find nothing there, does not matter to what they reach elsewhere.   *)
(***************************************************************************)
LEMMA ReachedElsewhere ==
  ASSUME ~Isolated, NEW ws, Len(ws) \in Nat, NEW n \in 0 .. Len(ws),
         \A i \in 1 .. Len(ws) : ws[i].path \in Paths,
         NEW U, \A i \in 1 .. n : ws[i].path \in U => ws[i].kind = "delete",
         NEW a, NEW b, a = [p \in Paths |-> a[p]], b = [p \in Paths |-> b[p]],
         \A p \in Paths \ U : a[p] = b[p],
         NEW tbl \in Reached(b, ws)[n]
  PROVE  Mix(U, a, tbl) \in Reached(a, ws)[n]
<1> DEFINE Good(m) == \A t \in Reached(b, ws)[m] : Mix(U, a, t) \in Reached(a, ws)[m]
           S == {m \in Nat : m <= n => Good(m)}
<1>1. n \in Nat /\ n <= Len(ws)
  OBVIOUS
<1>2. 0 \in S
  <2>1. Reached(b, ws)[0] = {b} /\ Reached(a, ws)[0] = {a}
    BY ReachedSteps
  <2>2. Mix(U, a, b) = a
    BY DEF Mix
  <2> QED BY <2>1, <2>2
<1>3. ASSUME NEW m \in Nat, m + 1 <= n, Good(m)
      PROVE  Good(m + 1)
  <2> SUFFICES ASSUME NEW t2 \in Reached(b, ws)[m + 1]
               PROVE  Mix(U, a, t2) \in Reached(a, ws)[m + 1]
    OBVIOUS
  <2>1. m + 1 \in 1 .. Len(ws) /\ m + 1 \in 1 .. n /\ (m + 1) - 1 = m
    <3> HIDE DEF Good
    <3>1. m + 1 <= n
      BY <1>3
    <3>2. m \in Nat /\ n \in Nat /\ Len(ws) \in Nat /\ n <= Len(ws)
      BY <1>1
    <3> QED BY <3>1, <3>2
  <2>2. ASSUME NEW x
        PROVE  Reached(x, ws)[m + 1] =
                 UNION {Outcomes(t, ws[m + 1]) : t \in Reached(x, ws)[m]}
    <3>1. Reached(x, ws)[m + 1] =
            UNION {Outcomes(t, ws[m + 1]) : t \in Reached(x, ws)[(m + 1) - 1]}
      BY <2>1, ReachedSteps
    <3> QED BY <2>1, <3>1
  <2> DEFINE w == ws[m + 1]
  <2>3. PICK t \in Reached(b, ws)[m] : t2 \in Outcomes(t, w)
    <3>1. Reached(b, ws)[m + 1] = UNION {Outcomes(t, w) : t \in Reached(b, ws)[m]}
      BY <2>2
    <3> QED BY <3>1
  <2>4. Mix(U, a, t) \in Reached(a, ws)[m]
    BY <1>3, <2>3
  <2>5. w.path \in Paths /\ (w.path \in U => w.kind = "delete")
    BY <2>1
  <2> HIDE DEF w
  <2>6. PICK r \in RowOutcomes(t[w.path], w.kind) :
          t2 = [p \in Paths |-> IF p = w.path THEN r ELSE t[p]]
    BY <2>3 DEF Outcomes
  <2>7. Mix(U, a, t2) \in Outcomes(Mix(U, a, t), w)
    <3>1. CASE w.path \in U
      <4>1. Mix(U, a, t)[w.path] \in RowOutcomes(Mix(U, a, t)[w.path], w.kind)
        BY <2>5, <3>1 DEF RowOutcomes
      <4>2. Mix(U, a, t2) = [p \in Paths |-> IF p = w.path THEN Mix(U, a, t)[w.path]
                                             ELSE Mix(U, a, t)[p]]
        BY <2>5, <2>6, <3>1 DEF Mix
      <4> QED BY <4>1, <4>2 DEF Outcomes
    <3>2. CASE w.path \notin U
      <4>1. Mix(U, a, t)[w.path] = t[w.path]
        BY <2>5, <3>2 DEF Mix
      <4>2. Mix(U, a, t2) = [p \in Paths |-> IF p = w.path THEN r
                                             ELSE Mix(U, a, t)[p]]
        BY <2>5, <2>6, <3>2 DEF Mix
      <4> QED BY <2>6, <4>1, <4>2 DEF Outcomes
    <3> QED BY <3>1, <3>2
  <2> QED BY <2>2, <2>4, <2>7 DEF w
<1>4. ASSUME NEW m \in Nat, m \in S
      PROVE  m + 1 \in S
  <2> HIDE DEF Good
  <2>1. m + 1 \in Nat /\ (m + 1 <= n => m <= n)
    BY <1>1
  <2> QED BY <1>3, <1>4, <2>1
<1> HIDE DEF S
<1>5. n \in S
  BY <1>1, <1>2, <1>4, NatSetInduction
<1>6. Good(n)
  <2> HIDE DEF Good
  <2>1. n <= n
    BY <1>1
  <2> QED BY <1>5, <2>1 DEF S
<1> QED BY <1>6

=============================================================================
