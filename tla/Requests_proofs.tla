-------------------------- MODULE Requests_proofs --------------------------
(***************************************************************************)
(* Proofs about Requests: what a write does to the fields of a document at *)
(* every path, for every document, mask and list of transforms; results    *)
(* and statuses of lists of writes of any length; names of REST URLs of    *)
(* any depth; the sweep at any two times; listings and queries of any      *)
(* length, whatever their filters, orders, cursors and page sizes; counts. *)
(***************************************************************************)
EXTENDS Requests, FiniteSetTheorems, SequenceTheorems, WellFoundedInduction, TLAPS

\* Induction over a set of naturals.
LEMMA NatSetInduction ==
  ASSUME NEW S, 0 \in S, \A n \in Nat : n \in S => n + 1 \in S
  PROVE  Nat \subseteq S
<1> SUFFICES ASSUME Nat \ S # {}
             PROVE  FALSE
  OBVIOUS
<1>1. PICK n \in Nat \ S : \A m \in Nat \ S : ~ <<m, n>> \in OpToRel(<, Nat)
  BY NatLessThanWellFounded, WFMin
<1>2. n # 0 /\ n - 1 \in Nat /\ n - 1 < n
  OBVIOUS
<1>3. n - 1 \in S
  BY <1>1, <1>2 DEF OpToRel
<1>4. (n - 1) + 1 = n
  BY <1>2
<1> QED BY <1>2, <1>3, <1>4

-----------------------------------------------------------------------------
(***************************************************************************)
(* Reading a field path.                                                   *)
(***************************************************************************)

\* The body of vals in ValuesAlong.
ValueBody(f, fields, path, i) ==
  IF i = 0 THEN Val("map", fields) ELSE Entry(f[i - 1], path[i])

IsAlong(f, fields, path, n) == f = [i \in 0 .. n |-> ValueBody(f, fields, path, i)]

LEMMA IsAlongExists ==
  ASSUME NEW fields, NEW path, NEW n \in Nat
  PROVE  \E f : IsAlong(f, fields, path, n)
<1> DEFINE S == {m \in Nat : \E f : IsAlong(f, fields, path, m)}
<1>1. 0 \in S
  <2>1. IsAlong([i \in 0 .. 0 |-> Val("map", fields)], fields, path, 0)
    BY DEF IsAlong, ValueBody
  <2> QED BY <2>1
<1>2. ASSUME NEW m \in Nat, m \in S
      PROVE  m + 1 \in S
  <2>1. PICK f : IsAlong(f, fields, path, m)
    BY <1>2
  <2>2. \A i \in 0 .. m : f[i] = ValueBody(f, fields, path, i)
    BY <2>1 DEF IsAlong
  <2> DEFINE g == [i \in 0 .. (m + 1) |->
                     IF i <= m THEN f[i] ELSE ValueBody(f, fields, path, i)]
  <2>3. \A i \in 0 .. (m + 1) : g[i] = ValueBody(f, fields, path, i)
    BY <2>2
  <2>4. \A i \in 0 .. m : g[i] = f[i]
    OBVIOUS
  <2>5. g = [i \in 0 .. (m + 1) |-> g[i]]
    OBVIOUS
  <2> HIDE DEF g
  <2>6. ASSUME NEW i \in 0 .. (m + 1)
        PROVE  ValueBody(f, fields, path, i) = ValueBody(g, fields, path, i)
    <3>1. CASE i = 0
      BY <3>1 DEF ValueBody
    <3>2. CASE i # 0
      <4>1. g[i - 1] = f[i - 1]
        BY <2>4, <3>2
      <4> QED BY <3>2, <4>1 DEF ValueBody
    <3> QED BY <3>1, <3>2
  <2>7. IsAlong(g, fields, path, m + 1)
    BY <2>3, <2>5, <2>6 DEF IsAlong
  <2> QED BY <2>7
<1> HIDE DEF S
<1>3. n \in S
  BY <1>1, <1>2, NatSetInduction
<1> QED BY <1>3 DEF S

\* A path is read name by name.
LEMMA ValuesSteps ==
  ASSUME NEW fields, NEW path, Len(path) \in Nat
  PROVE  /\ ValuesAlong(fields, path)[0] = Val("map", fields)
         /\ \A i \in 1 .. Len(path) :
              ValuesAlong(fields, path)[i] = Entry(ValuesAlong(fields, path)[i - 1], path[i])
<1> DEFINE f == ValuesAlong(fields, path)
<1>1. f = CHOOSE g : IsAlong(g, fields, path, Len(path))
  BY DEF ValuesAlong, IsAlong, ValueBody
<1>2. IsAlong(f, fields, path, Len(path))
  BY <1>1, IsAlongExists
<1> HIDE DEF f
<1>3. ASSUME NEW i \in 0 .. Len(path)
      PROVE  f[i] = ValueBody(f, fields, path, i)
  BY <1>2 DEF IsAlong
<1>4. f[0] = Val("map", fields)
  BY <1>3 DEF ValueBody
<1>5. ASSUME NEW i \in 1 .. Len(path)
      PROVE  f[i] = Entry(f[i - 1], path[i])
  <2>1. i \in 0 .. Len(path) /\ i # 0
    OBVIOUS
  <2> QED BY <1>3, <2>1 DEF ValueBody
<1> QED BY <1>4, <1>5 DEF f

\* Two paths have the same names from the j-th to the k-th.
SameNames(p, q, j, k) == \A i \in (j + 1) .. k : p[i] = q[i]

\* Two readings that meet, and see the same names from there on, stay together.
LEMMA ReadingsMeet ==
  ASSUME NEW a, NEW b, NEW p, NEW q, Len(p) \in Nat, Len(q) \in Nat,
         NEW j \in Nat, NEW k \in Nat, j <= k, k <= Len(p), k <= Len(q),
         ValuesAlong(a, p)[j] = ValuesAlong(b, q)[j],
         SameNames(p, q, j, k)
  PROVE  ValuesAlong(a, p)[k] = ValuesAlong(b, q)[k]
<1> DEFINE S == {n \in Nat : j + n <= k =>
                    ValuesAlong(a, p)[j + n] = ValuesAlong(b, q)[j + n]}
<1>1. 0 \in S
  <2>1. j + 0 = j
    OBVIOUS
  <2> QED BY <2>1
<1>2. ASSUME NEW n \in Nat, n \in S
      PROVE  n + 1 \in S
  <2> SUFFICES ASSUME j + (n + 1) <= k
               PROVE  ValuesAlong(a, p)[j + (n + 1)] = ValuesAlong(b, q)[j + (n + 1)]
    OBVIOUS
  <2>1. /\ j + (n + 1) \in 1 .. Len(p) /\ j + (n + 1) \in 1 .. Len(q)
        /\ j + (n + 1) \in (j + 1) .. k
        /\ (j + (n + 1)) - 1 = j + n
        /\ j + n <= k
    OBVIOUS
  <2>2. ValuesAlong(a, p)[j + (n + 1)] = Entry(ValuesAlong(a, p)[j + n], p[j + (n + 1)])
    BY <2>1, ValuesSteps
  <2>4. p[j + (n + 1)] = q[j + (n + 1)]
    BY <2>1 DEF SameNames
  <2>3. ValuesAlong(b, q)[j + (n + 1)] = Entry(ValuesAlong(b, q)[j + n], q[j + (n + 1)])
    BY <2>1, ValuesSteps
  <2> QED BY <1>2, <2>1, <2>2, <2>3, <2>4
<1> HIDE DEF S
<1>3. k - j \in S
  BY <1>1, <1>2, NatSetInduction
<1>4. j + (k - j) = k
  OBVIOUS
<1> QED BY <1>3, <1>4 DEF S

\* A path that is not a prefix of another leaves it at some first name.
LEMMA FirstApart ==
  ASSUME NEW p \in Seq(STRING), NEW q \in Seq(STRING), ~Related(p, q)
  PROVE  \E k \in Nat : /\ k < Len(p) /\ k < Len(q)
                        /\ \A i \in 1 .. k : p[i] = q[i]
                        /\ p[k + 1] # q[k + 1]
<1> DEFINE S == {n \in Nat : n <= Len(p) /\ n <= Len(q) => \A i \in 1 .. n : p[i] = q[i]}
<1> SUFFICES ASSUME \A k \in Nat : (k < Len(p) /\ k < Len(q) /\ \A i \in 1 .. k : p[i] = q[i])
                                     => p[k + 1] = q[k + 1]
             PROVE  FALSE
  OBVIOUS
<1>1. 0 \in S
  OBVIOUS
<1>2. ASSUME NEW n \in Nat, n \in S
      PROVE  n + 1 \in S
  <2> SUFFICES ASSUME n + 1 <= Len(p), n + 1 <= Len(q), NEW i \in 1 .. (n + 1)
               PROVE  p[i] = q[i]
    OBVIOUS
  <2>1. \A h \in 1 .. n : p[h] = q[h]
    BY <1>2
  <2>2. n < Len(p) /\ n < Len(q)
    OBVIOUS
  <2>3. i \in 1 .. n \/ i = n + 1
    OBVIOUS
  <2> QED BY <2>1, <2>2, <2>3
<1> HIDE DEF S
<1>3. Nat \subseteq S
  BY <1>1, <1>2, NatSetInduction
<1>4. CASE Len(p) <= Len(q)
  <2>1. \A i \in 1 .. Len(p) : p[i] = q[i]
    BY <1>3, <1>4 DEF S
  <2>2. SubSeq(p, 1, Len(p)) = SubSeq(q, 1, Len(p))
    BY <1>4, <2>1
  <2> QED BY <1>4, <2>2 DEF Related, IsPrefix
<1>5. CASE Len(q) <= Len(p)
  <2>1. \A i \in 1 .. Len(q) : p[i] = q[i]
    BY <1>3, <1>5 DEF S
  <2>2. SubSeq(q, 1, Len(q)) = SubSeq(p, 1, Len(q))
    BY <1>5, <2>1
  <2> QED BY <1>5, <2>2 DEF Related, IsPrefix
<1> QED BY <1>4, <1>5

LEMMA PrefixAgrees ==
  ASSUME NEW p \in Seq(STRING), NEW q \in Seq(STRING), IsPrefix(p, q)
  PROVE  Len(p) <= Len(q) /\ \A i \in 1 .. Len(p) : p[i] = q[i]
<1>1. Len(p) <= Len(q) /\ SubSeq(p, 1, Len(p)) = SubSeq(q, 1, Len(p))
  BY DEF IsPrefix
<1>2. ASSUME NEW i \in 1 .. Len(p)
      PROVE  p[i] = q[i]
  <2>1. SubSeq(p, 1, Len(p))[i] = p[i] /\ SubSeq(q, 1, Len(p))[i] = q[i]
    BY <1>1
  <2> QED BY <1>1, <2>1
<1> QED BY <1>1, <1>2

-----------------------------------------------------------------------------
(***************************************************************************)
(* Writing at a field path.                                                *)
(***************************************************************************)

\* A value of no kind is no value.
Whole(val) == val.kind = "absent" => val = Absent

\* A map with one field set reads as it did at its other names.
LEMMA ChildSet ==
  ASSUME NEW node, NEW name, NEW val, Whole(val), NEW x
  PROVE  Entry(Val("map", With(getNestedFields(node), name, val)), x) =
           IF x = name THEN val ELSE Entry(node, x)
<1> DEFINE f == getNestedFields(node)
           g == With(f, name, val)
<1>1. /\ DOMAIN g = (DOMAIN f \cup {name}) \ (IF val.kind = "absent" THEN {name} ELSE {})
      /\ \A y \in DOMAIN g : g[y] = IF y = name THEN val ELSE f[y]
  BY DEF With
<1>2. Val("map", g).kind = "map" /\ Val("map", g).is = g
  BY DEF Val
<1>3. Entry(node, x) = IF x \in DOMAIN f /\ f[x].kind # "absent" THEN f[x] ELSE Absent
  BY DEF Entry, getNestedFields, NoFields
<1>4. Entry(Val("map", g), x) = IF x \in DOMAIN g /\ g[x].kind # "absent" THEN g[x] ELSE Absent
  BY <1>2 DEF Entry
<1> HIDE DEF f, g
<1> QED BY <1>1, <1>3, <1>4 DEF f, g, Whole

NodeBody(f, fields, fp, val, n) ==
  IF n = 0 THEN val
  ELSE Val("map", With(getNestedFields(ValuesAlong(fields, fp)[Len(fp) - n]),
                       fp[Len(fp) - n + 1], f[n - 1]))

IsReplaced(f, fields, fp, val, n) == f = [i \in 0 .. n |-> NodeBody(f, fields, fp, val, i)]

LEMMA IsReplacedExists ==
  ASSUME NEW fields, NEW fp, NEW val, NEW n \in Nat
  PROVE  \E f : IsReplaced(f, fields, fp, val, n)
<1> DEFINE S == {m \in Nat : \E f : IsReplaced(f, fields, fp, val, m)}
<1>1. 0 \in S
  <2>1. IsReplaced([i \in 0 .. 0 |-> val], fields, fp, val, 0)
    BY DEF IsReplaced, NodeBody
  <2> QED BY <2>1
<1>2. ASSUME NEW m \in Nat, m \in S
      PROVE  m + 1 \in S
  <2>1. PICK f : IsReplaced(f, fields, fp, val, m)
    BY <1>2
  <2>2. \A i \in 0 .. m : f[i] = NodeBody(f, fields, fp, val, i)
    BY <2>1 DEF IsReplaced
  <2> DEFINE g == [i \in 0 .. (m + 1) |->
                     IF i <= m THEN f[i] ELSE NodeBody(f, fields, fp, val, i)]
  <2>3. \A i \in 0 .. (m + 1) : g[i] = NodeBody(f, fields, fp, val, i)
    BY <2>2
  <2>4. \A i \in 0 .. m : g[i] = f[i]
    OBVIOUS
  <2>5. g = [i \in 0 .. (m + 1) |-> g[i]]
    OBVIOUS
  <2> HIDE DEF g
  <2>6. ASSUME NEW i \in 0 .. (m + 1)
        PROVE  NodeBody(f, fields, fp, val, i) = NodeBody(g, fields, fp, val, i)
    <3>1. CASE i = 0
      BY <3>1 DEF NodeBody
    <3>2. CASE i # 0
      <4>1. g[i - 1] = f[i - 1]
        BY <2>4, <3>2
      <4> QED BY <3>2, <4>1 DEF NodeBody
    <3> QED BY <3>1, <3>2
  <2>7. IsReplaced(g, fields, fp, val, m + 1)
    BY <2>3, <2>5, <2>6 DEF IsReplaced
  <2> QED BY <2>7
<1> HIDE DEF S
<1>3. n \in S
  BY <1>1, <1>2, NatSetInduction
<1> QED BY <1>3 DEF S

\* What is replaced on the way up from the end of a path.
LEMMA ReplacedSteps ==
  ASSUME NEW fields, NEW fp, NEW val, Len(fp) \in Nat
  PROVE  /\ Replaced(fields, fp, val)[0] = val
         /\ \A n \in 1 .. Len(fp) :
              Replaced(fields, fp, val)[n] =
                Val("map", With(getNestedFields(ValuesAlong(fields, fp)[Len(fp) - n]),
                                fp[Len(fp) - n + 1], Replaced(fields, fp, val)[n - 1]))
<1> DEFINE f == Replaced(fields, fp, val)
<1>1. f = CHOOSE g : IsReplaced(g, fields, fp, val, Len(fp))
  BY DEF Replaced, IsReplaced, NodeBody
<1>2. IsReplaced(f, fields, fp, val, Len(fp))
  BY <1>1, IsReplacedExists
<1> HIDE DEF f
<1>3. ASSUME NEW i \in 0 .. Len(fp)
      PROVE  f[i] = NodeBody(f, fields, fp, val, i)
  BY <1>2 DEF IsReplaced
<1>4. f[0] = val
  BY <1>3 DEF NodeBody
<1>5. ASSUME NEW n \in 1 .. Len(fp)
      PROVE  f[n] = Val("map", With(getNestedFields(ValuesAlong(fields, fp)[Len(fp) - n]),
                                    fp[Len(fp) - n + 1], f[n - 1]))
  <2>1. n \in 0 .. Len(fp) /\ n # 0
    OBVIOUS
  <2> QED BY <1>3, <2>1 DEF NodeBody
<1> QED BY <1>4, <1>5 DEF f

\* Every one of them is a value, and the topmost is the new document.
LEMMA ReplacedWhole ==
  ASSUME NEW fields, NEW fp, NEW val, Len(fp) \in Nat, Whole(val)
  PROVE  /\ \A n \in 0 .. Len(fp) : Whole(Replaced(fields, fp, val)[n])
         /\ Len(fp) # 0 =>
              Val("map", nestedSetValue(fields, fp, val)) = Replaced(fields, fp, val)[Len(fp)]
<1> DEFINE R == Replaced(fields, fp, val)
           Under(n) == With(getNestedFields(ValuesAlong(fields, fp)[Len(fp) - n]),
                            fp[Len(fp) - n + 1], R[n - 1])
<1>1. \A f : /\ Val("map", f).kind = "map" /\ Val("map", f).is = f
             /\ Whole(Val("map", f))
  BY DEF Val, Whole
<1>2. R[0] = val /\ \A n \in 1 .. Len(fp) : R[n] = Val("map", Under(n))
  BY ReplacedSteps
<1> HIDE DEF R, Under
<1>3. ASSUME NEW n \in 0 .. Len(fp)
      PROVE  Whole(R[n])
  <2>1. CASE n = 0
    BY <1>2, <2>1
  <2>2. CASE n # 0
    <3>1. n \in 1 .. Len(fp)
      BY <2>2
    <3> QED BY <1>1, <1>2, <3>1
  <2> QED BY <2>1, <2>2
<1>4. ASSUME Len(fp) # 0
      PROVE  Val("map", nestedSetValue(fields, fp, val)) = R[Len(fp)]
  <2>1. Len(fp) \in 1 .. Len(fp)
    BY <1>4
  <2>2. R[Len(fp)] = Val("map", Under(Len(fp)))
    BY <1>2, <2>1
  <2>3. nestedSetValue(fields, fp, val) = R[Len(fp)].is
    BY DEF nestedSetValue, R
  <2> QED BY <1>1, <2>2, <2>3
<1> QED BY <1>3, <1>4 DEF R

\* Along the path itself the new document has what was replaced.
LEMMA AlongReplaced ==
  ASSUME NEW fields, NEW fp, Len(fp) \in Nat \ {0}, NEW val, Whole(val),
         NEW other, Len(other) \in Nat, NEW k \in Nat, k <= Len(fp), k <= Len(other),
         \A i \in 1 .. k : other[i] = fp[i]
  PROVE  ValuesAlong(nestedSetValue(fields, fp, val), other)[k] =
           Replaced(fields, fp, val)[Len(fp) - k]
<1> DEFINE new == nestedSetValue(fields, fp, val)
           R == Replaced(fields, fp, val)
           old == ValuesAlong(fields, fp)
           S == {n \in Nat : n <= k => ValuesAlong(new, other)[n] = R[Len(fp) - n]}
<1>1. /\ R[0] = val
      /\ \A n \in 1 .. Len(fp) :
           R[n] = Val("map", With(getNestedFields(old[Len(fp) - n]), fp[Len(fp) - n + 1], R[n - 1]))
  BY ReplacedSteps
<1>2. \A n \in 0 .. Len(fp) : Whole(R[n])
  BY ReplacedWhole
<1>3. Val("map", new) = R[Len(fp)]
  BY ReplacedWhole
<1>4. /\ ValuesAlong(new, other)[0] = Val("map", new)
      /\ \A i \in 1 .. Len(other) :
           ValuesAlong(new, other)[i] = Entry(ValuesAlong(new, other)[i - 1], other[i])
  BY ValuesSteps
<1> HIDE DEF new, R, old
<1>5. 0 \in S
  BY <1>3, <1>4
<1>6. ASSUME NEW n \in Nat, n \in S
      PROVE  n + 1 \in S
  <2> SUFFICES ASSUME n + 1 <= k
               PROVE  ValuesAlong(new, other)[n + 1] = R[Len(fp) - (n + 1)]
    OBVIOUS
  <2>1. /\ n + 1 \in 1 .. Len(other) /\ n + 1 \in 1 .. k /\ (n + 1) - 1 = n
        /\ Len(fp) - n \in 1 .. Len(fp)
        /\ (Len(fp) - n) - 1 = Len(fp) - (n + 1)
        /\ Len(fp) - (n + 1) \in 0 .. Len(fp)
        /\ Len(fp) - (Len(fp) - n) + 1 = n + 1
        /\ Len(fp) - (Len(fp) - n) = n
    OBVIOUS
  <2>2. ValuesAlong(new, other)[n] = R[Len(fp) - n]
    BY <1>6, <2>1
  <2>3. ValuesAlong(new, other)[n + 1] = Entry(R[Len(fp) - n], fp[n + 1])
    BY <1>4, <2>1, <2>2
  <2>4. R[Len(fp) - n] = Val("map", With(getNestedFields(old[n]), fp[n + 1], R[Len(fp) - (n + 1)]))
    BY <1>1, <2>1
  <2> QED BY <1>2, <2>1, <2>3, <2>4, ChildSet
<1> HIDE DEF S
<1>7. k \in S
  BY <1>5, <1>6, NatSetInduction
<1> QED BY <1>7 DEF S, new, R

(***************************************************************************)
(* At the path, and at every path below it, the document reads as the      *)
(* value that was set.                                                     *)
(***************************************************************************)
LEMMA SetThere ==
  ASSUME NEW fields, NEW fp \in Seq(STRING), fp # <<>>, NEW val, Whole(val),
         NEW other \in Seq(STRING), IsPrefix(fp, other)
  PROVE  ValuesAlong(nestedSetValue(fields, fp, val), other)[Len(fp)] = val
<1>1. Len(fp) <= Len(other) /\ \A i \in 1 .. Len(fp) : other[i] = fp[i]
  BY PrefixAgrees
<1>2. Len(fp) \in Nat \ {0} /\ Len(other) \in Nat /\ Len(fp) - Len(fp) = 0
  OBVIOUS
<1>3. ValuesAlong(nestedSetValue(fields, fp, val), other)[Len(fp)] = Replaced(fields, fp, val)[0]
  BY <1>1, <1>2, AlongReplaced
<1> QED BY <1>2, <1>3, ReplacedSteps

\* At every path that neither leads to it nor comes from it, it reads as before.
LEMMA SetElsewhere ==
  ASSUME NEW fields, NEW fp \in Seq(STRING), NEW val, Whole(val),
         NEW other \in Seq(STRING), ~Related(other, fp)
  PROVE  lookupNestedField(nestedSetValue(fields, fp, val), other) =
           lookupNestedField(fields, other)
<1>1. PICK k \in Nat : /\ k < Len(other) /\ k < Len(fp)
                       /\ \A i \in 1 .. k : other[i] = fp[i]
                       /\ other[k + 1] # fp[k + 1]
  BY FirstApart
<1> DEFINE new == nestedSetValue(fields, fp, val)
           R == Replaced(fields, fp, val)
<1>2. /\ Len(fp) \in Nat \ {0} /\ Len(other) \in Nat /\ k <= Len(fp) /\ k <= Len(other)
      /\ k + 1 \in 1 .. Len(other) /\ (k + 1) - 1 = k
      /\ Len(fp) - k \in 1 .. Len(fp)
      /\ Len(fp) - (Len(fp) - k) = k
      /\ (Len(fp) - k) - 1 \in 0 .. Len(fp)
      /\ Len(fp) - (Len(fp) - k) + 1 = k + 1
  BY <1>1
<1>3. ValuesAlong(new, other)[k] = R[Len(fp) - k]
  BY <1>1, <1>2, AlongReplaced
<1>4. /\ R[0] = val
      /\ \A n \in 1 .. Len(fp) :
           R[n] = Val("map", With(getNestedFields(ValuesAlong(fields, fp)[Len(fp) - n]),
                                  fp[Len(fp) - n + 1], R[n - 1]))
  BY <1>2, ReplacedSteps
<1>5. \A n \in 0 .. Len(fp) : Whole(R[n])
  BY <1>2, ReplacedWhole
<1>6. R[Len(fp) - k] = Val("map", With(getNestedFields(ValuesAlong(fields, fp)[k]), fp[k + 1],
                                      R[(Len(fp) - k) - 1]))
  BY <1>2, <1>4
<1>7. Entry(R[Len(fp) - k], other[k + 1]) = Entry(ValuesAlong(fields, fp)[k], other[k + 1])
  <2>1. Whole(R[(Len(fp) - k) - 1])
    BY <1>2, <1>5
  <2> DEFINE N == ValuesAlong(fields, fp)[k]
             r == R[(Len(fp) - k) - 1]
             name == fp[k + 1]
             x == other[k + 1]
  <2>2. R[Len(fp) - k] = Val("map", With(getNestedFields(N), name, r))
    BY <1>6
  <2>3. x # name
    BY <1>1
  <2>4. Whole(r)
    BY <2>1
  <2> HIDE DEF R, N, r, name, x
  <2>5. Entry(R[Len(fp) - k], x) = Entry(N, x)
    BY <2>2, <2>3, <2>4, ChildSet
  <2> QED BY <2>5 DEF N, x
<1>8. ValuesAlong(fields, fp)[k] = ValuesAlong(fields, other)[k]
  <2>1. ValuesAlong(fields, fp)[0] = ValuesAlong(fields, other)[0]
    BY <1>2, ValuesSteps
  <2>2. SameNames(fp, other, 0, k)
    BY <1>1 DEF SameNames
  <2> QED BY <1>2, <2>1, <2>2, ReadingsMeet
<1>9. ValuesAlong(new, other)[k + 1] = ValuesAlong(fields, other)[k + 1]
  <2>1. ValuesAlong(new, other)[k + 1] = Entry(ValuesAlong(new, other)[k], other[k + 1])
    BY <1>2, ValuesSteps
  <2>2. ValuesAlong(fields, other)[k + 1] = Entry(ValuesAlong(fields, other)[k], other[k + 1])
    BY <1>2, ValuesSteps
  <2> QED BY <1>3, <1>7, <1>8, <2>1, <2>2
<1>10. ValuesAlong(new, other)[Len(other)] = ValuesAlong(fields, other)[Len(other)]
  <2>1. SameNames(other, other, k + 1, Len(other))
    BY DEF SameNames
  <2> QED BY <1>2, <1>9, <2>1, ReadingsMeet
<1> QED BY <1>10 DEF lookupNestedField

\* What is read is a value or none.
LEMMA ReadsWhole ==
  ASSUME NEW fields, NEW path, Len(path) \in Nat
  PROVE  Whole(lookupNestedField(fields, path))
<1>1. CASE Len(path) = 0
  <2>1. ValuesAlong(fields, path)[Len(path)] = Val("map", fields)
    BY <1>1, ValuesSteps
  <2> QED BY <2>1 DEF lookupNestedField, Whole, Val
<1>2. CASE Len(path) # 0
  <2>1. Len(path) \in 1 .. Len(path)
    BY <1>2
  <2>2. lookupNestedField(fields, path) =
          Entry(ValuesAlong(fields, path)[Len(path) - 1], path[Len(path)])
    BY <2>1, ValuesSteps DEF lookupNestedField
  <2> QED BY <2>2 DEF Entry, Whole
<1> QED BY <1>1, <1>2

-----------------------------------------------------------------------------
(***************************************************************************)
(* Writing at several field paths, one after the other.                    *)
(***************************************************************************)
SetBody(f, fields, paths, vals, which, n) ==
  IF n = 0 THEN fields
  ELSE IF n \in which THEN nestedSetValue(f[n - 1], paths[n], vals[n])
  ELSE f[n - 1]

IsSet(f, fields, paths, vals, which, n) ==
  f = [i \in 0 .. n |-> SetBody(f, fields, paths, vals, which, i)]

LEMMA IsSetExists ==
  ASSUME NEW fields, NEW paths, NEW vals, NEW which, NEW n \in Nat
  PROVE  \E f : IsSet(f, fields, paths, vals, which, n)
<1> DEFINE S == {m \in Nat : \E f : IsSet(f, fields, paths, vals, which, m)}
<1>1. 0 \in S
  <2>1. IsSet([i \in 0 .. 0 |-> fields], fields, paths, vals, which, 0)
    BY DEF IsSet, SetBody
  <2> QED BY <2>1
<1>2. ASSUME NEW m \in Nat, m \in S
      PROVE  m + 1 \in S
  <2>1. PICK f : IsSet(f, fields, paths, vals, which, m)
    BY <1>2
  <2>2. \A i \in 0 .. m : f[i] = SetBody(f, fields, paths, vals, which, i)
    BY <2>1 DEF IsSet
  <2> DEFINE g == [i \in 0 .. (m + 1) |->
                     IF i <= m THEN f[i] ELSE SetBody(f, fields, paths, vals, which, i)]
  <2>3. \A i \in 0 .. (m + 1) : g[i] = SetBody(f, fields, paths, vals, which, i)
    BY <2>2
  <2>4. \A i \in 0 .. m : g[i] = f[i]
    OBVIOUS
  <2>5. g = [i \in 0 .. (m + 1) |-> g[i]]
    OBVIOUS
  <2> HIDE DEF g
  <2>6. ASSUME NEW i \in 0 .. (m + 1)
        PROVE  SetBody(f, fields, paths, vals, which, i) = SetBody(g, fields, paths, vals, which, i)
    <3>1. CASE i = 0
      BY <3>1 DEF SetBody
    <3>2. CASE i # 0
      <4>1. g[i - 1] = f[i - 1]
        BY <2>4, <3>2
      <4> QED BY <3>2, <4>1 DEF SetBody
    <3> QED BY <3>1, <3>2
  <2>7. IsSet(g, fields, paths, vals, which, m + 1)
    BY <2>3, <2>5, <2>6 DEF IsSet
  <2> QED BY <2>7
<1> HIDE DEF S
<1>3. n \in S
  BY <1>1, <1>2, NatSetInduction
<1> QED BY <1>3 DEF S

LEMMA SetSteps ==
  ASSUME NEW fields, NEW paths, NEW vals, NEW which, Len(paths) \in Nat
  PROVE  /\ SetInTurn(fields, paths, vals, which)[0] = fields
         /\ \A n \in 1 .. Len(paths) :
              SetInTurn(fields, paths, vals, which)[n] =
                IF n \in which
                  THEN nestedSetValue(SetInTurn(fields, paths, vals, which)[n - 1], paths[n], vals[n])
                  ELSE SetInTurn(fields, paths, vals, which)[n - 1]
<1> DEFINE f == SetInTurn(fields, paths, vals, which)
<1>1. f = CHOOSE g : IsSet(g, fields, paths, vals, which, Len(paths))
  BY DEF SetInTurn, IsSet, SetBody
<1>2. IsSet(f, fields, paths, vals, which, Len(paths))
  BY <1>1, IsSetExists
<1> HIDE DEF f
<1>3. ASSUME NEW i \in 0 .. Len(paths)
      PROVE  f[i] = SetBody(f, fields, paths, vals, which, i)
  BY <1>2 DEF IsSet
<1>4. f[0] = fields
  BY <1>3 DEF SetBody
<1>5. ASSUME NEW n \in 1 .. Len(paths)
      PROVE  f[n] = IF n \in which THEN nestedSetValue(f[n - 1], paths[n], vals[n]) ELSE f[n - 1]
  <2>1. n \in 0 .. Len(paths) /\ n # 0
    OBVIOUS
  <2> QED BY <1>3, <2>1 DEF SetBody
<1> QED BY <1>4, <1>5 DEF f

\* The paths set after the first j are unrelated to other.
Apart(other, paths, vals, which, j) ==
  \A i \in (j + 1) .. Len(paths) : i \in which => Whole(vals[i]) /\ ~Related(other, paths[i])

\* Later sets of unrelated paths do not change what is read.
LEMMA SetLater ==
  ASSUME NEW fields, NEW paths \in Seq(Seq(STRING)), NEW vals, NEW which,
         NEW j \in Nat, j <= Len(paths), NEW other \in Seq(STRING),
         Apart(other, paths, vals, which, j)
  PROVE  lookupNestedField(SetAll(fields, paths, vals, which), other) =
           lookupNestedField(SetInTurn(fields, paths, vals, which)[j], other)
<1> DEFINE f == SetInTurn(fields, paths, vals, which)
           S == {n \in Nat : j + n <= Len(paths) =>
                   lookupNestedField(f[j + n], other) = lookupNestedField(f[j], other)}
<1>1. \A n \in 1 .. Len(paths) :
        f[n] = IF n \in which THEN nestedSetValue(f[n - 1], paths[n], vals[n]) ELSE f[n - 1]
  BY SetSteps
<1>2. SetAll(fields, paths, vals, which) = f[Len(paths)]
  BY DEF SetAll
<1> HIDE DEF f
<1>3. 0 \in S
  <2>1. j + 0 = j
    OBVIOUS
  <2> QED BY <2>1
<1>4. ASSUME NEW n \in Nat, n \in S
      PROVE  n + 1 \in S
  <2> SUFFICES ASSUME j + (n + 1) <= Len(paths)
               PROVE  lookupNestedField(f[j + (n + 1)], other) = lookupNestedField(f[j], other)
    OBVIOUS
  <2> DEFINE m == j + (n + 1)
  <2>1. /\ m \in 1 .. Len(paths) /\ m \in (j + 1) .. Len(paths) /\ m - 1 = j + n
        /\ j + n <= Len(paths)
    OBVIOUS
  <2>2. lookupNestedField(f[m - 1], other) = lookupNestedField(f[j], other)
    BY <1>4, <2>1
  <2> HIDE DEF m
  <2>3. CASE m \in which
    <3>1. f[m] = nestedSetValue(f[m - 1], paths[m], vals[m])
      BY <1>1, <2>1, <2>3
    <3>2. Whole(vals[m]) /\ ~Related(other, paths[m]) /\ paths[m] \in Seq(STRING)
      BY <2>1, <2>3 DEF Apart
    <3>3. lookupNestedField(f[m], other) = lookupNestedField(f[m - 1], other)
      BY <3>1, <3>2, SetElsewhere
    <3> QED BY <2>2, <3>3 DEF m
  <2>4. CASE m \notin which
    <3>1. f[m] = f[m - 1]
      BY <1>1, <2>1, <2>4
    <3> QED BY <2>2, <3>1 DEF m
  <2> QED BY <2>3, <2>4
<1> HIDE DEF S
<1>5. Nat \subseteq S
  BY <1>3, <1>4, NatSetInduction
<1>6. Len(paths) - j \in Nat /\ j + (Len(paths) - j) = Len(paths)
  OBVIOUS
<1> DEFINE N == Len(paths) - j
<1>7. lookupNestedField(f[j + N], other) = lookupNestedField(f[j], other)
  <2>1. N \in S /\ j + N <= Len(paths)
    BY <1>5, <1>6
  <2> QED BY <2>1 DEF S
<1> QED BY <1>2, <1>6, <1>7 DEF f

\* A path related to none of those set reads as before.
LEMMA SetAllElsewhere ==
  ASSUME NEW fields, NEW paths \in Seq(Seq(STRING)), NEW vals, NEW which,
         NEW other \in Seq(STRING),
         \A i \in 1 .. Len(paths) : i \in which => Whole(vals[i]) /\ ~Related(other, paths[i])
  PROVE  lookupNestedField(SetAll(fields, paths, vals, which), other) =
           lookupNestedField(fields, other)
<1>1. 0 \in Nat /\ 0 <= Len(paths) /\ Apart(other, paths, vals, which, 0)
  BY DEF Apart
<1>2. lookupNestedField(SetAll(fields, paths, vals, which), other) =
        lookupNestedField(SetInTurn(fields, paths, vals, which)[0], other)
  BY <1>1, SetLater
<1> QED BY <1>2, SetSteps

\* Of the paths that are set, only the j-th may be related to other.
OnlyOne(other, paths, vals, which, j) ==
  \A i \in 1 .. Len(paths) :
    i \in which => Whole(vals[i]) /\ (i # j => ~Related(other, paths[i]))

(***************************************************************************)
(* A path at or below one that is set, and related to no other, reads as   *)
(* the value set does from there.                                          *)
(***************************************************************************)
LEMMA SetAllThere ==
  ASSUME NEW fields, NEW paths \in Seq(Seq(STRING)), NEW vals, NEW which,
         NEW other \in Seq(STRING), NEW j \in 1 .. Len(paths), j \in which, paths[j] # <<>>,
         OnlyOne(other, paths, vals, which, j),
         IsPrefix(paths[j], other)
  PROVE  LET after == SetInTurn(fields, paths, vals, which)[j]
         IN /\ ValuesAlong(after, other)[Len(paths[j])] = vals[j]
            /\ lookupNestedField(SetAll(fields, paths, vals, which), other) =
                 lookupNestedField(after, other)
<1> DEFINE f == SetInTurn(fields, paths, vals, which)
<1>1. f[j] = nestedSetValue(f[j - 1], paths[j], vals[j])
  BY SetSteps
<1>2. paths[j] \in Seq(STRING) /\ Whole(vals[j])
  BY DEF OnlyOne
<1> HIDE DEF f
<1>3. ValuesAlong(f[j], other)[Len(paths[j])] = vals[j]
  BY <1>1, <1>2, SetThere
<1>4. lookupNestedField(SetAll(fields, paths, vals, which), other) = lookupNestedField(f[j], other)
  <2>1. \A i \in (j + 1) .. Len(paths) : i \in 1 .. Len(paths) /\ i # j
    OBVIOUS
  <2>2. j \in Nat /\ j <= Len(paths) /\ Apart(other, paths, vals, which, j)
    BY <2>1 DEF Apart, OnlyOne
  <2> QED BY <2>2, SetLater DEF f
<1> QED BY <1>3, <1>4 DEF f

-----------------------------------------------------------------------------
(***************************************************************************)
(* Masks and transforms, at every path.                                    *)
(***************************************************************************)
Paths == Seq(STRING) \ {<<>>}

\* The values that a mask takes from the incoming fields.
MaskValues(incoming, mask) ==
  [i \in DOMAIN mask |-> nestedGetValue(incoming, mask[i])]

LEMMA MaskElsewhere ==
  ASSUME NEW current, NEW incoming, NEW mask \in Seq(Paths), NEW other \in Seq(STRING),
         \A i \in DOMAIN mask : ~Related(other, mask[i])
  PROVE  lookupNestedField(applyMask(current, incoming, mask), other) =
           lookupNestedField(current, other)
<1>1. mask \in Seq(Seq(STRING)) /\ DOMAIN mask = 1 .. Len(mask)
  BY DEF Paths
<1>2. \A i \in 1 .. Len(mask) : Whole(MaskValues(incoming, mask)[i])
  BY <1>1, ReadsWhole DEF MaskValues, nestedGetValue
<1>3. applyMask(current, incoming, mask) =
        SetAll(current, mask, MaskValues(incoming, mask), DOMAIN mask)
  BY DEF applyMask, MaskValues
<1> QED BY <1>1, <1>2, <1>3, SetAllElsewhere

\* The only path set that is related to other is the j-th one, above it.
SetAbove(other, paths, vals, which, j) ==
  /\ other \in Seq(STRING) /\ paths \in Seq(Seq(STRING))
  /\ j \in 1 .. Len(paths) /\ j \in which
  /\ paths[j] # <<>> /\ IsPrefix(paths[j], other)
  /\ OnlyOne(other, paths, vals, which, j)

\* What is set is what incoming has there.
LEMMA SetAllCopies ==
  ASSUME NEW fields, NEW paths, NEW vals, NEW which, NEW other, NEW j,
         SetAbove(other, paths, vals, which, j),
         NEW incoming, vals[j] = lookupNestedField(incoming, paths[j])
  PROVE  lookupNestedField(SetAll(fields, paths, vals, which), other) =
           lookupNestedField(incoming, other)
<1> DEFINE after == SetInTurn(fields, paths, vals, which)[j]
           m == paths[j]
<1>1. /\ ValuesAlong(after, other)[Len(m)] = vals[j]
      /\ lookupNestedField(SetAll(fields, paths, vals, which), other) =
           lookupNestedField(after, other)
  BY SetAllThere DEF SetAbove
<1>2. /\ m \in Seq(STRING) /\ other \in Seq(STRING) /\ Len(m) \in Nat /\ Len(other) \in Nat
      /\ vals[j] = ValuesAlong(incoming, m)[Len(m)]
      /\ IsPrefix(m, other)
  BY DEF lookupNestedField, SetAbove
<1> HIDE DEF after, m
<1>3. Len(m) <= Len(other) /\ SameNames(m, other, 0, Len(m))
  <2>1. Len(m) <= Len(other) /\ \A i \in 1 .. Len(m) : m[i] = other[i]
    BY <1>2, PrefixAgrees
  <2> QED BY <2>1 DEF SameNames
<1>4. ValuesAlong(incoming, m)[Len(m)] = ValuesAlong(incoming, other)[Len(m)]
  <2>1. ValuesAlong(incoming, m)[0] = ValuesAlong(incoming, other)[0]
    BY <1>2, ValuesSteps
  <2>2. 0 \in Nat /\ 0 <= Len(m) /\ Len(m) <= Len(m)
    BY <1>2
  <2> QED BY <1>2, <1>3, <2>1, <2>2, ReadingsMeet
<1>5. ValuesAlong(after, other)[Len(other)] = ValuesAlong(incoming, other)[Len(other)]
  <2>1. ValuesAlong(after, other)[Len(m)] = ValuesAlong(incoming, other)[Len(m)]
    BY <1>1, <1>2, <1>4
  <2>2. SameNames(other, other, Len(m), Len(other)) /\ Len(other) <= Len(other)
    BY <1>2 DEF SameNames
  <2> QED BY <1>2, <1>3, <2>1, <2>2, ReadingsMeet
<1> QED BY <1>1, <1>5 DEF lookupNestedField

LEMMA MaskThere ==
  ASSUME NEW current, NEW incoming, NEW mask \in Seq(Paths), NEW other \in Seq(STRING),
         NEW j \in DOMAIN mask, IsPrefix(mask[j], other),
         \A i \in DOMAIN mask : i # j => ~Related(other, mask[i])
  PROVE  lookupNestedField(applyMask(current, incoming, mask), other) =
           lookupNestedField(incoming, other)
<1>1. /\ mask \in Seq(Seq(STRING)) /\ DOMAIN mask = 1 .. Len(mask)
      /\ mask[j] \in Seq(STRING) /\ mask[j] # <<>>
  BY DEF Paths
<1> DEFINE vals == MaskValues(incoming, mask)
           which == DOMAIN mask
<1>2. \A i \in 1 .. Len(mask) : Whole(vals[i])
  BY <1>1, ReadsWhole DEF MaskValues, nestedGetValue
<1>3. applyMask(current, incoming, mask) = SetAll(current, mask, vals, which)
  BY DEF applyMask, MaskValues
<1>4. vals[j] = lookupNestedField(incoming, mask[j])
  BY DEF MaskValues, nestedGetValue
<1>5. SetAbove(other, mask, vals, which, j)
  BY <1>1, <1>2 DEF OnlyOne, SetAbove
<1> HIDE DEF vals, which
<1>6. lookupNestedField(SetAll(current, mask, vals, which), other) =
        lookupNestedField(incoming, other)
  BY <1>4, <1>5, SetAllCopies
<1> QED BY <1>3, <1>6

\* The paths and types of transforms.
WellTyped(ts) ==
  /\ IsList(ts)
  /\ \A i \in DOMAIN ts : /\ ts[i].path \in Paths
                          /\ ts[i].type \in {"time", "server", "increment", "append", "remove",
                                             "maximum", "minimum", "unset"}

PathsOf(ts) == [i \in DOMAIN ts |-> ts[i].path]

LEMMA TransformPaths ==
  ASSUME NEW ts, WellTyped(ts)
  PROVE  /\ PathsOf(ts) \in Seq(Paths) /\ PathsOf(ts) \in Seq(Seq(STRING))
         /\ DOMAIN ts = 1 .. Len(ts) /\ Len(PathsOf(ts)) = Len(ts)
         /\ \A i \in DOMAIN ts : PathsOf(ts)[i] = ts[i].path
<1>1. ts \in Seq(Range(ts))
  BY DEF WellTyped, IsList
<1>2. DOMAIN ts = 1 .. Len(ts) /\ Len(ts) \in Nat
  BY <1>1
<1>3. PathsOf(ts) \in Seq(Paths)
  BY <1>2 DEF PathsOf, WellTyped
<1>4. Len(PathsOf(ts)) = Len(ts)
  BY <1>2, <1>3 DEF PathsOf
<1> QED BY <1>2, <1>3, <1>4 DEF PathsOf, Paths

LEMMA ResultsWhole ==
  ASSUME NEW ts, WellTyped(ts), NEW curr, NEW now, NEW i \in DOMAIN ts
  PROVE  /\ TransformValues(ts, curr, now)[i] = TransformResult(ts[i], curr, now)
         /\ Whole(TransformValues(ts, curr, now)[i])
<1>1. TransformValues(ts, curr, now)[i] = TransformResult(ts[i], curr, now)
  BY DEF TransformValues
<1>2. ts[i].type \in {"time", "server", "increment", "append", "remove", "maximum", "minimum", "unset"}
  BY DEF WellTyped
<1>3. \A k, v : Val(k, v).kind = k
  BY DEF Val
<1>4. \/ TransformResult(ts[i], curr, now).kind \in {"time", "int", "double", "array"}
      \/ TransformResult(ts[i], curr, now) = Absent
  BY <1>2, <1>3 DEF TransformResult, Increment, AppendMissing, RemoveAll
<1> QED BY <1>1, <1>4 DEF Whole

LEMMA TransformsElsewhere ==
  ASSUME NEW fields, NEW ts, WellTyped(ts), NEW curr, NEW now, NEW other \in Seq(STRING),
         \A i \in DOMAIN ts : ~Related(other, ts[i].path)
  PROVE  lookupNestedField(applyFieldTransforms(fields, ts, curr, now), other) =
           lookupNestedField(fields, other)
<1> DEFINE which == {i \in DOMAIN ts : Stores(ts[i], curr)}
           vals == TransformValues(ts, curr, now)
<1>1. applyFieldTransforms(fields, ts, curr, now) = SetAll(fields, PathsOf(ts), vals, which)
  BY DEF applyFieldTransforms, PathsOf
<1> HIDE DEF which
<1>2. \A i \in 1 .. Len(PathsOf(ts)) : Whole(vals[i]) /\ ~Related(other, PathsOf(ts)[i])
  BY TransformPaths, ResultsWhole
<1> QED BY <1>1, <1>2, TransformPaths, SetAllElsewhere

LEMMA SelfPrefix ==
  ASSUME NEW p \in Seq(STRING)
  PROVE  IsPrefix(p, p)
BY DEF IsPrefix

LEMMA TransformsThere ==
  ASSUME NEW fields, NEW ts, WellTyped(ts), NEW curr, NEW now, NEW j \in DOMAIN ts,
         Stores(ts[j], curr),
         \A i \in DOMAIN ts : i # j => ~Related(ts[j].path, ts[i].path)
  PROVE  lookupNestedField(applyFieldTransforms(fields, ts, curr, now), ts[j].path) =
           TransformResult(ts[j], curr, now)
<1> DEFINE which == {i \in DOMAIN ts : Stores(ts[i], curr)}
           vals == TransformValues(ts, curr, now)
           p == ts[j].path
<1>1. applyFieldTransforms(fields, ts, curr, now) = SetAll(fields, PathsOf(ts), vals, which)
  BY DEF applyFieldTransforms, PathsOf
<1>2. j \in which
  OBVIOUS
<1>3. /\ PathsOf(ts) \in Seq(Seq(STRING)) /\ j \in 1 .. Len(PathsOf(ts))
      /\ PathsOf(ts)[j] = p /\ p \in Seq(STRING) /\ p # <<>>
  BY TransformPaths DEF WellTyped, Paths
<1>4. \A i \in 1 .. Len(PathsOf(ts)) : Whole(vals[i]) /\ (i # j => ~Related(p, PathsOf(ts)[i]))
  BY TransformPaths, ResultsWhole
<1>5. vals[j] = TransformResult(ts[j], curr, now)
  BY ResultsWhole
<1> HIDE DEF which, vals, p
<1>6. IsPrefix(PathsOf(ts)[j], p)
  BY <1>3, SelfPrefix
<1> DEFINE after == SetInTurn(fields, PathsOf(ts), vals, which)[j]
<1>7. /\ ValuesAlong(after, p)[Len(PathsOf(ts)[j])] = vals[j]
      /\ lookupNestedField(SetAll(fields, PathsOf(ts), vals, which), p) =
           lookupNestedField(after, p)
  <2>1. OnlyOne(p, PathsOf(ts), vals, which, j)
    BY <1>4 DEF OnlyOne
  <2> QED BY <1>2, <1>3, <1>6, <2>1, SetAllThere
<1> QED BY <1>1, <1>3, <1>5, <1>7 DEF lookupNestedField, p

(***************************************************************************)
(* What transforms report: one after the other, the ignored ones left out, *)
(* so each is found in the place its predecessors that report give it.     *)
(***************************************************************************)
ResultBody(f, ts, curr, now, n) ==
  IF n = 0 THEN <<>>
  ELSE IF Ignored(ts[n]) THEN f[n - 1]
  ELSE Append(f[n - 1], TransformResult(ts[n], curr, now))

IsResults(f, ts, curr, now, n) == f = [i \in 0 .. n |-> ResultBody(f, ts, curr, now, i)]

LEMMA IsResultsExists ==
  ASSUME NEW ts, NEW curr, NEW now, NEW n \in Nat
  PROVE  \E f : IsResults(f, ts, curr, now, n)
<1> DEFINE S == {m \in Nat : \E f : IsResults(f, ts, curr, now, m)}
<1>1. 0 \in S
  <2>1. IsResults([i \in 0 .. 0 |-> <<>>], ts, curr, now, 0)
    BY DEF IsResults, ResultBody
  <2> QED BY <2>1
<1>2. ASSUME NEW m \in Nat, m \in S
      PROVE  m + 1 \in S
  <2>1. PICK f : IsResults(f, ts, curr, now, m)
    BY <1>2
  <2>2. \A i \in 0 .. m : f[i] = ResultBody(f, ts, curr, now, i)
    BY <2>1 DEF IsResults
  <2> DEFINE g == [i \in 0 .. (m + 1) |->
                     IF i <= m THEN f[i] ELSE ResultBody(f, ts, curr, now, i)]
  <2>3. \A i \in 0 .. (m + 1) : g[i] = ResultBody(f, ts, curr, now, i)
    BY <2>2
  <2>4. \A i \in 0 .. m : g[i] = f[i]
    OBVIOUS
  <2>5. g = [i \in 0 .. (m + 1) |-> g[i]]
    OBVIOUS
  <2> HIDE DEF g
  <2>6. ASSUME NEW i \in 0 .. (m + 1)
        PROVE  ResultBody(f, ts, curr, now, i) = ResultBody(g, ts, curr, now, i)
    <3>1. CASE i = 0
      BY <3>1 DEF ResultBody
    <3>2. CASE i # 0
      <4>1. g[i - 1] = f[i - 1]
        BY <2>4, <3>2
      <4> QED BY <3>2, <4>1 DEF ResultBody
    <3> QED BY <3>1, <3>2
  <2>7. IsResults(g, ts, curr, now, m + 1)
    BY <2>3, <2>5, <2>6 DEF IsResults
  <2> QED BY <2>7
<1> HIDE DEF S
<1>3. n \in S
  BY <1>1, <1>2, NatSetInduction
<1> QED BY <1>3 DEF S

LEMMA ResultSteps ==
  ASSUME NEW ts, NEW curr, NEW now, Len(ts) \in Nat
  PROVE  LET f == ResultsInTurn(ts, curr, now)
         IN /\ f[0] = <<>>
            /\ \A n \in 1 .. Len(ts) : f[n] = ResultBody(f, ts, curr, now, n)
<1> DEFINE f == ResultsInTurn(ts, curr, now)
<1>1. f = CHOOSE g : IsResults(g, ts, curr, now, Len(ts))
  BY DEF ResultsInTurn, IsResults, ResultBody
<1>2. IsResults(f, ts, curr, now, Len(ts))
  BY <1>1, IsResultsExists
<1> HIDE DEF f
<1>3. ASSUME NEW i \in 0 .. Len(ts)
      PROVE  f[i] = ResultBody(f, ts, curr, now, i)
  BY <1>2 DEF IsResults
<1>4. f[0] = <<>>
  <2>1. f[0] = ResultBody(f, ts, curr, now, 0)
    BY <1>3
  <2> QED BY <2>1 DEF ResultBody
<1>5. \A n \in 1 .. Len(ts) : f[n] = ResultBody(f, ts, curr, now, n)
  BY <1>3
<1> QED BY <1>4, <1>5 DEF f

\* The first n transforms that report.
Reporting(ts, n) == {j \in 1 .. n : ~Ignored(ts[j])}

LEMMA ReportingGrows ==
  ASSUME NEW ts, NEW n \in Nat
  PROVE  /\ IsFiniteSet(Reporting(ts, n)) /\ Cardinality(Reporting(ts, n)) \in Nat
         /\ Cardinality(Reporting(ts, 0)) = 0
         /\ Cardinality(Reporting(ts, n + 1)) =
              Cardinality(Reporting(ts, n)) + (IF Ignored(ts[n + 1]) THEN 0 ELSE 1)
<1>1. IsFiniteSet(Reporting(ts, n))
  <2>1. IsFiniteSet(1 .. n)
    BY FS_Interval
  <2>2. Reporting(ts, n) \in SUBSET (1 .. n)
    BY DEF Reporting
  <2> HIDE DEF Reporting
  <2> QED BY <2>1, <2>2, FS_Subset
<1>2. Reporting(ts, 0) = {}
  BY DEF Reporting
<1>3. CASE Ignored(ts[n + 1])
  <2>1. Reporting(ts, n + 1) = Reporting(ts, n)
    BY <1>3 DEF Reporting
  <2>2. Cardinality(Reporting(ts, n)) \in Nat
    BY <1>1, FS_CardinalityType
  <2> QED BY <1>1, <1>2, <1>3, <2>1, <2>2, FS_EmptySet
<1>4. CASE ~Ignored(ts[n + 1])
  <2>1. Reporting(ts, n + 1) = Reporting(ts, n) \cup {n + 1}
    BY <1>4 DEF Reporting
  <2>2. n + 1 \notin Reporting(ts, n)
    BY DEF Reporting
  <2>3. Cardinality(Reporting(ts, n)) \in Nat
    BY <1>1, FS_CardinalityType
  <2> HIDE DEF Reporting
  <2>4. Cardinality(Reporting(ts, n) \cup {n + 1}) = Cardinality(Reporting(ts, n)) + 1
    BY <1>1, <2>2, FS_AddElement
  <2> QED BY <1>1, <1>2, <1>4, <2>1, <2>3, <2>4, FS_EmptySet
<1> QED BY <1>3, <1>4

\* What holds of the results of the first n transforms.
Placed(f, ts, curr, now, n) ==
  /\ f[n] \in Seq({TransformResult(ts[k], curr, now) : k \in DOMAIN ts})
  /\ Len(f[n]) = Cardinality(Reporting(ts, n))
  /\ \A i \in 1 .. n : ~Ignored(ts[i]) =>
       /\ Cardinality(Reporting(ts, i)) \in 1 .. Len(f[n])
       /\ f[n][Cardinality(Reporting(ts, i))] = TransformResult(ts[i], curr, now)

LEMMA ResultsPlaced ==
  ASSUME NEW ts, WellTyped(ts), NEW curr, NEW now
  PROVE  Placed(ResultsInTurn(ts, curr, now), ts, curr, now, Len(ts))
<1> DEFINE f == ResultsInTurn(ts, curr, now)
           V == {TransformResult(ts[k], curr, now) : k \in DOMAIN ts}
           N == Len(ts)
           S == {m \in Nat : m <= N => Placed(f, ts, curr, now, m)}
<1>1. N \in Nat /\ DOMAIN ts = 1 .. N
  BY TransformPaths, LenProperties DEF WellTyped, IsList
<1>2. f[0] = <<>> /\ \A n \in 1 .. N : f[n] = ResultBody(f, ts, curr, now, n)
  BY <1>1, ResultSteps
<1> HIDE DEF f, N
<1>3. 0 \in S
  <2>1. f[0] \in Seq(V) /\ Len(f[0]) = 0
    BY <1>2
  <2>2. Cardinality(Reporting(ts, 0)) = 0
    BY ReportingGrows
  <2> QED BY <2>1, <2>2 DEF Placed
<1>4. ASSUME NEW m \in Nat, m \in S
      PROVE  m + 1 \in S
  <2> SUFFICES ASSUME m + 1 <= N
               PROVE  Placed(f, ts, curr, now, m + 1)
    OBVIOUS
  <2> DEFINE n == m + 1
             r == TransformResult(ts[n], curr, now)
             C(i) == Cardinality(Reporting(ts, i))
  <2>1. Placed(f, ts, curr, now, m) /\ n \in 1 .. N /\ n - 1 = m /\ n # 0
    BY <1>1, <1>4
  <2>2. f[n] = IF Ignored(ts[n]) THEN f[m] ELSE Append(f[m], r)
    BY <1>2, <2>1 DEF ResultBody
  <2>3. C(m) \in Nat /\ C(n) = C(m) + (IF Ignored(ts[n]) THEN 0 ELSE 1)
    BY ReportingGrows
  <2>4. r \in V
    BY <1>1, <2>1
  <2>5. /\ f[m] \in Seq(V) /\ Len(f[m]) = C(m)
        /\ \A i \in 1 .. m : ~Ignored(ts[i]) =>
             /\ C(i) \in 1 .. Len(f[m])
             /\ f[m][C(i)] = TransformResult(ts[i], curr, now)
    BY <2>1 DEF Placed
  <2>6. \A i \in 1 .. n : i \in 1 .. m \/ i = n
    OBVIOUS
  <2> HIDE DEF V, C, n, r
  <2>7. CASE Ignored(ts[n])
    <3>1. \A i \in 1 .. n : ~Ignored(ts[i]) => i \in 1 .. m
      BY <2>6, <2>7
    <3>2. f[n] = f[m] /\ C(n) = C(m)
      BY <2>2, <2>3, <2>7
    <3> QED BY <2>5, <3>1, <3>2 DEF Placed, V, C, n
  <2>8. CASE ~Ignored(ts[n])
    <3>1. /\ f[n] \in Seq(V) /\ Len(f[n]) = C(m) + 1 /\ f[n][C(m) + 1] = r
          /\ \A k \in 1 .. C(m) : f[n][k] = f[m][k]
      BY <2>2, <2>3, <2>4, <2>5, <2>8, AppendProperties
    <3>2. C(n) = C(m) + 1
      BY <2>3, <2>8
    <3>3. ASSUME NEW i \in 1 .. n, ~Ignored(ts[i])
          PROVE  C(i) \in 1 .. Len(f[n]) /\ f[n][C(i)] = TransformResult(ts[i], curr, now)
      <4>1. CASE i \in 1 .. m
        <5>1. C(i) \in 1 .. C(m) /\ f[m][C(i)] = TransformResult(ts[i], curr, now)
          BY <2>5, <3>3, <4>1
        <5>2. f[n][C(i)] = f[m][C(i)]
          BY <3>1, <5>1
        <5>3. C(i) \in 1 .. Len(f[n])
          BY <2>3, <3>1, <5>1
        <5> QED BY <5>1, <5>2, <5>3
      <4>2. CASE i = n
        BY <2>3, <3>1, <3>2, <4>2 DEF r
      <4> QED BY <2>6, <4>1, <4>2
    <3> QED BY <3>1, <3>2, <3>3 DEF Placed, V, C, n
  <2> QED BY <2>7, <2>8
<1> HIDE DEF S
<1>5. N \in S
  BY <1>1, <1>3, <1>4, NatSetInduction
<1> QED BY <1>1, <1>5 DEF S, f, N

-----------------------------------------------------------------------------
(***************************************************************************)
(* Lists of writes, one after the other.                                   *)
(***************************************************************************)
BatchBody(f, table, ws, now, n) ==
  IF n = 0 THEN [status |-> "OK", docs |-> table, results |-> <<>>]
  ELSE AfterWrite(f[n - 1], table, ws[n], now)

IsBatch(f, table, ws, now, n) == f = [i \in 0 .. n |-> BatchBody(f, table, ws, now, i)]

LEMMA IsBatchExists ==
  ASSUME NEW table, NEW ws, NEW now, NEW n \in Nat
  PROVE  \E f : IsBatch(f, table, ws, now, n)
<1> DEFINE S == {m \in Nat : \E f : IsBatch(f, table, ws, now, m)}
<1>1. 0 \in S
  <2>1. IsBatch([i \in 0 .. 0 |-> BatchBody(<<>>, table, ws, now, 0)], table, ws, now, 0)
    BY DEF IsBatch, BatchBody
  <2> QED BY <2>1
<1>2. ASSUME NEW m \in Nat, m \in S
      PROVE  m + 1 \in S
  <2>1. PICK f : IsBatch(f, table, ws, now, m)
    BY <1>2
  <2>2. \A i \in 0 .. m : f[i] = BatchBody(f, table, ws, now, i)
    BY <2>1 DEF IsBatch
  <2> DEFINE g == [i \in 0 .. (m + 1) |->
                     IF i <= m THEN f[i] ELSE BatchBody(f, table, ws, now, i)]
  <2>3. \A i \in 0 .. (m + 1) : g[i] = BatchBody(f, table, ws, now, i)
    BY <2>2
  <2>4. \A i \in 0 .. m : g[i] = f[i]
    OBVIOUS
  <2>5. g = [i \in 0 .. (m + 1) |-> g[i]]
    OBVIOUS
  <2> HIDE DEF g
  <2>6. ASSUME NEW i \in 0 .. (m + 1)
        PROVE  BatchBody(f, table, ws, now, i) = BatchBody(g, table, ws, now, i)
    <3>1. CASE i = 0
      BY <3>1 DEF BatchBody
    <3>2. CASE i # 0
      <4>1. g[i - 1] = f[i - 1]
        BY <2>4, <3>2
      <4> QED BY <3>2, <4>1 DEF BatchBody
    <3> QED BY <3>1, <3>2
  <2>7. IsBatch(g, table, ws, now, m + 1)
    BY <2>3, <2>5, <2>6 DEF IsBatch
  <2> QED BY <2>7
<1> HIDE DEF S
<1>3. n \in S
  BY <1>1, <1>2, NatSetInduction
<1> QED BY <1>3 DEF S

LEMMA BatchSteps ==
  ASSUME NEW table, NEW ws, NEW now, Len(ws) \in Nat
  PROVE  /\ BatchInTurn(table, ws, now)[0] = [status |-> "OK", docs |-> table, results |-> <<>>]
         /\ \A n \in 1 .. Len(ws) :
              BatchInTurn(table, ws, now)[n] =
                AfterWrite(BatchInTurn(table, ws, now)[n - 1], table, ws[n], now)
<1> DEFINE f == BatchInTurn(table, ws, now)
<1>1. f = CHOOSE g : IsBatch(g, table, ws, now, Len(ws))
  BY DEF BatchInTurn, IsBatch, BatchBody
<1>2. IsBatch(f, table, ws, now, Len(ws))
  BY <1>1, IsBatchExists
<1> HIDE DEF f
<1>3. ASSUME NEW i \in 0 .. Len(ws)
      PROVE  f[i] = BatchBody(f, table, ws, now, i)
  BY <1>2 DEF IsBatch
<1>4. f[0] = [status |-> "OK", docs |-> table, results |-> <<>>]
  BY <1>3 DEF BatchBody
<1>5. ASSUME NEW n \in 1 .. Len(ws)
      PROVE  f[n] = AfterWrite(f[n - 1], table, ws[n], now)
  <2>1. n \in 0 .. Len(ws) /\ n # 0
    OBVIOUS
  <2> QED BY <1>3, <2>1 DEF BatchBody
<1> QED BY <1>4, <1>5 DEF f

TxBody(f, table, ws, now, n) ==
  IF n = 0 THEN table
  ELSE IF ws[n].op = "verify" THEN f[n - 1]
  ELSE Store(f[n - 1], ws[n].path,
             IF ws[n].op = "delete" THEN NoDoc ELSE [fields |-> ws[n].fields, at |-> now])

IsTx(f, table, ws, now, n) == f = [i \in 0 .. n |-> TxBody(f, table, ws, now, i)]

LEMMA IsTxExists ==
  ASSUME NEW table, NEW ws, NEW now, NEW n \in Nat
  PROVE  \E f : IsTx(f, table, ws, now, n)
<1> DEFINE S == {m \in Nat : \E f : IsTx(f, table, ws, now, m)}
<1>1. 0 \in S
  <2>1. IsTx([i \in 0 .. 0 |-> table], table, ws, now, 0)
    BY DEF IsTx, TxBody
  <2> QED BY <2>1
<1>2. ASSUME NEW m \in Nat, m \in S
      PROVE  m + 1 \in S
  <2>1. PICK f : IsTx(f, table, ws, now, m)
    BY <1>2
  <2>2. \A i \in 0 .. m : f[i] = TxBody(f, table, ws, now, i)
    BY <2>1 DEF IsTx
  <2> DEFINE g == [i \in 0 .. (m + 1) |->
                     IF i <= m THEN f[i] ELSE TxBody(f, table, ws, now, i)]
  <2>3. \A i \in 0 .. (m + 1) : g[i] = TxBody(f, table, ws, now, i)
    BY <2>2
  <2>4. \A i \in 0 .. m : g[i] = f[i]
    OBVIOUS
  <2>5. g = [i \in 0 .. (m + 1) |-> g[i]]
    OBVIOUS
  <2> HIDE DEF g
  <2>6. ASSUME NEW i \in 0 .. (m + 1)
        PROVE  TxBody(f, table, ws, now, i) = TxBody(g, table, ws, now, i)
    <3>1. CASE i = 0
      BY <3>1 DEF TxBody
    <3>2. CASE i # 0
      <4>1. g[i - 1] = f[i - 1]
        BY <2>4, <3>2
      <4> QED BY <3>2, <4>1 DEF TxBody
    <3> QED BY <3>1, <3>2
  <2>7. IsTx(g, table, ws, now, m + 1)
    BY <2>3, <2>5, <2>6 DEF IsTx
  <2> QED BY <2>7
<1> HIDE DEF S
<1>3. n \in S
  BY <1>1, <1>2, NatSetInduction
<1> QED BY <1>3 DEF S

LEMMA TxSteps ==
  ASSUME NEW table, NEW ws, NEW now, Len(ws) \in Nat
  PROVE  /\ TxInTurn(table, ws, now)[0] = table
         /\ \A n \in 1 .. Len(ws) :
              TxInTurn(table, ws, now)[n] = TxBody(TxInTurn(table, ws, now), table, ws, now, n)
<1> DEFINE f == TxInTurn(table, ws, now)
<1>1. f = CHOOSE g : IsTx(g, table, ws, now, Len(ws))
  BY DEF TxInTurn, IsTx, TxBody
<1>2. IsTx(f, table, ws, now, Len(ws))
  BY <1>1, IsTxExists
<1> HIDE DEF f
<1>3. ASSUME NEW i \in 0 .. Len(ws)
      PROVE  f[i] = TxBody(f, table, ws, now, i)
  BY <1>2 DEF IsTx
<1>4. f[0] = table
  <2>1. f[0] = TxBody(f, table, ws, now, 0)
    BY <1>3
  <2> QED BY <2>1 DEF TxBody
<1>5. \A n \in 1 .. Len(ws) : f[n] = TxBody(f, table, ws, now, n)
  BY <1>3
<1> QED BY <1>4, <1>5 DEF f

-----------------------------------------------------------------------------
(***************************************************************************)
(* What a list of writes comes to.                                         *)
(***************************************************************************)
Codes == {"NotFound", "AlreadyExists", "FailedPrecondition", "InvalidArgument", "Unimplemented"}

LEMMA WriteCodes ==
  ASSUME NEW table, NEW w
  PROVE  WriteStatus(table, w) \in Codes \cup {"OK"} /\ StoreStatus(table, w) \in Codes \cup {"OK"}
<1>1. StoreStatus(table, w) \in Codes \cup {"OK"}
  BY DEF StoreStatus, Codes
<1>2. UpdateStatus(table, w) \in Codes \cup {"OK"}
  BY <1>1 DEF UpdateStatus, Codes
<1>3. WriteStatus(table, w) \in Codes \cup {"OK"}
  BY <1>1, <1>2 DEF WriteStatus, Codes
<1> QED BY <1>1, <1>3

LEMMA AppendList ==
  ASSUME NEW s, IsList(s), NEW e
  PROVE  /\ IsList(Append(s, e))
         /\ Len(Append(s, e)) = Len(s) + 1 /\ Len(s) \in Nat
         /\ \A i \in 1 .. Len(s) : Append(s, e)[i] = s[i]
         /\ Append(s, e)[Len(s) + 1] = e
<1> DEFINE R == Range(s) \cup {e}
<1>1. s \in Seq(R) /\ e \in R
  BY DEF IsList
<1> HIDE DEF R
<1>2. Append(s, e) \in Seq(R) /\ Len(s) \in Nat
  BY <1>1
<1> DEFINE t == Append(s, e)
<1>3. /\ Len(t) = Len(s) + 1
      /\ \A i \in 1 .. Len(s) : t[i] = s[i]
      /\ t[Len(s) + 1] = e
  BY <1>1
<1>4. t \in Seq(R) /\ DOMAIN t = 1 .. Len(t) /\ Len(t) \in Nat
  BY <1>2
<1> HIDE DEF t
<1>5. t \in Seq(Range(t))
  <2>1. t = [i \in 1 .. Len(t) |-> t[i]]
    BY <1>4
  <2>2. \A i \in 1 .. Len(t) : t[i] \in Range(t)
    BY <1>4 DEF Range
  <2> QED BY <1>4, <2>1, <2>2
<1> QED BY <1>2, <1>3, <1>5 DEF IsList, t

LEMMA EmptyList == IsList(<<>>) /\ Len(<<>>) = 0
BY DEF IsList

LEMMA ListFacts ==
  ASSUME NEW s, IsList(s)
  PROVE  Len(s) \in Nat /\ DOMAIN s = 1 .. Len(s)
BY DEF IsList

LEMMA ApplyOne ==
  ASSUME NEW table, NEW w, NEW now
  PROVE  LET done == ApplyWrite(table, w, now)
         IN /\ done.result.at = now
            /\ DOMAIN done.docs = DOMAIN table
            /\ \A p \in DOMAIN table :
                 done.docs[p] # table[p] => p = w.path /\ done.docs[p].at \in {now, 0}
<1>1. CASE w.op = "update"
  <2> DEFINE doc == [fields |-> Updated(w, table[w.path], now).fields, at |-> now]
             result == [at |-> now, values |-> Updated(w, table[w.path], now).results]
  <2>1. ApplyWrite(table, w, now) = [docs |-> Store(table, w.path, doc), result |-> result]
    BY <1>1 DEF ApplyWrite
  <2>2. doc.at = now /\ result.at = now
    OBVIOUS
  <2> HIDE DEF doc, result
  <2> QED BY <2>1, <2>2 DEF Store
<1>2. CASE w.op = "delete"
  <2>1. ApplyWrite(table, w, now) =
          [docs |-> Store(table, w.path, NoDoc), result |-> [at |-> now, values |-> <<>>]]
    BY <1>2 DEF ApplyWrite
  <2>2. NoDoc.at = 0
    BY DEF NoDoc
  <2> QED BY <2>1, <2>2 DEF Store
<1>3. CASE w.op # "update" /\ w.op # "delete"
  BY <1>3 DEF ApplyWrite
<1> QED BY <1>1, <1>2, <1>3

\* later differs from table only by what the first n writes stored now.
ChangedBy(table, later, ws, now, n) ==
  /\ DOMAIN later = DOMAIN table
  /\ \A p \in DOMAIN table :
       later[p] # table[p] =>
         /\ later[p].at \in {now, 0}
         /\ \E i \in 1 .. n : ws[i].path = p

BatchGood(acc, table, ws, now, n) ==
  /\ acc.status \in Codes \cup {"OK"}
  /\ IsList(acc.results)
  /\ acc.status = "OK" =>
       /\ Len(acc.results) = n
       /\ \A i \in 1 .. n : acc.results[i].at = now
       /\ ChangedBy(table, acc.docs, ws, now, n)
  /\ acc.status # "OK" => acc.docs = table

LEMMA ChangedOnce ==
  ASSUME NEW table, NEW later, NEW ws, NEW now, NEW n \in Nat, ChangedBy(table, later, ws, now, n),
         NEW final, DOMAIN final = DOMAIN later,
         \A p \in DOMAIN later :
           final[p] # later[p] => p = ws[n + 1].path /\ final[p].at \in {now, 0}
  PROVE  ChangedBy(table, final, ws, now, n + 1)
<1>1. DOMAIN final = DOMAIN table
  BY DEF ChangedBy
<1>2. ASSUME NEW p \in DOMAIN table, final[p] # table[p]
      PROVE  final[p].at \in {now, 0} /\ \E i \in 1 .. (n + 1) : ws[i].path = p
  <2>1. CASE final[p] = later[p]
    <3>1. later[p].at \in {now, 0} /\ \E i \in 1 .. n : ws[i].path = p
      BY <1>2, <2>1 DEF ChangedBy
    <3>2. \A i \in 1 .. n : i \in 1 .. (n + 1)
      OBVIOUS
    <3> QED BY <2>1, <3>1, <3>2
  <2>2. CASE final[p] # later[p]
    <3>1. p = ws[n + 1].path /\ final[p].at \in {now, 0}
      BY <2>2 DEF ChangedBy
    <3>2. n + 1 \in 1 .. (n + 1)
      OBVIOUS
    <3> QED BY <3>1, <3>2
  <2> QED BY <2>1, <2>2
<1> QED BY <1>1, <1>2 DEF ChangedBy

LEMMA GoodStep ==
  ASSUME NEW acc, NEW table, NEW ws, NEW now, NEW n \in Nat, BatchGood(acc, table, ws, now, n)
  PROVE  BatchGood(AfterWrite(acc, table, ws[n + 1], now), table, ws, now, n + 1)
<1> DEFINE next == AfterWrite(acc, table, ws[n + 1], now)
           w == ws[n + 1]
<1>1. CASE acc.status # "OK"
  <2>1. next = acc
    BY <1>1 DEF AfterWrite
  <2> QED BY <1>1, <2>1 DEF BatchGood
<1>2. CASE acc.status = "OK" /\ WriteStatus(acc.docs, w) # "OK"
  <2>1. next = [status |-> WriteStatus(acc.docs, w), docs |-> table, results |-> <<>>]
    BY <1>2 DEF AfterWrite
  <2>2. WriteStatus(acc.docs, w) \in Codes \cup {"OK"}
    BY WriteCodes
  <2>3. next.status # "OK" /\ next.status \in Codes \cup {"OK"} /\ next.docs = table
        /\ IsList(next.results)
    BY <1>2, <2>1, <2>2, EmptyList
  <2> QED BY <2>3 DEF BatchGood
<1>3. CASE acc.status = "OK" /\ WriteStatus(acc.docs, w) = "OK"
  <2> DEFINE done == ApplyWrite(acc.docs, w, now)
  <2>1. next = [status |-> "OK", docs |-> done.docs, results |-> Append(acc.results, done.result)]
    BY <1>3 DEF AfterWrite
  <2>2. /\ done.result.at = now /\ DOMAIN done.docs = DOMAIN acc.docs
        /\ \A p \in DOMAIN acc.docs :
             done.docs[p] # acc.docs[p] => p = w.path /\ done.docs[p].at \in {now, 0}
    BY ApplyOne
  <2> HIDE DEF done
  <2>3. ChangedBy(table, done.docs, ws, now, n + 1)
    <3>1. ChangedBy(table, acc.docs, ws, now, n)
      BY <1>3 DEF BatchGood
    <3> QED BY <2>2, <3>1, ChangedOnce
  <2>4. /\ IsList(Append(acc.results, done.result))
        /\ Len(Append(acc.results, done.result)) = n + 1
        /\ \A i \in 1 .. (n + 1) : Append(acc.results, done.result)[i].at = now
    <3>1. IsList(acc.results) /\ Len(acc.results) = n /\ \A i \in 1 .. n : acc.results[i].at = now
      BY <1>3 DEF BatchGood
    <3>2. /\ IsList(Append(acc.results, done.result))
          /\ Len(Append(acc.results, done.result)) = n + 1
          /\ \A i \in 1 .. n : Append(acc.results, done.result)[i] = acc.results[i]
          /\ Append(acc.results, done.result)[n + 1] = done.result
      BY <3>1, AppendList
    <3>3. ASSUME NEW i \in 1 .. (n + 1)
          PROVE  Append(acc.results, done.result)[i].at = now
      <4>1. i \in 1 .. n \/ i = n + 1
        OBVIOUS
      <4> QED BY <2>2, <3>1, <3>2, <4>1
    <3> QED BY <3>2, <3>3
  <2> QED BY <2>1, <2>3, <2>4 DEF BatchGood
<1> QED BY <1>1, <1>2, <1>3

LEMMA BatchIsGood ==
  ASSUME NEW table, NEW ws, IsList(ws), NEW now
  PROVE  BatchGood(applyWriteBatch(table, ws, now), table, ws, now, Len(ws))
<1> DEFINE f == BatchInTurn(table, ws, now)
           S == {n \in Nat : n <= Len(ws) => BatchGood(f[n], table, ws, now, n)}
<1>1. Len(ws) \in Nat
  BY ListFacts
<1>2. /\ f[0] = [status |-> "OK", docs |-> table, results |-> <<>>]
      /\ \A n \in 1 .. Len(ws) : f[n] = AfterWrite(f[n - 1], table, ws[n], now)
  BY <1>1, BatchSteps
<1>3. applyWriteBatch(table, ws, now) = f[Len(ws)]
  BY DEF applyWriteBatch
<1> HIDE DEF f
<1>4. 0 \in S
  <2>1. BatchGood(f[0], table, ws, now, 0)
    BY <1>2, EmptyList DEF BatchGood, ChangedBy
  <2> QED BY <2>1
<1>5. ASSUME NEW n \in Nat, n \in S
      PROVE  n + 1 \in S
  <2> SUFFICES ASSUME n + 1 <= Len(ws)
               PROVE  BatchGood(f[n + 1], table, ws, now, n + 1)
    OBVIOUS
  <2>1. n <= Len(ws) /\ n + 1 \in 1 .. Len(ws) /\ (n + 1) - 1 = n
    BY <1>1
  <2>2. BatchGood(f[n], table, ws, now, n)
    BY <1>5, <2>1
  <2>3. f[n + 1] = AfterWrite(f[n], table, ws[n + 1], now)
    BY <1>2, <2>1
  <2> QED BY <2>2, <2>3, GoodStep
<1> HIDE DEF S
<1>6. Len(ws) \in S
  BY <1>1, <1>4, <1>5, NatSetInduction
<1> QED BY <1>1, <1>3, <1>6 DEF S

\* A list of one write.
LEMMA BatchOfOne ==
  ASSUME NEW table, NEW ws, IsList(ws), Len(ws) = 1, NEW now,
         applyWriteBatch(table, ws, now).status = "OK"
  PROVE  LET done == ApplyWrite(table, ws[1], now)
         IN /\ applyWriteBatch(table, ws, now).docs = done.docs
            /\ applyWriteBatch(table, ws, now).results[1] = done.result
<1> DEFINE f == BatchInTurn(table, ws, now)
           done == ApplyWrite(table, ws[1], now)
<1>1. /\ f[0] = [status |-> "OK", docs |-> table, results |-> <<>>]
      /\ f[1] = AfterWrite(f[0], table, ws[1], now)
  BY BatchSteps
<1>2. applyWriteBatch(table, ws, now) = f[1]
  BY DEF applyWriteBatch
<1> HIDE DEF f
<1>3. WriteStatus(table, ws[1]) = "OK"
  BY <1>1, <1>2 DEF AfterWrite
<1>4. f[1] = [status |-> "OK", docs |-> done.docs, results |-> Append(<<>>, done.result)]
  BY <1>1, <1>3 DEF AfterWrite
<1> HIDE DEF done
<1>5. Append(<<>>, done.result)[1] = done.result
  OBVIOUS
<1> QED BY <1>2, <1>4, <1>5 DEF done

\* A transaction's writes.
LEMMA TxChanged ==
  ASSUME NEW table, NEW ws, IsList(ws), NEW now
  PROVE  ChangedBy(table, TxApply(table, ws, now), ws, now, Len(ws))
<1> DEFINE f == TxInTurn(table, ws, now)
           S == {n \in Nat : n <= Len(ws) => ChangedBy(table, f[n], ws, now, n)}
<1>1. Len(ws) \in Nat
  BY ListFacts
<1>2. f[0] = table /\ \A n \in 1 .. Len(ws) : f[n] = TxBody(f, table, ws, now, n)
  BY <1>1, TxSteps
<1>3. TxApply(table, ws, now) = f[Len(ws)]
  BY DEF TxApply
<1> HIDE DEF f
<1>4. 0 \in S
  <2>1. ChangedBy(table, f[0], ws, now, 0)
    BY <1>2 DEF ChangedBy
  <2> QED BY <2>1
<1>5. ASSUME NEW n \in Nat, n \in S
      PROVE  n + 1 \in S
  <2> SUFFICES ASSUME n + 1 <= Len(ws)
               PROVE  ChangedBy(table, f[n + 1], ws, now, n + 1)
    OBVIOUS
  <2>1. n <= Len(ws) /\ n + 1 \in 1 .. Len(ws) /\ (n + 1) - 1 = n /\ n + 1 # 0
    BY <1>1
  <2>2. ChangedBy(table, f[n], ws, now, n)
    BY <1>5, <2>1
  <2>3. f[n + 1] = TxBody(f, table, ws, now, n + 1)
    BY <1>2, <2>1
  <2>4. CASE ws[n + 1].op = "verify"
    <3>1. f[n + 1] = f[n]
      BY <2>1, <2>3, <2>4 DEF TxBody
    <3>2. /\ DOMAIN f[n + 1] = DOMAIN f[n]
          /\ \A p \in DOMAIN f[n] :
               f[n + 1][p] # f[n][p] => p = ws[n + 1].path /\ f[n + 1][p].at \in {now, 0}
      BY <3>1
    <3> QED BY <2>2, <3>2, ChangedOnce
  <2>5. CASE ws[n + 1].op # "verify"
    <3> DEFINE doc == IF ws[n + 1].op = "delete" THEN NoDoc
                      ELSE [fields |-> ws[n + 1].fields, at |-> now]
    <3>1. f[n + 1] = Store(f[n], ws[n + 1].path, doc)
      BY <2>1, <2>3, <2>5 DEF TxBody
    <3>2. doc.at \in {now, 0}
      BY DEF NoDoc
    <3> HIDE DEF doc
    <3>3. /\ DOMAIN f[n + 1] = DOMAIN f[n]
          /\ \A p \in DOMAIN f[n] :
               f[n + 1][p] # f[n][p] => p = ws[n + 1].path /\ f[n + 1][p].at \in {now, 0}
      BY <3>1, <3>2 DEF Store
    <3> QED BY <2>2, <3>3, ChangedOnce
  <2> QED BY <2>4, <2>5
<1> HIDE DEF S
<1>6. Len(ws) \in S
  BY <1>1, <1>4, <1>5, NatSetInduction
<1> QED BY <1>1, <1>3, <1>6 DEF S

\* The response of a BatchWrite after n writes, and what they changed.
SentGood(sent, table, later, ws, now, n) ==
  /\ IsList(sent.results) /\ IsList(sent.statuses)
  /\ Len(sent.results) = n /\ Len(sent.statuses) = n
  /\ \A i \in 1 .. n : sent.results[i].at = (IF sent.statuses[i] = "OK" THEN now ELSE 0)
  /\ DOMAIN later = DOMAIN table
  /\ \A p \in DOMAIN table :
       later[p] # table[p] =>
         /\ later[p].at \in {now, 0}
         /\ \E i \in 1 .. n : ws[i].path = p /\ sent.statuses[i] = "OK"

LEMMA SentStep ==
  ASSUME NEW sent, NEW table, NEW later, NEW ws, NEW now, NEW n \in Nat,
         SentGood(sent, table, later, ws, now, n)
  PROVE  LET one == applyWriteBatch(later, <<ws[n + 1]>>, now)
         IN SentGood(BatchWrite(sent, one), table, one.docs, ws, now, n + 1)
<1> DEFINE one == applyWriteBatch(later, <<ws[n + 1]>>, now)
           last == IF one.status = "OK" THEN one.results[1] ELSE [at |-> 0, values |-> <<>>]
           next == BatchWrite(sent, one)
<1>1. IsList(<<ws[n + 1]>>) /\ Len(<<ws[n + 1]>>) = 1 /\ <<ws[n + 1]>>[1] = ws[n + 1]
  BY DEF IsList, Range
<1>2. BatchGood(one, later, <<ws[n + 1]>>, now, 1)
  BY <1>1, BatchIsGood
<1>3. next = [results |-> Append(sent.results, last), statuses |-> Append(sent.statuses, one.status)]
  BY DEF BatchWrite
<1> HIDE DEF one
<1>4. last.at = IF one.status = "OK" THEN now ELSE 0
  BY <1>2 DEF BatchGood
<1>5. /\ DOMAIN one.docs = DOMAIN later
      /\ \A p \in DOMAIN later :
           one.docs[p] # later[p] =>
             one.status = "OK" /\ p = ws[n + 1].path /\ one.docs[p].at \in {now, 0}
  <2>1. CASE one.status # "OK"
    BY <1>2, <2>1 DEF BatchGood
  <2>2. CASE one.status = "OK"
    <3>1. ChangedBy(later, one.docs, <<ws[n + 1]>>, now, 1)
      BY <1>2, <2>2 DEF BatchGood
    <3>2. \A i \in 1 .. 1 : <<ws[n + 1]>>[i] = ws[n + 1]
      BY <1>1
    <3> QED BY <2>2, <3>1, <3>2 DEF ChangedBy
  <2> QED BY <2>1, <2>2
<1> HIDE DEF last, next
<1>6. /\ IsList(next.results) /\ Len(next.results) = n + 1
      /\ \A i \in 1 .. n : next.results[i] = sent.results[i]
      /\ next.results[n + 1] = last
  BY <1>3, AppendList DEF SentGood
<1>7. /\ IsList(next.statuses) /\ Len(next.statuses) = n + 1
      /\ \A i \in 1 .. n : next.statuses[i] = sent.statuses[i]
      /\ next.statuses[n + 1] = one.status
  BY <1>3, AppendList DEF SentGood
<1>8. ASSUME NEW i \in 1 .. (n + 1)
      PROVE  next.results[i].at = (IF next.statuses[i] = "OK" THEN now ELSE 0)
  <2>1. CASE i \in 1 .. n
    BY <1>6, <1>7, <2>1 DEF SentGood
  <2>2. CASE i = n + 1
    BY <1>4, <1>6, <1>7, <2>2
  <2> QED BY <2>1, <2>2
<1>9. ASSUME NEW p \in DOMAIN table, one.docs[p] # table[p]
      PROVE  /\ one.docs[p].at \in {now, 0}
             /\ \E i \in 1 .. (n + 1) : ws[i].path = p /\ next.statuses[i] = "OK"
  <2>1. CASE one.docs[p] = later[p]
    <3>1. later[p].at \in {now, 0} /\ \E i \in 1 .. n : ws[i].path = p /\ sent.statuses[i] = "OK"
      BY <1>9, <2>1 DEF SentGood
    <3>2. \A i \in 1 .. n : i \in 1 .. (n + 1)
      OBVIOUS
    <3> QED BY <1>7, <2>1, <3>1, <3>2
  <2>2. CASE one.docs[p] # later[p]
    <3>1. p \in DOMAIN later /\ n + 1 \in 1 .. (n + 1)
      BY DEF SentGood
    <3> QED BY <1>5, <1>7, <2>2, <3>1
  <2> QED BY <2>1, <2>2
<1>10. DOMAIN one.docs = DOMAIN table
  BY <1>5 DEF SentGood
<1>11. SentGood(next, table, one.docs, ws, now, n + 1)
  BY <1>6, <1>7, <1>8, <1>9, <1>10 DEF SentGood
<1> QED BY <1>11 DEF next, one

-----------------------------------------------------------------------------
(***************************************************************************)
(* The inductive invariant: a finished request has been answered by the    *)
(* operators above, applied to the documents it met; a BatchWrite has been *)
(* answered for its first writes.                                          *)
(***************************************************************************)
Answered(status, response, table) ==
  /\ pc = (IF status = "OK" THEN "done" ELSE status)
  /\ out = response
  /\ docs = table

CommitServed ==
  (req.type = "commit" /\ pc # "new") =>
    LET done == applyWriteBatch(req.docs, req.writes, req.now)
    IN Answered(done.status, done.results, done.docs)

TxServed ==
  (req.type = "txCommit" /\ pc # "new") =>
    IF TxStatus(req.writes) # "OK" THEN Answered(TxStatus(req.writes), <<>>, req.docs)
    ELSE Answered("OK", TxResults(req.writes, req.now), TxApply(req.docs, req.writes, req.now))

UpdateServed ==
  (req.type = "update" /\ pc # "new") =>
    LET done == UpdateDocument(req.docs, req.writes[1], req.now)
    IN Answered(done.status, <<>>, done.docs)

Routed(url) ==
  IF Intercepted(url) THEN [rpc |-> url.verb, args |-> [parent |-> InterceptParent(url)]]
  ELSE ServeMux(url)

RestServed == (req.type = "rest" /\ pc # "new") => out = Routed(req.url)

SweepServed ==
  (req.type = "sweep" /\ pc # "new") =>
    out = <<TextCmp(RFC3339Nano(req.expires), RFC3339Nano(req.now)) < 0>>

SentServed ==
  (req.type = "batchWrite" /\ pc # "new") =>
    /\ SentGood(out, req.docs, docs, req.writes, req.now, Len(out.statuses))
    /\ Len(out.statuses) <= Len(req.writes)
    /\ pc = "done" => Len(out.statuses) = Len(req.writes)

\* Only queries and listings stop at a page.
Stops ==
  /\ req.type \in {"commit", "txCommit", "update", "rest", "sweep"} => pc \notin {"page", "writing"}
  /\ req.type = "batchWrite" => pc \in {"new", "writing", "done"}

Fresh == pc = "new" => docs = req.docs /\ out = <<>>

ServedInv ==
  /\ req \in Inputs /\ Fresh /\ Stops
  /\ CommitServed /\ TxServed /\ UpdateServed /\ RestServed /\ SweepServed /\ SentServed

\* The types of request that these proofs are about.
Own == {"commit", "txCommit", "batchWrite", "update", "rest", "sweep"}

LEMMA WritesOf ==
  ASSUME req \in Inputs, req.type \in {"commit", "txCommit", "batchWrite", "update"}
  PROVE  /\ IsList(req.writes) /\ req.now \in Nat \ {0}
         /\ \A i \in DOMAIN req.writes : WellFormed(req.writes[i], req.docs)
         /\ Len(req.writes) \in Nat /\ DOMAIN req.writes = 1 .. Len(req.writes)
<1>1. /\ IsList(req.writes) /\ req.now \in Nat \ {0}
      /\ \A i \in DOMAIN req.writes : WellFormed(req.writes[i], req.docs)
  BY InputsAssumption
<1> QED BY <1>1, ListFacts

LEMMA InitServed == RequestsInit => ServedInv
<1> SUFFICES ASSUME RequestsInit
             PROVE  ServedInv
  OBVIOUS
<1>1. req \in Inputs /\ docs = req.docs /\ pc = "new" /\ out = <<>>
  BY DEF RequestsInit
<1>2. Fresh /\ Stops
  BY <1>1 DEF Fresh, Stops
<1> QED BY <1>1, <1>2 DEF ServedInv, CommitServed, TxServed, UpdateServed, RestServed,
                           SweepServed, SentServed

\* Steps of the requests that are not Own.
LEMMA OtherSteps ==
  ASSUME ServedInv, [Next]_vars, req.type \notin Own
  PROVE  ServedInv'
<1> USE DEF ServedInv
<1>1. req' = req /\ Fresh'
  <2>1. CASE UNCHANGED vars
    BY <2>1 DEF vars, Fresh
  <2>2. CASE Decode
    <3>1. req' = req /\ docs' = docs /\ out' = out /\ pc = "new"
      BY <2>2 DEF Decode
    <3> QED BY <3>1 DEF Fresh
  <2>3. CASE QueryDocuments
    <3>1. req' = req /\ pc' \in {"Unknown", "done", "page"}
      BY <2>3 DEF QueryDocuments
    <3> QED BY <3>1 DEF Fresh
  <2>4. ASSUME NEW p, OtherCreates(p) \/ OtherDeletes(p)
        PROVE  req' = req /\ Fresh'
    BY <2>4 DEF OtherCreates, OtherDeletes, Fresh
  <2>5. CASE ListDocuments \/ ListCollectionIds
    <3>1. req' = req /\ pc' \in {"done", "page"}
      BY <2>5 DEF ListDocuments, ListCollectionIds, ListPage
    <3> QED BY <3>1 DEF Fresh
  <2>6. CASE RunAggregationQuery
    <3>1. req' = req /\ (pc' = "done" \/ pc' = "Unknown" \/ (docs' = docs /\ out' = <<>>))
      BY <2>6 DEF RunAggregationQuery, Reply
    <3>2. pc = "new"
      BY <2>6 DEF RunAggregationQuery
    <3> QED BY <3>1, <3>2 DEF Fresh
  <2>7. CASE Commit \/ CommitInTransaction \/ BatchWriteRpc \/ UpdateDocumentRpc \/ Rest \/ Sweep
    BY <2>7 DEF Commit, CommitInTransaction, BatchWriteRpc, UpdateDocumentRpc, Rest, Sweep, Own
  <2> QED BY <2>1, <2>2, <2>3, <2>4, <2>5, <2>6, <2>7 DEF Next, QueryStep
<1>2. req'.type \notin Own
  BY <1>1
<1> QED BY <1>1, <1>2 DEF Own, Stops, CommitServed, TxServed, UpdateServed, RestServed,
                           SweepServed, SentServed

\* The others are only served by their own action.
LEMMA OwnSteps ==
  ASSUME ServedInv, Next, req.type \in Own
  PROVE  Commit \/ CommitInTransaction \/ BatchWriteRpc \/ UpdateDocumentRpc \/ Rest \/ Sweep
<1>1. pc # "page"
  BY DEF ServedInv, Stops, Own
<1>2. ~QueryStep /\ ~ListDocuments /\ ~ListCollectionIds /\ ~RunAggregationQuery
  BY DEF QueryStep, Decode, QueryDocuments, ListDocuments, ListCollectionIds, ListPage,
         RunAggregationQuery, Own
<1>3. \A p : ~OtherCreates(p) /\ ~OtherDeletes(p)
  BY <1>1 DEF OtherCreates, OtherDeletes
<1> QED BY <1>2, <1>3 DEF Next

LEMMA CommitStep ==
  ASSUME ServedInv, Commit
  PROVE  ServedInv'
<1>1. req.type = "commit" /\ pc = "new" /\ docs = req.docs /\ req \in Inputs
  BY DEF Commit, ServedInv, Fresh
<1> DEFINE done == applyWriteBatch(req.docs, req.writes, req.now)
<1>2. /\ pc' = (IF done.status = "OK" THEN "done" ELSE done.status)
      /\ out' = done.results /\ docs' = done.docs /\ req' = req
  BY <1>1 DEF Commit, Reply
<1>3. done.status \in Codes \cup {"OK"}
  BY <1>1, WritesOf, BatchIsGood DEF BatchGood
<1>4. CommitServed'
  BY <1>2 DEF CommitServed, Answered
<1> HIDE DEF done
<1>5. pc' \in Codes \cup {"done"}
  BY <1>2, <1>3
<1>6. pc' \notin {"new", "page", "writing"}
  BY <1>5 DEF Codes
<1> QED BY <1>1, <1>2, <1>4, <1>6 DEF ServedInv, Fresh, Stops, TxServed, UpdateServed,
                                       RestServed, SweepServed, SentServed

LEMMA TxStep ==
  ASSUME ServedInv, CommitInTransaction
  PROVE  ServedInv'
<1>1. req.type = "txCommit" /\ pc = "new" /\ docs = req.docs /\ req \in Inputs
  BY DEF CommitInTransaction, ServedInv, Fresh
<1>2. req' = req /\ TxServed'
  BY <1>1 DEF CommitInTransaction, Reply, TxServed, Answered
<1>3. pc' \in {"done", "Unimplemented"}
  BY DEF CommitInTransaction, Reply, TxStatus
<1> QED BY <1>1, <1>2, <1>3 DEF ServedInv, Fresh, Stops, CommitServed, UpdateServed,
                                 RestServed, SweepServed, SentServed

LEMMA UpdateStep ==
  ASSUME ServedInv, UpdateDocumentRpc
  PROVE  ServedInv'
<1>1. req.type = "update" /\ pc = "new" /\ docs = req.docs /\ req \in Inputs
  BY DEF UpdateDocumentRpc, ServedInv, Fresh
<1> DEFINE done == UpdateDocument(req.docs, req.writes[1], req.now)
<1>2. /\ pc' = (IF done.status = "OK" THEN "done" ELSE done.status)
      /\ out' = <<>> /\ docs' = done.docs /\ req' = req
  BY <1>1 DEF UpdateDocumentRpc, Reply
<1>3. done.status \in Codes \cup {"OK"}
  BY WriteCodes DEF UpdateDocument
<1>4. UpdateServed'
  BY <1>2 DEF UpdateServed, Answered
<1> HIDE DEF done
<1>5. pc' \in Codes \cup {"done"}
  BY <1>2, <1>3
<1>6. pc' \notin {"new", "page", "writing"}
  BY <1>5 DEF Codes
<1> QED BY <1>1, <1>2, <1>4, <1>6 DEF ServedInv, Fresh, Stops, TxServed, CommitServed,
                                       RestServed, SweepServed, SentServed

LEMMA RestStep ==
  ASSUME ServedInv, Rest
  PROVE  ServedInv'
<1>1. req.type = "rest" /\ pc = "new" /\ req \in Inputs
  BY DEF Rest, ServedInv
<1>2. out' = Routed(req.url) /\ req' = req /\ pc' \in {"done", "Unimplemented", "NotFound"}
  BY DEF Rest, Reply, Routed
<1> QED BY <1>1, <1>2 DEF ServedInv, Fresh, Stops, TxServed, CommitServed, UpdateServed,
                           RestServed, SweepServed, SentServed

LEMMA SweepStep ==
  ASSUME ServedInv, Sweep
  PROVE  ServedInv'
<1>1. req.type = "sweep" /\ pc = "new" /\ req \in Inputs
  BY DEF Sweep, ServedInv
<1>2. /\ out' = <<TextCmp(RFC3339Nano(req.expires), RFC3339Nano(req.now)) < 0>>
      /\ req' = req /\ pc' = "done"
  BY DEF Sweep, Reply
<1> QED BY <1>1, <1>2 DEF ServedInv, Fresh, Stops, TxServed, CommitServed, UpdateServed,
                           RestServed, SweepServed, SentServed

LEMMA SentStart ==
  ASSUME NEW table, NEW ws, NEW now
  PROVE  SentGood([results |-> <<>>, statuses |-> <<>>], table, table, ws, now, 0)
BY EmptyList DEF SentGood

LEMMA BatchWriteStep ==
  ASSUME ServedInv, BatchWriteRpc
  PROVE  ServedInv'
<1>1. req.type = "batchWrite" /\ pc \in {"new", "writing"} /\ req \in Inputs
  BY DEF BatchWriteRpc, ServedInv
<1> DEFINE sent == IF pc = "new" THEN [results |-> <<>>, statuses |-> <<>>] ELSE out
           n == Len(sent.statuses)
           N == Len(req.writes)
           one == applyWriteBatch(docs, <<req.writes[n + 1]>>, req.now)
<1>2. SentGood(sent, req.docs, docs, req.writes, req.now, n) /\ n \in Nat /\ n <= N /\ N \in Nat
  <2>1. N \in Nat
    BY <1>1, WritesOf
  <2>2. CASE pc = "new"
    <3>1. sent = [results |-> <<>>, statuses |-> <<>>] /\ docs = req.docs
      BY <2>2 DEF ServedInv, Fresh
    <3>2. n = 0
      BY <2>2, EmptyList
    <3> QED BY <2>1, <3>1, <3>2, SentStart
  <2>3. CASE pc = "writing"
    <3>1. sent = out
      BY <2>3
    <3>2. SentGood(out, req.docs, docs, req.writes, req.now, Len(out.statuses))
          /\ Len(out.statuses) <= Len(req.writes)
      BY <1>1, <2>3 DEF ServedInv, SentServed
    <3>3. Len(out.statuses) \in Nat
      BY <3>2, ListFacts DEF SentGood
    <3> QED BY <2>1, <3>1, <3>2, <3>3
  <2> QED BY <1>1, <2>2, <2>3
<1>3. \/ n = N /\ Reply("OK", sent, docs)
      \/ /\ n # N /\ out' = BatchWrite(sent, one) /\ docs' = one.docs /\ pc' = "writing"
         /\ req' = req
  BY DEF BatchWriteRpc
<1>4. req' = req /\ SentServed' /\ pc' \in {"writing", "done"}
  <2>1. CASE n = N /\ Reply("OK", sent, docs)
    <3>1. out' = sent /\ docs' = docs /\ req' = req /\ pc' = "done"
      BY <2>1 DEF Reply
    <3>2. Len(out'.statuses) = N
      BY <2>1, <3>1
    <3> QED BY <1>2, <2>1, <3>1, <3>2 DEF SentServed
  <2>2. CASE /\ n # N /\ out' = BatchWrite(sent, one) /\ docs' = one.docs /\ pc' = "writing"
             /\ req' = req
    <3>1. SentGood(out', req.docs, docs', req.writes, req.now, n + 1)
      <4> HIDE DEF sent, n
      <4>1. n \in Nat /\ SentGood(sent, req.docs, docs, req.writes, req.now, n)
        BY <1>2
      <4> QED BY <2>2, <4>1, SentStep
    <3>2. Len(out'.statuses) = n + 1
      BY <3>1 DEF SentGood
    <3>3. n + 1 <= N
      BY <1>2, <2>2
    <3> HIDE DEF n
    <3> QED BY <2>2, <3>1, <3>2, <3>3 DEF SentServed
  <2> QED BY <1>3, <2>1, <2>2
<1> QED BY <1>1, <1>4 DEF ServedInv, Fresh, Stops, TxServed, CommitServed, UpdateServed,
                           RestServed, SweepServed

(***************************************************************************)
(* Whatever the request and the documents it meets, a finished Commit,     *)
(* transaction, UpdateDocument, REST call or sweep has been answered with  *)
(* what the code computes from the documents met, and has stored just      *)
(* that; a BatchWrite has, after each of its SQL transactions, one result  *)
(* and one status per write so far.                                        *)
(***************************************************************************)
LEMMA AlwaysServed == Spec => []ServedInv
<1>1. ServedInv /\ [Next]_vars => ServedInv'
  <2> SUFFICES ASSUME ServedInv, [Next]_vars
               PROVE  ServedInv'
    OBVIOUS
  <2>1. CASE req.type \notin Own
    BY <2>1, OtherSteps
  <2>2. CASE UNCHANGED vars
    BY <2>2 DEF vars, ServedInv, Fresh, Stops, Answered, CommitServed, TxServed, UpdateServed,
                RestServed, SweepServed, SentServed
  <2>3. CASE req.type \in Own /\ Next
    BY <2>3, OwnSteps, CommitStep, TxStep, UpdateStep, RestStep, SweepStep, BatchWriteStep
  <2> QED BY <2>1, <2>2, <2>3
<1> QED BY <1>1, InitServed, PTL DEF Spec

-----------------------------------------------------------------------------
(***************************************************************************)
(* One update: the field masks and the transforms.                         *)
(***************************************************************************)

\* The write of OneUpdate, and the document it meets.
W == req.writes[1]

Met == req.docs[W.path]

Stored == docs[W.path]

\* What the write of a finished commit, and of a finished UpdateDocument, stored.
LEMMA CommitStored ==
  ASSUME ServedInv, OneUpdate({"commit"})
  PROVE  /\ Stored.fields = Updated(W, Met, req.now).fields
         /\ out[1].values = TransformResults(W.transforms, Met.fields, req.now)
<1>1. /\ req.type = "commit" /\ pc = "done" /\ Len(req.writes) = 1 /\ W.op = "update"
      /\ req \in Inputs
  BY DEF OneUpdate, W, ServedInv
<1>2. IsList(req.writes) /\ WellFormed(W, req.docs)
  BY <1>1, WritesOf DEF W
<1> DEFINE done == applyWriteBatch(req.docs, req.writes, req.now)
           up == Updated(W, Met, req.now)
<1>3. pc = (IF done.status = "OK" THEN "done" ELSE done.status) /\ out = done.results /\ docs = done.docs
  BY <1>1 DEF ServedInv, CommitServed, Answered
<1>4. done.status \in Codes \cup {"OK"}
  BY <1>2, BatchIsGood DEF BatchGood
<1>5. done.status = "OK"
  BY <1>1, <1>3, <1>4 DEF Codes
<1>6. /\ docs = ApplyWrite(req.docs, W, req.now).docs
      /\ out[1] = ApplyWrite(req.docs, W, req.now).result
  BY <1>1, <1>2, <1>3, <1>5, BatchOfOne DEF W
<1>7. ApplyWrite(req.docs, W, req.now) =
        [docs   |-> Store(req.docs, W.path, [fields |-> up.fields, at |-> req.now]),
         result |-> [at |-> req.now, values |-> up.results]]
  BY <1>1 DEF ApplyWrite, Met
<1>8. up.results = TransformResults(W.transforms, Met.fields, req.now)
  BY DEF Updated
<1>9. W.path \in DOMAIN req.docs
  BY <1>2 DEF WellFormed
<1> HIDE DEF done, up
<1>10. docs[W.path] = [fields |-> up.fields, at |-> req.now]
  BY <1>6, <1>7, <1>9 DEF Store
<1>11. out[1].values = up.results
  BY <1>6, <1>7
<1> QED BY <1>8, <1>10, <1>11 DEF Stored, up

LEMMA UpdateStored ==
  ASSUME ServedInv, OneUpdate({"update"}), W.mask # <<>>
  PROVE  Stored.fields = applyMask(Met.fields, W.fields, W.mask)
<1>1. /\ req.type = "update" /\ pc = "done" /\ Len(req.writes) = 1 /\ W.op = "update"
      /\ req \in Inputs /\ Found(req.docs, W.path)
  BY DEF OneUpdate, W, ServedInv
<1>2. IsList(req.writes) /\ WellFormed(W, req.docs)
  BY <1>1, WritesOf DEF W
<1> DEFINE done == UpdateDocument(req.docs, W, req.now)
           fields == applyMask(Met.fields, W.fields, W.mask)
<1>3. pc = (IF done.status = "OK" THEN "done" ELSE done.status) /\ docs = done.docs
  BY <1>1 DEF ServedInv, UpdateServed, Answered, W
<1>4. done.status = StoreStatus(req.docs, W)
  BY DEF UpdateDocument
<1>5. StoreStatus(req.docs, W) = "OK"
  BY <1>1, <1>3, <1>4, WriteCodes DEF Codes
<1>6. done.docs = Store(req.docs, W.path, [fields |-> fields, at |-> req.now])
  BY <1>1, <1>5 DEF UpdateDocument, Met
<1>7. W.path \in DOMAIN req.docs
  BY <1>2 DEF WellFormed
<1> HIDE DEF done, fields
<1> QED BY <1>3, <1>6, <1>7 DEF Store, Stored, fields

LEMMA WritePaths ==
  ASSUME ServedInv, OneUpdate({"commit", "update"})
  PROVE  /\ W.mask \in Seq(Paths) /\ WellTyped(W.transforms)
         /\ FieldPaths \subseteq Seq(STRING)
<1>1. /\ req.type \in {"commit", "update"} /\ Len(req.writes) = 1 /\ req \in Inputs
  BY DEF OneUpdate, ServedInv
<1>2. WellFormed(W, req.docs)
  BY <1>1, WritesOf DEF W
<1> QED BY <1>2, InputsAssumption DEF WellFormed, WellTyped, Paths

\* A path of an unrelated family is related to none of the others.
LEMMA OthersUnrelated ==
  ASSUME NEW paths, Unrelated(paths), NEW j \in DOMAIN paths
  PROVE  \A i \in DOMAIN paths : i # j => ~Related(paths[j], paths[i])
BY DEF Unrelated

LEMMA MaskExactHolds == ServedInv => MaskExact
<1> SUFFICES ASSUME ServedInv, OneUpdate({"commit", "update"}), W.mask # <<>>,
                    W.transforms = <<>>, Unrelated(W.mask)
             PROVE  /\ \A i \in DOMAIN W.mask : NewAt(W.mask[i]) = lookupNestedField(W.fields, W.mask[i])
                    /\ \A fp \in FieldPaths :
                         (\A i \in DOMAIN W.mask : ~Related(fp, W.mask[i])) => NewAt(fp) = OldAt(fp)
  BY DEF MaskExact, W
<1>1. Stored.fields = applyMask(Met.fields, W.fields, W.mask)
  <2>1. CASE req.type = "commit"
    <3>1. OneUpdate({"commit"})
      BY <2>1 DEF OneUpdate
    <3>2. Stored.fields = Updated(W, Met, req.now).fields
      BY <3>1, CommitStored
    <3> QED BY <3>2 DEF Updated
  <2>2. CASE req.type = "update"
    <3>1. OneUpdate({"update"})
      BY <2>2 DEF OneUpdate
    <3> QED BY <3>1, UpdateStored
  <2> QED BY <2>1, <2>2 DEF OneUpdate
<1>2. W.mask \in Seq(Paths) /\ FieldPaths \subseteq Seq(STRING)
  BY WritePaths
<1>3. ASSUME NEW i \in DOMAIN W.mask
      PROVE  NewAt(W.mask[i]) = lookupNestedField(W.fields, W.mask[i])
  <2>1. W.mask[i] \in Seq(STRING)
    BY <1>2 DEF Paths
  <2>2. IsPrefix(W.mask[i], W.mask[i])
    BY <2>1, SelfPrefix
  <2>3. \A k \in DOMAIN W.mask : k # i => ~Related(W.mask[i], W.mask[k])
    BY OthersUnrelated
  <2>4. lookupNestedField(applyMask(Met.fields, W.fields, W.mask), W.mask[i]) =
          lookupNestedField(W.fields, W.mask[i])
    BY <1>2, <2>1, <2>2, <2>3, MaskThere
  <2> QED BY <1>1, <2>4 DEF NewAt, Stored, W
<1>4. ASSUME NEW fp \in FieldPaths, \A i \in DOMAIN W.mask : ~Related(fp, W.mask[i])
      PROVE  NewAt(fp) = OldAt(fp)
  <2>1. fp \in Seq(STRING)
    BY <1>2
  <2>2. lookupNestedField(applyMask(Met.fields, W.fields, W.mask), fp) =
          lookupNestedField(Met.fields, fp)
    BY <1>2, <1>4, <2>1, MaskElsewhere
  <2> QED BY <1>1, <2>2 DEF NewAt, OldAt, Stored, Met, W
<1> QED BY <1>3, <1>4

LEMMA TransformsKeptHolds == ServedInv => TransformsKept
<1> SUFFICES ASSUME ServedInv, OneUpdate({"commit"}), W.mask = <<>>, W.fields = NoFields,
                    W.transforms # <<>>,
                    NEW fp \in FieldPaths,
                    \A i \in DOMAIN W.transforms : ~Related(fp, W.transforms[i].path)
             PROVE  NewAt(fp) = OldAt(fp)
  BY DEF TransformsKept, W
<1>1. OneUpdate({"commit", "update"})
  BY DEF OneUpdate
<1>2. WellTyped(W.transforms) /\ fp \in Seq(STRING)
  BY <1>1, WritePaths
<1>3. Met # NoDoc
  BY DEF OneUpdate, Found, Met, W, NoDoc
<1>4. BaseFields(W, Met) = Met.fields
  BY <1>3 DEF BaseFields
<1>5. Updated(W, Met, req.now).fields =
        applyFieldTransforms(Met.fields, W.transforms, Met.fields, req.now)
  BY <1>4 DEF Updated
<1>6. Stored.fields = applyFieldTransforms(Met.fields, W.transforms, Met.fields, req.now)
  BY <1>5, CommitStored
<1>7. lookupNestedField(applyFieldTransforms(Met.fields, W.transforms, Met.fields, req.now), fp) =
        lookupNestedField(Met.fields, fp)
  BY <1>2, TransformsElsewhere
<1> QED BY <1>6, <1>7 DEF NewAt, OldAt, Stored, Met, W

\* Two paths, both above or below a third one's end, are related.
LEMMA PrefixesRelated ==
  ASSUME NEW a \in Seq(STRING), NEW b \in Seq(STRING), NEW p \in Seq(STRING),
         IsPrefix(a, p), Related(p, b)
  PROVE  Related(a, b)
<1>1. /\ Len(a) \in Nat /\ Len(b) \in Nat /\ Len(p) \in Nat
      /\ Len(a) <= Len(p) /\ \A i \in 1 .. Len(a) : a[i] = p[i]
  BY PrefixAgrees
<1>2. \A s \in Seq(STRING), t \in Seq(STRING) :
        (Len(s) <= Len(t) /\ \A i \in 1 .. Len(s) : s[i] = t[i]) => IsPrefix(s, t)
  <2> SUFFICES ASSUME NEW s \in Seq(STRING), NEW t \in Seq(STRING), Len(s) <= Len(t),
                      \A i \in 1 .. Len(s) : s[i] = t[i]
               PROVE  IsPrefix(s, t)
    OBVIOUS
  <2>1. SubSeq(s, 1, Len(s)) = SubSeq(t, 1, Len(s))
    OBVIOUS
  <2> QED BY <2>1 DEF IsPrefix
<1>3. CASE IsPrefix(p, b)
  <2>1. Len(p) <= Len(b) /\ \A i \in 1 .. Len(p) : p[i] = b[i]
    BY <1>3, PrefixAgrees
  <2>2. Len(a) <= Len(b) /\ \A i \in 1 .. Len(a) : a[i] = b[i]
    BY <1>1, <2>1
  <2> QED BY <1>2, <2>2 DEF Related
<1>4. CASE IsPrefix(b, p)
  <2>1. Len(b) <= Len(p) /\ \A i \in 1 .. Len(b) : b[i] = p[i]
    BY <1>4, PrefixAgrees
  <2>2. CASE Len(a) <= Len(b)
    <3>1. \A i \in 1 .. Len(a) : a[i] = b[i]
      BY <1>1, <2>1, <2>2
    <3> QED BY <1>2, <2>2, <3>1 DEF Related
  <2>3. CASE Len(b) <= Len(a)
    <3>1. \A i \in 1 .. Len(b) : b[i] = a[i]
      BY <1>1, <2>1, <2>3
    <3> QED BY <1>2, <2>3, <3>1 DEF Related
  <2> QED BY <1>1, <2>2, <2>3
<1> QED BY <1>3, <1>4 DEF Related

LEMMA ReportedIsStoredHolds == ServedInv => ReportedIsStored
<1> DEFINE ts == W.transforms
           paths == [k \in DOMAIN ts |-> ts[k].path]
           Place(k) == Cardinality(Reporting(ts, k))
           Reported == out[1].values
<1> SUFFICES ASSUME ServedInv, OneUpdate({"commit"})
             PROVE  /\ Len(Reported) = Place(Len(ts))
                    /\ (Unrelated(paths) /\ Unrelated(W.mask)) =>
                         \A i \in DOMAIN paths :
                           (/\ Stores(ts[i], Met.fields)
                            /\ W.mask = <<>> \/ \E j \in DOMAIN W.mask : IsPrefix(W.mask[j], paths[i]))
                           => NewAt(paths[i]) = Reported[Place(i)]
  BY DEF ReportedIsStored, W, Met, Reporting
<1>a. OneUpdate({"commit", "update"})
  BY DEF OneUpdate
<1>b. W.mask \in Seq(Paths) /\ WellTyped(ts)
  BY <1>a, WritePaths
<1>c. Placed(ResultsInTurn(ts, Met.fields, req.now), ts, Met.fields, req.now, Len(ts))
  BY <1>b, ResultsPlaced
<1>d. Reported = ResultsInTurn(ts, Met.fields, req.now)[Len(ts)]
  BY CommitStored DEF TransformResults
<1>e. Len(Reported) = Place(Len(ts))
  BY <1>c, <1>d DEF Placed
<1> SUFFICES ASSUME Unrelated(paths), Unrelated(W.mask),
                    NEW i \in DOMAIN ts, Stores(ts[i], Met.fields),
                    W.mask = <<>> \/ \E j \in DOMAIN W.mask : IsPrefix(W.mask[j], ts[i].path)
             PROVE  NewAt(ts[i].path) = Reported[Place(i)]
  BY <1>e
<1> DEFINE p == ts[i].path
           base == BaseFields(W, Met)
           after == applyFieldTransforms(base, ts, Met.fields, req.now)
<1>1. OneUpdate({"commit", "update"})
  BY <1>a
<1>2. W.mask \in Seq(Paths) /\ WellTyped(ts)
  BY <1>b
<1>3. p \in Seq(STRING)
  BY <1>2 DEF WellTyped, Paths
<1>4. \A k \in DOMAIN ts : k # i => ~Related(ts[i].path, ts[k].path)
  BY DEF Unrelated
<1>5. lookupNestedField(after, p) = TransformResult(ts[i], Met.fields, req.now)
  BY <1>2, <1>4, TransformsThere
<1>6. Reported[Place(i)] = TransformResult(ts[i], Met.fields, req.now)
  <2>1. i \in 1 .. Len(ts) /\ ~Ignored(ts[i])
    BY <1>2, TransformPaths DEF Stores
  <2> HIDE DEF Reported, ts
  <2> QED BY <1>c, <1>d, <2>1 DEF Placed
<1>7. ts # <<>>
  OBVIOUS
<1>8. Stored.fields = IF W.mask = <<>> THEN after ELSE applyMask(Met.fields, after, W.mask)
  BY <1>7, CommitStored DEF Updated
<1>9. lookupNestedField(Stored.fields, p) = lookupNestedField(after, p)
  <2>1. CASE W.mask = <<>>
    BY <1>8, <2>1
  <2>2. CASE W.mask # <<>>
    <3> HIDE DEF after
    <3>1. PICK j \in DOMAIN W.mask : IsPrefix(W.mask[j], p)
      BY <2>2
    <3>2. \A k \in DOMAIN W.mask : W.mask[k] \in Seq(STRING)
      BY <1>2 DEF Paths
    <3>3. ASSUME NEW k \in DOMAIN W.mask, k # j, Related(p, W.mask[k])
          PROVE  FALSE
      <4>1. Related(W.mask[j], W.mask[k])
        BY <1>3, <3>1, <3>2, <3>3, PrefixesRelated
      <4> QED BY <3>3, <4>1 DEF Unrelated
    <3>4. \A k \in DOMAIN W.mask : k # j => ~Related(p, W.mask[k])
      BY <3>3
    <3> HIDE DEF p
    <3>5. lookupNestedField(applyMask(Met.fields, after, W.mask), p) = lookupNestedField(after, p)
      BY <1>2, <1>3, <3>1, <3>4, MaskThere
    <3> QED BY <1>8, <2>2, <3>5
  <2> QED BY <2>1, <2>2
<1>10. NewAt(p) = lookupNestedField(Stored.fields, p)
  BY DEF NewAt, Stored, W
<1> QED BY <1>5, <1>6, <1>9, <1>10

-----------------------------------------------------------------------------
(***************************************************************************)
(* One result per write.                                                   *)
(***************************************************************************)
Results == IF req.type = "batchWrite" THEN out.results ELSE out

Ok(i) == req.type = "batchWrite" => out.statuses[i] = "OK"

IsWrite == req.type \in {"commit", "txCommit", "batchWrite", "update"}

\* Where a call that gives results has ended.
Accounted ==
  /\ Len(Results) = Len(req.writes)
  /\ req.type = "batchWrite" =>
       /\ Len(out.statuses) = Len(req.writes)
       /\ \A i \in DOMAIN Results : Ok(i) <=> Results[i].at # 0
  /\ \A p \in DOMAIN docs : docs[p] # req.docs[p] =>
       \E i \in DOMAIN Results :
         /\ req.writes[i].path = p /\ Ok(i)
         /\ docs[p].at \in {Results[i].at, 0}

LEMMA CommitAccounted ==
  ASSUME ServedInv, req.type = "commit", pc = "done"
  PROVE  Accounted
<1> DEFINE done == applyWriteBatch(req.docs, req.writes, req.now)
           N == Len(req.writes)
<1>1. IsList(req.writes)
  BY WritesOf DEF ServedInv
<1>2. pc = (IF done.status = "OK" THEN "done" ELSE done.status) /\ out = done.results /\ docs = done.docs
  BY DEF ServedInv, CommitServed, Answered
<1>3. BatchGood(done, req.docs, req.writes, req.now, N)
  BY <1>1, BatchIsGood
<1> HIDE DEF done
<1>4. done.status = "OK"
  BY <1>2, <1>3 DEF BatchGood, Codes
<1>5. /\ IsList(out) /\ Len(out) = N /\ \A i \in 1 .. N : out[i].at = req.now
      /\ ChangedBy(req.docs, docs, req.writes, req.now, N)
  BY <1>2, <1>3, <1>4 DEF BatchGood
<1>6. DOMAIN out = 1 .. N /\ Results = out /\ \A i : Ok(i)
  BY <1>5, ListFacts DEF Results, Ok
<1> QED BY <1>5, <1>6 DEF Accounted, ChangedBy

LEMMA TxAccounted ==
  ASSUME ServedInv, req.type = "txCommit", pc = "done"
  PROVE  Accounted
<1> DEFINE N == Len(req.writes)
<1>1. IsList(req.writes) /\ N \in Nat /\ DOMAIN req.writes = 1 .. N
  BY WritesOf DEF ServedInv
<1>2. TxStatus(req.writes) = "OK"
  BY DEF ServedInv, TxServed, Answered, TxStatus
<1>3. out = TxResults(req.writes, req.now) /\ docs = TxApply(req.docs, req.writes, req.now)
  BY <1>2 DEF ServedInv, TxServed, Answered
<1>4. out = [i \in 1 .. N |-> [at |-> req.now, values |-> <<>>]]
  BY <1>1, <1>3 DEF TxResults
<1>5. DOMAIN out = 1 .. N /\ Len(out) = N /\ \A i \in 1 .. N : out[i].at = req.now
  BY <1>1, <1>4
<1>6. ChangedBy(req.docs, docs, req.writes, req.now, N)
  BY <1>1, <1>3, TxChanged
<1>7. Results = out /\ \A i : Ok(i)
  BY DEF Results, Ok
<1> QED BY <1>5, <1>6, <1>7 DEF Accounted, ChangedBy

LEMMA BatchWriteAccounted ==
  ASSUME ServedInv, req.type = "batchWrite", pc = "done"
  PROVE  Accounted
<1> DEFINE N == Len(req.writes)
<1>1. req.now # 0
  BY WritesOf DEF ServedInv
<1>2. SentGood(out, req.docs, docs, req.writes, req.now, N) /\ Len(out.statuses) = N
  BY DEF ServedInv, SentServed
<1>3. DOMAIN out.results = 1 .. N /\ Results = out.results /\ Len(out.results) = N
  BY <1>2, ListFacts DEF SentGood, Results
<1>4. \A i : Ok(i) <=> out.statuses[i] = "OK"
  BY DEF Ok
<1>5. \A i \in 1 .. N : out.results[i].at = (IF out.statuses[i] = "OK" THEN req.now ELSE 0)
  BY <1>2 DEF SentGood
<1>6. \A i \in DOMAIN Results : Ok(i) <=> Results[i].at # 0
  BY <1>1, <1>3, <1>4, <1>5
<1>7. ASSUME NEW p \in DOMAIN docs, docs[p] # req.docs[p]
      PROVE  \E i \in DOMAIN Results :
               /\ req.writes[i].path = p /\ Ok(i)
               /\ docs[p].at \in {Results[i].at, 0}
  <2>1. docs[p].at \in {req.now, 0} /\ \E i \in 1 .. N : req.writes[i].path = p /\ out.statuses[i] = "OK"
    BY <1>2, <1>7 DEF SentGood
  <2> QED BY <1>3, <1>4, <1>5, <2>1
<1> QED BY <1>2, <1>3, <1>6, <1>7 DEF Accounted

\* A call that has failed, and one not yet served, leaves the documents alone.
LEMMA FailedKeeps ==
  ASSUME ServedInv, IsWrite, pc \notin {"done", "writing"}
  PROVE  docs = req.docs
<1>1. CASE pc = "new"
  BY <1>1 DEF ServedInv, Fresh
<1>2. CASE pc # "new" /\ req.type = "commit"
  <2> DEFINE done == applyWriteBatch(req.docs, req.writes, req.now)
  <2>1. pc = (IF done.status = "OK" THEN "done" ELSE done.status) /\ docs = done.docs
    BY <1>2 DEF ServedInv, CommitServed, Answered
  <2>2. BatchGood(done, req.docs, req.writes, req.now, Len(req.writes))
    BY <1>2, WritesOf, BatchIsGood DEF ServedInv
  <2> HIDE DEF done
  <2> QED BY <2>1, <2>2 DEF BatchGood
<1>3. CASE pc # "new" /\ req.type = "txCommit"
  BY <1>3 DEF ServedInv, TxServed, Answered
<1>4. CASE pc # "new" /\ req.type = "update"
  <2>1. LET done == UpdateDocument(req.docs, req.writes[1], req.now)
        IN done.status # "OK" /\ docs = done.docs
    BY <1>4 DEF ServedInv, UpdateServed, Answered
  <2> QED BY <2>1 DEF UpdateDocument
<1>5. CASE pc # "new" /\ req.type = "batchWrite"
  BY <1>5 DEF ServedInv, Stops
<1> QED BY <1>1, <1>2, <1>3, <1>4, <1>5 DEF IsWrite

LEMMA ResultPerWriteHolds == ServedInv => ResultPerWrite
<1> SUFFICES ASSUME ServedInv
             PROVE  ResultPerWrite
  OBVIOUS
<1>1. (IsWrite /\ req.type # "update" /\ pc = "done") => Accounted
  BY CommitAccounted, TxAccounted, BatchWriteAccounted DEF IsWrite
<1>2. (IsWrite /\ pc \notin {"done", "writing"}) => docs = req.docs
  BY FailedKeeps
<1> QED BY <1>1, <1>2 DEF ResultPerWrite, Accounted, IsWrite, Results, Ok

-----------------------------------------------------------------------------
(***************************************************************************)
(* The sweep.                                                              *)
(***************************************************************************)

\* The texts of two times in different seconds differ in their first character.
LEMMA SecondsDecide ==
  ASSUME NEW s \in Nat, NEW t \in Nat, Seconds(s) # Seconds(t)
  PROVE  (TextCmp(RFC3339Nano(s), RFC3339Nano(t)) < 0) <=> (Seconds(s) < Seconds(t))
<1> DEFINE a == RFC3339Nano(s)
           b == RFC3339Nano(t)
           differ == {i \in 1 .. Len(a) : i <= Len(b) /\ a[i] # b[i]}
           first == CHOOSE i \in differ : \A j \in differ : i <= j
<1>1. Seconds(s) \in Int /\ Seconds(t) \in Int
  BY DEF Seconds
<1>2. a[1] = Seconds(s) /\ Len(a) \in Nat /\ Len(a) >= 1
  BY DEF RFC3339Nano, protojsonTime
<1>3. b[1] = Seconds(t) /\ Len(b) \in Nat /\ Len(b) >= 1
  BY DEF RFC3339Nano, protojsonTime
<1>4. TextCmp(a, b) = IF differ = {} THEN Sign(Len(a) - Len(b)) ELSE Sign(a[first] - b[first])
  BY DEF TextCmp
<1> HIDE DEF a, b
<1>5. 1 \in differ /\ \A j \in differ : 1 <= j
  BY <1>2, <1>3
<1>6. first = 1
  <2>1. first \in differ /\ \A j \in differ : first <= j
    BY <1>5
  <2>2. \A i \in differ : i \in Int
    OBVIOUS
  <2> HIDE DEF differ, first
  <2> QED BY <1>5, <2>1, <2>2
<1>7. TextCmp(a, b) = Sign(Seconds(s) - Seconds(t))
  BY <1>2, <1>3, <1>4, <1>5, <1>6
<1> QED BY <1>1, <1>7 DEF Sign, a, b

LEMMA SweepRightHolds == ServedInv => SweepRight
<1> SUFFICES ASSUME ServedInv, req.type = "sweep", pc = "done"
             PROVE  /\ out[1] => Seconds(req.expires) <= Seconds(req.now)
                    /\ Seconds(req.expires) < Seconds(req.now) => out[1]
  BY DEF SweepRight
<1>1. req.expires \in Nat /\ req.now \in Nat
  BY InputsAssumption DEF ServedInv
<1>2. out = <<TextCmp(RFC3339Nano(req.expires), RFC3339Nano(req.now)) < 0>>
  BY DEF ServedInv, SweepServed
<1>3. out[1] <=> (TextCmp(RFC3339Nano(req.expires), RFC3339Nano(req.now)) < 0)
  BY <1>2
<1>4. Seconds(req.expires) \in Int /\ Seconds(req.now) \in Int
  BY <1>1 DEF Seconds
<1> QED BY <1>1, <1>3, <1>4, SecondsDecide

-----------------------------------------------------------------------------
(***************************************************************************)
(* REST names.                                                             *)
(***************************************************************************)
LEMMA Concats ==
  /\ <<>> \o <<>> = <<>>
  /\ \A x : <<>> \o <<x>> = <<x>> /\ <<x>> \o <<>> = <<x>>
OBVIOUS

LEMMA Pairs ==
  ASSUME NEW x, NEW y
  PROVE  LET s == <<y>> \o <<x>>
         IN s # <<>> /\ s \o <<>> = s /\ <<>> \o s = s /\ Last(s) = x
<1> DEFINE s == <<y>> \o <<x>>
<1>1. <<y>> \in Seq({x, y}) /\ <<x>> \in Seq({x, y}) /\ Len(<<y>>) = 1 /\ Len(<<x>>) = 1
      /\ <<x>>[1] = x
  OBVIOUS
<1>2. s \in Seq({x, y}) /\ Len(s) = 2
  BY <1>1
<1>3. s[2] = x
  BY <1>1
<1> HIDE DEF s
<1>4. s # <<>> /\ s \o <<>> = s /\ <<>> \o s = s
  BY <1>2
<1>5. Last(s) = x
  BY <1>2, <1>3 DEF Last
<1> QED BY <1>4, <1>5 DEF s

\* What a pattern binds is not NotBound.
LEMMA BoundArgs ==
  ASSUME NEW a, NEW b
  PROVE  /\ [parent |-> a] # NotBound /\ [name |-> a] # NotBound
         /\ [parent |-> a, collection_id |-> b] # NotBound
<1>1. DOMAIN NotBound = {}
  BY DEF NotBound
<1>2. /\ "parent" \in DOMAIN [parent |-> a] /\ "name" \in DOMAIN [name |-> a]
      /\ "parent" \in DOMAIN [parent |-> a, collection_id |-> b]
  OBVIOUS
<1> QED BY <1>1, <1>2

\* A route that does not match adds no handler.
LEMMA RouteOff ==
  ASSUME NEW url, NEW rpc, NEW method, NEW verb, NEW bound,
         url.method # method \/ verb \notin {NoVerb, url.verb} \/ bound = NotBound
  PROVE  Route(url, rpc, method, verb, bound) = <<>>
BY DEF Route

\* The verbs of the routes are not the missing one.
LEMMA NoVerbs ==
  /\ NoVerb # "batchGet" /\ NoVerb # "beginTransaction" /\ NoVerb # "commit"
  /\ NoVerb # "rollback" /\ NoVerb # "runQuery" /\ NoVerb # "executePipeline"
  /\ NoVerb # "runAggregationQuery" /\ NoVerb # "partitionQuery"
  /\ NoVerb # "listCollectionIds" /\ NoVerb # "batchWrite"
BY DEF NoVerb

\* The handlers of the other methods.
LEMMA MuxMethods ==
  ASSUME NEW url
  PROVE  /\ url.method # "GET" => GetHandlers(url) = <<>>
         /\ url.method # "PATCH" => UpdateDocument_0(url) = <<>>
         /\ url.method # "DELETE" => DeleteDocument_0(url) = <<>>
         /\ url.method # "POST" => PostHandlers(url) = <<>>
<1>1. url.method # "GET" => GetHandlers(url) = <<>>
  <2> SUFFICES ASSUME url.method # "GET"
               PROVE  GetHandlers(url) = <<>>
    OBVIOUS
  <2>1. GetDocument_0(url) = <<>> /\ ListDocuments_0(url) = <<>> /\ ListDocuments_1(url) = <<>>
    BY RouteOff DEF GetDocument_0, ListDocuments_0, ListDocuments_1
  <2> QED BY <2>1, Concats DEF GetHandlers
<1>2. url.method # "PATCH" => UpdateDocument_0(url) = <<>>
  BY RouteOff DEF UpdateDocument_0
<1>3. url.method # "DELETE" => DeleteDocument_0(url) = <<>>
  BY RouteOff DEF DeleteDocument_0
<1>4. url.method # "POST" => PostHandlers(url) = <<>>
  <2> SUFFICES ASSUME url.method # "POST"
               PROVE  PostHandlers(url) = <<>>
    OBVIOUS
  <2>1. /\ BatchGetDocuments_0(url) = <<>> /\ BeginTransaction_0(url) = <<>>
        /\ Commit_0(url) = <<>> /\ Rollback_0(url) = <<>> /\ ExecutePipeline_0(url) = <<>>
        /\ BatchWrite_0(url) = <<>> /\ CreateDocument_0(url) = <<>>
    BY RouteOff DEF BatchGetDocuments_0, BeginTransaction_0, Commit_0, Rollback_0,
                    ExecutePipeline_0, BatchWrite_0, CreateDocument_0
  <2>2. /\ RunQuery_0(url) = <<>> /\ RunQuery_1(url) = <<>>
        /\ RunAggregationQuery_0(url) = <<>> /\ RunAggregationQuery_1(url) = <<>>
        /\ PartitionQuery_0(url) = <<>> /\ PartitionQuery_1(url) = <<>>
        /\ ListCollectionIds_0(url) = <<>> /\ ListCollectionIds_1(url) = <<>>
    BY RouteOff DEF RunQuery_0, RunQuery_1, RunAggregationQuery_0, RunAggregationQuery_1,
                    PartitionQuery_0, PartitionQuery_1, ListCollectionIds_0, ListCollectionIds_1
  <2> QED BY <2>1, <2>2, Concats DEF PostHandlers
<1> QED BY <1>1, <1>2, <1>3, <1>4

\* The mux, when one handler answers.
LEMMA MuxOne ==
  ASSUME NEW url, NEW x,
         GetHandlers(url) \o UpdateDocument_0(url) \o DeleteDocument_0(url) \o PostHandlers(url) = <<x>>
  PROVE  ServeMux(url) = x
BY DEF ServeMux, Last

LEMMA MuxPost ==
  ASSUME NEW url, url.method = "POST", NEW x, PostHandlers(url) = <<x>>
  PROVE  ServeMux(url) = x
<1>1. GetHandlers(url) = <<>> /\ UpdateDocument_0(url) = <<>> /\ DeleteDocument_0(url) = <<>>
  BY MuxMethods
<1> QED BY <1>1, Concats, MuxOne

\* A document is created by the last route of POST.
LEMMA CreateRoute ==
  ASSUME NEW url, url.method = "POST", url.verb = NoVerb, url.segs # <<>>
  PROVE  ServeMux(url) =
           [rpc  |-> "CreateDocument",
            args |-> [parent |-> Documents \o Deep(Front(url.segs)), collection_id |-> Last(url.segs)]]
<1> DEFINE args == [parent |-> Documents \o Deep(Front(url.segs)), collection_id |-> Last(url.segs)]
<1>1. /\ BatchGetDocuments_0(url) = <<>> /\ BeginTransaction_0(url) = <<>>
      /\ Commit_0(url) = <<>> /\ Rollback_0(url) = <<>> /\ ExecutePipeline_0(url) = <<>>
      /\ BatchWrite_0(url) = <<>>
  BY RouteOff, NoVerbs DEF BatchGetDocuments_0, BeginTransaction_0, Commit_0, Rollback_0,
                  ExecutePipeline_0, BatchWrite_0
<1>2. /\ RunQuery_0(url) = <<>> /\ RunQuery_1(url) = <<>>
      /\ RunAggregationQuery_0(url) = <<>> /\ RunAggregationQuery_1(url) = <<>>
      /\ PartitionQuery_0(url) = <<>> /\ PartitionQuery_1(url) = <<>>
      /\ ListCollectionIds_0(url) = <<>> /\ ListCollectionIds_1(url) = <<>>
  BY RouteOff, NoVerbs DEF RunQuery_0, RunQuery_1, RunAggregationQuery_0, RunAggregationQuery_1,
                  PartitionQuery_0, PartitionQuery_1, ListCollectionIds_0, ListCollectionIds_1
<1>3. CreatePattern(Spelled(url)) = args /\ args # NotBound
  BY BoundArgs DEF CreatePattern, Spelled
<1> HIDE DEF args
<1>4. CreateDocument_0(url) = <<[rpc |-> "CreateDocument", args |-> args]>>
  BY <1>3 DEF CreateDocument_0, Route
<1>5. PostHandlers(url) = <<[rpc |-> "CreateDocument", args |-> args]>>
  BY <1>1, <1>2, <1>4, Concats DEF PostHandlers
<1> QED BY <1>5, MuxPost DEF args

\* The gateway's own routes of the intercepted queries.
OwnRoutes(url) ==
  RunQuery_0(url) \o RunQuery_1(url) \o RunAggregationQuery_0(url) \o RunAggregationQuery_1(url)

LEMMA QueryRoutes ==
  ASSUME NEW url, url.method = "POST", url.verb \in {"runQuery", "runAggregationQuery"}
  PROVE  /\ OwnRoutes(url) # <<>>
         /\ OwnRoutes(url)[1].args =
              IF url.segs = <<>> THEN [parent |-> Documents]
              ELSE [parent |-> Documents \o <<url.segs[1]>> \o Deep(Tail(url.segs))]
<1> DEFINE root == [parent |-> Documents]
           below == [parent |-> Documents \o <<url.segs[1]>> \o Deep(Tail(url.segs))]
           args == IF url.segs = <<>> THEN root ELSE below
<1>1. /\ RootPattern(url.segs) = IF url.segs = <<>> THEN root ELSE NotBound
      /\ BelowPattern(url.segs) = IF url.segs = <<>> THEN NotBound ELSE below
      /\ root # NotBound /\ below # NotBound
  BY BoundArgs DEF RootPattern, BelowPattern
<1> HIDE DEF root, below
<1>2. ASSUME NEW x, x.args = args, OwnRoutes(url) = <<x>>
      PROVE  OwnRoutes(url) # <<>> /\ OwnRoutes(url)[1].args = args
  <2>1. <<x>>[1] = x /\ <<x>> # <<>>
    OBVIOUS
  <2> HIDE DEF args
  <2> QED BY <1>2, <2>1
<1>3. CASE url.verb = "runQuery"
  <2> DEFINE x == [rpc |-> "RunQuery", args |-> args]
  <2>1. RunAggregationQuery_0(url) = <<>> /\ RunAggregationQuery_1(url) = <<>>
    BY <1>3, RouteOff, NoVerbs DEF RunAggregationQuery_0, RunAggregationQuery_1
  <2>2. \/ RunQuery_0(url) = <<x>> /\ RunQuery_1(url) = <<>>
        \/ RunQuery_0(url) = <<>> /\ RunQuery_1(url) = <<x>>
    BY <1>1, <1>3 DEF RunQuery_0, RunQuery_1, Route
  <2>3. x.args = args
    OBVIOUS
  <2> HIDE DEF x
  <2>4. OwnRoutes(url) = <<x>>
    BY <2>1, <2>2, Concats DEF OwnRoutes
  <2> QED BY <1>2, <2>3, <2>4 DEF root, below
<1>4. CASE url.verb = "runAggregationQuery"
  <2> DEFINE x == [rpc |-> "RunAggregationQuery", args |-> args]
  <2>1. RunQuery_0(url) = <<>> /\ RunQuery_1(url) = <<>>
    BY <1>4, RouteOff, NoVerbs DEF RunQuery_0, RunQuery_1
  <2>2. \/ RunAggregationQuery_0(url) = <<x>> /\ RunAggregationQuery_1(url) = <<>>
        \/ RunAggregationQuery_0(url) = <<>> /\ RunAggregationQuery_1(url) = <<x>>
    BY <1>1, <1>4 DEF RunAggregationQuery_0, RunAggregationQuery_1, Route
  <2>3. x.args = args
    OBVIOUS
  <2> HIDE DEF x
  <2>4. OwnRoutes(url) = <<x>>
    BY <2>1, <2>2, Concats DEF OwnRoutes
  <2> QED BY <1>2, <2>3, <2>4 DEF root, below
<1> QED BY <1>3, <1>4

\* A document's own URL.
LEMMA NameRoutes ==
  ASSUME NEW url, url.method \in {"PATCH", "DELETE"}, url.verb = NoVerb, url.segs # <<>>
  PROVE  /\ ServeMux(url).rpc \in {"UpdateDocument", "DeleteDocument"}
         /\ ServeMux(url).args = [name |-> Documents \o <<url.segs[1]>> \o Deep(Tail(url.segs))]
<1> DEFINE args == [name |-> Documents \o <<url.segs[1]>> \o Deep(Tail(url.segs))]
<1>1. NamePattern(Spelled(url)) = args /\ args # NotBound
  BY BoundArgs DEF NamePattern, Spelled
<1> HIDE DEF args
<1>2. GetHandlers(url) = <<>> /\ PostHandlers(url) = <<>>
  BY MuxMethods
<1>3. CASE url.method = "PATCH"
  <2>1. UpdateDocument_0(url) = <<[rpc |-> "UpdateDocument", args |-> args]>>
    BY <1>1, <1>3 DEF UpdateDocument_0, Route
  <2>2. DeleteDocument_0(url) = <<>>
    BY <1>3, MuxMethods
  <2> DEFINE x == [rpc |-> "UpdateDocument", args |-> args]
  <2>3. x.rpc = "UpdateDocument" /\ x.args = args
    OBVIOUS
  <2> HIDE DEF x
  <2>4. ServeMux(url) = x
    BY <1>2, <2>1, <2>2, Concats, MuxOne DEF x
  <2>5. ServeMux(url).rpc = "UpdateDocument" /\ ServeMux(url).args = args
    BY <2>3, <2>4
  <2> QED BY <2>5 DEF args
<1>4. CASE url.method = "DELETE"
  <2>1. DeleteDocument_0(url) = <<[rpc |-> "DeleteDocument", args |-> args]>>
    BY <1>1, <1>4 DEF DeleteDocument_0, Route
  <2>2. UpdateDocument_0(url) = <<>>
    BY <1>4, MuxMethods
  <2> DEFINE x == [rpc |-> "DeleteDocument", args |-> args]
  <2>3. x.rpc = "DeleteDocument" /\ x.args = args
    OBVIOUS
  <2> HIDE DEF x
  <2>4. ServeMux(url) = x
    BY <1>2, <2>1, <2>2, Concats, MuxOne DEF x
  <2>5. ServeMux(url).rpc = "DeleteDocument" /\ ServeMux(url).args = args
    BY <2>3, <2>4
  <2> QED BY <2>5 DEF args
<1> QED BY <1>3, <1>4

LEMMA OneOrMore ==
  ASSUME NEW n \in Nat, n = 1 \/ n > 2
  PROVE  (n < 2) <=> (n = 1)
OBVIOUS

\* A collection's URL: one segment, or three and more.
LEMMA ListRoute ==
  ASSUME NEW url, url.method = "GET", url.verb = NoVerb, Len(url.segs) \in Nat,
         Len(url.segs) = 1 \/ Len(url.segs) > 2
  PROVE  /\ ServeMux(url).rpc = "ListDocuments"
         /\ ServeMux(url).args =
              IF Len(url.segs) = 1 THEN [parent |-> Documents, collection_id |-> url.segs[1]]
              ELSE [parent |-> Documents \o <<url.segs[1]>>
                                 \o Deep(SubSeq(url.segs, 2, Len(url.segs) - 1)),
                    collection_id |-> Last(url.segs)]
<1> DEFINE top == [parent |-> Documents, collection_id |-> url.segs[1]]
           nested == [parent |-> Documents \o <<url.segs[1]>> \o Deep(SubSeq(url.segs, 2, Len(url.segs) - 1)),
                      collection_id |-> Last(url.segs)]
<1>1. /\ TopPattern(url.segs) = IF Len(url.segs) = 1 THEN top ELSE NotBound
      /\ NestedPattern(url.segs) = IF Len(url.segs) = 1 THEN NotBound ELSE nested
      /\ top # NotBound /\ nested # NotBound
  <2>1. TopPattern(url.segs) = IF Len(url.segs) = 1 THEN top ELSE NotBound
    BY DEF TopPattern
  <2>2. NestedPattern(url.segs) = IF Len(url.segs) = 1 THEN NotBound ELSE nested
    <3>1. (Len(url.segs) < 2) <=> (Len(url.segs) = 1)
      BY OneOrMore
    <3> QED BY <3>1 DEF NestedPattern
  <2>3. top # NotBound /\ nested # NotBound
    BY BoundArgs
  <2> QED BY <2>1, <2>2, <2>3
<1> HIDE DEF top, nested
<1>2. UpdateDocument_0(url) = <<>> /\ DeleteDocument_0(url) = <<>> /\ PostHandlers(url) = <<>>
  BY MuxMethods
<1> DEFINE args == IF Len(url.segs) = 1 THEN top ELSE nested
           x == [rpc |-> "ListDocuments", args |-> args]
<1>3. x.args = args /\ x.rpc = "ListDocuments"
  OBVIOUS
<1>4. \/ ListDocuments_0(url) = <<x>> /\ ListDocuments_1(url) = <<>>
      \/ ListDocuments_0(url) = <<>> /\ ListDocuments_1(url) = <<x>>
  <2>1. Spelled(url) = url.segs
    BY DEF Spelled
  <2> QED BY <1>1, <2>1 DEF ListDocuments_0, ListDocuments_1, Route
<1>5. GetDocument_0(url) = <<>> \/ \E y : GetDocument_0(url) = <<y>>
  BY DEF GetDocument_0, Route
<1> HIDE DEF x
<1>6. GetHandlers(url) = <<x>> \/ \E y : GetHandlers(url) = <<y>> \o <<x>>
  <2>1. CASE GetDocument_0(url) = <<>>
    BY <1>4, <2>1, Concats DEF GetHandlers
  <2>2. ASSUME NEW y, GetDocument_0(url) = <<y>>
        PROVE  GetHandlers(url) = <<y>> \o <<x>>
    BY <1>4, <2>2, Concats, Pairs DEF GetHandlers
  <2> QED BY <1>5, <2>1, <2>2
<1>7. ServeMux(url) = x
  <2>1. CASE GetHandlers(url) = <<x>>
    BY <1>2, <2>1, Concats, MuxOne
  <2>2. ASSUME NEW y, GetHandlers(url) = <<y>> \o <<x>>
        PROVE  ServeMux(url) = x
    <3> DEFINE s == <<y>> \o <<x>>
    <3>1. s # <<>> /\ s \o <<>> = s /\ Last(s) = x /\ GetHandlers(url) = s
      BY <2>2, Pairs
    <3> HIDE DEF s
    <3>2. GetHandlers(url) \o UpdateDocument_0(url) \o DeleteDocument_0(url) \o PostHandlers(url) = s
      BY <1>2, <3>1
    <3> QED BY <3>1, <3>2 DEF ServeMux
  <2> QED BY <1>6, <2>1, <2>2
<1> QED BY <1>3, <1>7 DEF top, nested

\* The segment that all names start with.
LEMMA DocumentsOne == \E d : Documents = <<d>>
BY DEF Documents

\* A sequence after one element and after its first two.
LEMMA HeadAndTail ==
  ASSUME NEW S, NEW d \in S, NEW segs \in Seq(S), NEW n \in Nat, n = Len(segs), n > 1
  PROVE  <<d>> \o <<segs[1]>> \o Tail(segs) = <<d>> \o segs
<1>1. segs = <<segs[1]>> \o Tail(segs)
  <2>1. 1 \in 1 .. Len(segs) /\ Len(segs) \in 1 .. Len(segs) /\ segs # <<>>
    OBVIOUS
  <2>2. Tail(segs) = SubSeq(segs, 2, Len(segs))
    BY <2>1, TailIsSubSeq
  <2>3. SubSeq(segs, 1, Len(segs)) = <<segs[1]>> \o SubSeq(segs, 1 + 1, Len(segs))
    BY <2>1, SubSeqRecursiveFirst
  <2>4. SubSeq(segs, 1, Len(segs)) = segs
    BY SubSeqFull
  <2> QED BY <2>2, <2>3, <2>4
<1>2. <<d>> \in Seq(S) /\ <<segs[1]>> \in Seq(S) /\ Tail(segs) \in Seq(S)
  OBVIOUS
<1>3. (<<d>> \o <<segs[1]>>) \o Tail(segs) = <<d>> \o (<<segs[1]>> \o Tail(segs))
  BY <1>2, ConcatAssociative
<1> QED BY <1>1, <1>3

\* A name below the database, whether it was bound segment by segment or not.
LEMMA SegsBelow ==
  ASSUME NEW S, NEW segs \in Seq(S), NEW n \in Nat, n = Len(segs), n > 1
  PROVE  Documents \o <<segs[1]>> \o Deep(Tail(segs)) = Documents \o segs
<1>1. PICK d : Documents = <<d>>
  BY DocumentsOne
<1>2. segs \in Seq(S \cup {d}) /\ d \in S \cup {d}
  OBVIOUS
<1>3. <<d>> \o <<segs[1]>> \o Tail(segs) = <<d>> \o segs
  BY <1>2, HeadAndTail
<1>4. Tail(segs) # <<>>
  <2>1. Len(Tail(segs)) = n - 1
    OBVIOUS
  <2>2. n - 1 # 0 /\ Len(<<>>) = 0
    OBVIOUS
  <2> QED BY <2>1, <2>2
<1>5. Deep(Tail(segs)) = Tail(segs)
  BY <1>4 DEF Deep
<1> QED BY <1>1, <1>3, <1>5

\* TrimParent undoes what "**" adds.
LEMMA Trimmed ==
  ASSUME NEW S, NEW f \in Seq(S), EmptySegment \notin S
  PROVE  TrimParent(Documents \o Deep(f)) = Documents \o f
<1>1. PICK d : Documents = <<d>>
  BY DocumentsOne
<1>2. CASE f = <<>>
  <2> DEFINE e == EmptySegment
             s == <<d>> \o <<e>>
  <2>1. Deep(f) = <<EmptySegment>> /\ Documents \o f = <<d>>
    BY <1>1, <1>2 DEF Deep
  <2> HIDE DEF e
  <2>2. s \in Seq({d, e}) /\ Len(s) = 2 /\ s[1] = d /\ s[2] = e
    OBVIOUS
  <2> HIDE DEF s
  <2>3. Last(s) = e
    BY <2>2 DEF Last
  <2>4. Front(s) = <<d>>
    <3>1. Front(s) = SubSeq(s, 1, 1)
      BY <2>2 DEF Front
    <3>2. SubSeq(s, 1, 1) \in Seq({d, e}) /\ Len(SubSeq(s, 1, 1)) = 1 /\ SubSeq(s, 1, 1)[1] = d
      BY <2>2
    <3>3. <<d>> \in Seq({d, e}) /\ Len(<<d>>) = 1 /\ <<d>>[1] = d
      OBVIOUS
    <3>4. SubSeq(s, 1, 1) = <<d>>
      <4>1. \A i \in 1 .. Len(<<d>>) : SubSeq(s, 1, 1)[i] = <<d>>[i]
        BY <3>2, <3>3
      <4> QED BY <3>2, <3>3, <4>1, SeqEqual
    <3> QED BY <3>1, <3>4
  <2> QED BY <1>1, <2>1, <2>3, <2>4 DEF TrimParent, s, e
<1>3. CASE f # <<>>
  <2> DEFINE s == <<d>> \o f
  <2>1. Len(f) \in Nat \ {0} /\ f[Len(f)] \in S
    BY <1>3
  <2>2. Len(s) = Len(f) + 1 /\ s[Len(f) + 1] = f[Len(f)]
    BY <2>1
  <2>3. Deep(f) = f
    BY <1>3 DEF Deep
  <2> HIDE DEF s
  <2>4. Last(s) \in S
    BY <2>1, <2>2 DEF Last
  <2> QED BY <1>1, <2>3, <2>4 DEF TrimParent, s
<1> QED BY <1>2, <1>3

\* ParsePath undoes BuildPath.
LEMMA BuiltParses ==
  ASSUME NEW S, NEW parent \in Seq(S), NEW n \in Nat, Len(parent) = n, n % 2 = 1, NEW coll, NEW id
  PROVE  ParsePath(BuildPath(parent, coll, id)) = [collection_id |-> coll, parent |-> parent]
<1> DEFINE T == S \cup {coll, id}
           path == parent \o <<coll, id>>
<1>1. /\ parent \in Seq(T) /\ <<coll, id>> \in Seq(T)
      /\ Len(<<coll, id>>) = 2 /\ <<coll, id>>[1] = coll
  OBVIOUS
<1> HIDE DEF T
<1>2. path \in Seq(T) /\ Len(path) = n + 2 /\ \A i \in 1 .. n : path[i] = parent[i]
  BY <1>1
<1>3. path[n + 1] = coll
  BY <1>1
<1> HIDE DEF path
<1>4. ~(Len(path) < 3) /\ ~(Len(path) % 2 # 1) /\ Len(path) - 1 = n + 1 /\ Len(path) - 2 = n
  BY <1>2
<1>5. SubSeq(path, 1, n) = parent
  <2>1. /\ SubSeq(path, 1, n) \in Seq(T) /\ Len(SubSeq(path, 1, n)) = n
        /\ \A i \in 1 .. n : SubSeq(path, 1, n)[i] = path[i]
    BY <1>2
  <2> QED BY <1>1, <1>2, <2>1
<1>6. ParsePath(path) =
        [collection_id |-> path[Len(path) - 1], parent |-> SubSeq(path, 1, Len(path) - 2)]
  BY <1>4 DEF ParsePath
<1> QED BY <1>3, <1>4, <1>5, <1>6 DEF BuildPath, path

\* The names of a collection's URL: what is created there is listed there.
LEMMA CreatedIsListed ==
  ASSUME NEW S, NEW segs \in Seq(S), EmptySegment \notin S,
         NEW n \in Nat, n = Len(segs), n % 2 = 1, NEW coll, NEW id
  PROVE  /\ ParsePath(BuildPath(TrimParent(Documents \o Deep(Front(segs))), coll, id)) =
              [collection_id |-> coll, parent |-> Documents \o Front(segs)]
         /\ n = 1 => Documents \o Front(segs) = Documents
         /\ n > 2 => Documents \o <<segs[1]>> \o Deep(SubSeq(segs, 2, n - 1)) =
                       Documents \o Front(segs)
<1> DEFINE f == Front(segs)
           parent == Documents \o f
<1>1. PICK d : Documents = <<d>>
  BY DocumentsOne
<1>2. f \in Seq(S) /\ Len(f) = n - 1 /\ \A i \in 1 .. (n - 1) : f[i] = segs[i]
  BY DEF Front
<1> HIDE DEF f
<1>3. parent \in Seq(S \cup {d}) /\ Len(parent) = n
  <2>1. f \in Seq(S \cup {d}) /\ <<d>> \in Seq(S \cup {d}) /\ Len(<<d>>) = 1
    BY <1>2
  <2> QED BY <1>1, <1>2, <2>1
<1>4. TrimParent(Documents \o Deep(f)) = parent
  BY <1>2, Trimmed
<1> HIDE DEF parent
<1>5. ParsePath(BuildPath(parent, coll, id)) = [collection_id |-> coll, parent |-> parent]
  BY <1>3, BuiltParses
<1>6. n = 1 => parent = Documents
  <2>1. n = 1 => f = <<>>
    BY <1>2
  <2>2. <<d>> \o <<>> = <<d>>
    BY Concats
  <2> QED BY <1>1, <2>1, <2>2 DEF parent
<1>7. ASSUME n > 2
      PROVE  Documents \o <<segs[1]>> \o Deep(SubSeq(segs, 2, n - 1)) = parent
  <2>1. Tail(f) = SubSeq(segs, 2, n - 1)
    <3>1. f = SubSeq(segs, 1, n - 1)
      BY DEF f, Front
    <3>2. 1 \in 1 .. Len(segs) /\ n - 1 \in 1 .. Len(segs)
      BY <1>7
    <3> QED BY <3>1, <3>2, <1>7, HeadTailOfSubSeq
  <2>2. f[1] = segs[1]
    BY <1>2, <1>7
  <2>3. n - 1 \in Nat /\ n - 1 = Len(f) /\ n - 1 > 1
    BY <1>2, <1>7
  <2>4. Documents \o <<f[1]>> \o Deep(Tail(f)) = Documents \o f
    BY <1>2, <2>3, SegsBelow
  <2> QED BY <2>1, <2>2, <2>4 DEF parent
<1> QED BY <1>4, <1>5, <1>6, <1>7 DEF f, parent

\* How many segments a URL has, by its parity.
LEMMA OddSegs ==
  ASSUME NEW S, NEW segs \in Seq(S), NEW n \in Nat, n = Len(segs)
  PROVE  /\ n % 2 # 0 => segs # <<>> /\ n % 2 = 1 /\ (n = 1 \/ n > 2)
         /\ n % 2 = 0 /\ segs # <<>> => n > 1
<1>1. segs = <<>> <=> n = 0
  OBVIOUS
<1>2. n % 2 \in {0, 1} /\ 0 % 2 = 0 /\ 1 % 2 = 1 /\ 2 % 2 = 0
  OBVIOUS
<1> QED BY <1>1, <1>2

LEMMA RestNamesHolds == ServedInv => RestNames
<1> SUFFICES ASSUME ServedInv, req.type = "rest", pc # "new"
             PROVE  RestNames
  BY DEF RestNames
<1> DEFINE url == req.url
           segs == url.segs
           n == Len(segs)
           Names == STRING \ {EmptySegment}
           get == [url EXCEPT !.method = "GET"]
<1>1. url \in [method : STRING, segs : Seq(Names), verb : STRING]
  BY InputsAssumption DEF ServedInv
<1>2. out = Routed(url)
  BY DEF ServedInv, RestServed
<1>3. EmptySegment \notin Names
  OBVIOUS
<1> HIDE DEF Names
<1>4. segs \in Seq(Names) /\ n \in Nat
  BY <1>1
<1>5. get.method = "GET" /\ get.verb = url.verb /\ get.segs = segs
  BY <1>1
<1>6. ~Intercepted(url) => out = ServeMux(url)
  BY <1>2 DEF Routed
<1>7. url.verb = NoVerb => ~Intercepted(url)
  BY NoVerbs DEF Intercepted
<1>8. /\ n % 2 # 0 => segs # <<>> /\ n % 2 = 1 /\ (n = 1 \/ n > 2)
      /\ n % 2 = 0 /\ segs # <<>> => n > 1
  BY <1>4, OddSegs
<1> HIDE DEF url, n, segs, get
<1>9. ASSUME url.method = "POST", url.verb = NoVerb, n % 2 # 0
      PROVE  /\ out.rpc = "CreateDocument" /\ ServeMux(get).rpc = "ListDocuments"
             /\ ParsePath(CreatedPath(out.args, "id")) = ServeMux(get).args
  <2> DEFINE coll == Last(segs)
  <2>1. out.rpc = "CreateDocument"
        /\ out.args = [parent |-> Documents \o Deep(Front(segs)), collection_id |-> coll]
    <3> DEFINE args == [parent |-> Documents \o Deep(Front(segs)), collection_id |-> coll]
    <3>1. out = ServeMux(url)
      BY <1>6, <1>7, <1>9
    <3>2. ServeMux(url) = [rpc |-> "CreateDocument", args |-> args]
      BY <1>8, <1>9, CreateRoute DEF segs
    <3> HIDE DEF args
    <3>3. out.rpc = "CreateDocument" /\ out.args = args
      BY <3>1, <3>2
    <3> QED BY <3>3 DEF args
  <2>2. /\ ServeMux(get).rpc = "ListDocuments"
        /\ ServeMux(get).args =
             IF n = 1 THEN [parent |-> Documents, collection_id |-> segs[1]]
             ELSE [parent |-> Documents \o <<segs[1]>> \o Deep(SubSeq(segs, 2, n - 1)),
                   collection_id |-> coll]
    BY <1>4, <1>5, <1>8, <1>9, ListRoute DEF n
  <2>3. ASSUME NEW id
        PROVE  /\ ParsePath(BuildPath(TrimParent(Documents \o Deep(Front(segs))), coll, id)) =
                    [collection_id |-> coll, parent |-> Documents \o Front(segs)]
               /\ n = 1 => Documents \o Front(segs) = Documents
               /\ n > 2 => Documents \o <<segs[1]>> \o Deep(SubSeq(segs, 2, n - 1)) =
                             Documents \o Front(segs)
    BY <1>3, <1>4, <1>8, <1>9, CreatedIsListed DEF n
  <2>4. n = 1 => coll = segs[1]
    BY DEF Last, n
  <2> HIDE DEF coll
  <2>5. ServeMux(get).args = [collection_id |-> coll, parent |-> Documents \o Front(segs)]
    <3>1. CASE n = 1
      BY <2>2, <2>3, <2>4, <3>1
    <3>2. CASE n > 2
      <4>1. n # 1
        BY <1>4, <3>2
      <4> QED BY <2>2, <2>3, <3>2, <4>1
    <3> QED BY <1>8, <1>9, <3>1, <3>2
  <2>6. CreatedPath(out.args, "id") =
          BuildPath(TrimParent(Documents \o Deep(Front(segs))), coll, "id")
    BY <2>1 DEF CreatedPath
  <2> QED BY <2>1, <2>2, <2>3, <2>5, <2>6
<1>10. ASSUME url.method \in {"PATCH", "DELETE"}, url.verb = NoVerb, n % 2 = 0, segs # <<>>
       PROVE  /\ out.rpc \in {"UpdateDocument", "DeleteDocument"}
              /\ out.args.name = Documents \o segs
  <2>1. out = ServeMux(url)
    BY <1>6, <1>7, <1>10
  <2>2. Documents \o <<segs[1]>> \o Deep(Tail(segs)) = Documents \o segs
    BY <1>4, <1>8, <1>10, SegsBelow DEF n
  <2>3. /\ ServeMux(url).rpc \in {"UpdateDocument", "DeleteDocument"}
        /\ ServeMux(url).args = [name |-> Documents \o <<segs[1]>> \o Deep(Tail(segs))]
    BY <1>10, NameRoutes DEF segs
  <2> QED BY <2>1, <2>2, <2>3
<1>11. ASSUME Intercepted(url), url.verb # "batchGet", n % 2 = 0
       PROVE  OwnRoutes(url) # <<>> /\ out.args.parent = OwnRoutes(url)[1].args.parent
  <2>1. url.method = "POST" /\ url.verb \in {"runQuery", "runAggregationQuery"}
    BY <1>11 DEF Intercepted
  <2>2. out.args.parent = Documents \o segs
    BY <1>2, <1>11 DEF Routed, InterceptParent, segs
  <2>3. /\ OwnRoutes(url) # <<>>
        /\ OwnRoutes(url)[1].args =
             IF segs = <<>> THEN [parent |-> Documents]
             ELSE [parent |-> Documents \o <<segs[1]>> \o Deep(Tail(segs))]
    BY <2>1, QueryRoutes DEF segs
  <2>4. CASE segs = <<>>
    <3>1. Documents \o <<>> = Documents
      BY DocumentsOne, Concats
    <3> QED BY <2>2, <2>3, <2>4, <3>1
  <2>5. CASE segs # <<>>
    <3>1. Documents \o <<segs[1]>> \o Deep(Tail(segs)) = Documents \o segs
      BY <1>4, <1>8, <1>11, <2>5, SegsBelow DEF n
    <3>2. OwnRoutes(url)[1].args = [parent |-> Documents \o segs]
      BY <2>3, <2>5, <3>1
    <3> DEFINE r == OwnRoutes(url)[1]
    <3> HIDE DEF r
    <3>3. r.args.parent = Documents \o segs
      BY <3>2 DEF r
    <3> QED BY <2>2, <2>3, <3>3 DEF r
  <2> QED BY <2>4, <2>5
<1> QED BY <1>9, <1>10, <1>11 DEF RestNames, OwnRoutes, url, segs, n, get

-----------------------------------------------------------------------------
(***************************************************************************)
(* The properties, from the invariant.                                     *)
(***************************************************************************)

(***************************************************************************)
(* A field mask of any length, with paths of any depth, sets or removes    *)
(* exactly the fields it names: what the masked UpdateDocument and the     *)
(* masked write of Commit do to a document's fields, and what they leave.  *)
(***************************************************************************)
THEOREM MaskAlwaysExact == Spec => []MaskExact
BY AlwaysServed, MaskExactHolds, PTL

(***************************************************************************)
(* A write of transforms alone, any number of them at any depth, leaves    *)
(* the other fields as they were: the base that Commit merges them into is *)
(* the stored document.                                                    *)
(***************************************************************************)
THEOREM TransformsAlwaysKeep == Spec => []TransformsKept
BY AlwaysServed, TransformsKeptHolds, PTL

(***************************************************************************)
(* Transforms are reported in their order, without the ignored ones, and   *)
(* what Commit reports for one is the value it stores, although the two    *)
(* are computed apart; for lists of transforms of any length.              *)
(***************************************************************************)
THEOREM ReportsAreStored == Spec => []ReportedIsStored
BY AlwaysServed, ReportedIsStoredHolds, PTL

(***************************************************************************)
(* Commit, in and out of a transaction, and BatchWrite report one result   *)
(* per write, change a document only through a write reported done, and    *)
(* nothing when they fail, for lists of writes of any length.              *)
(***************************************************************************)
THEOREM ResultsPerWrite == Spec => []ResultPerWrite
BY AlwaysServed, ResultPerWriteHolds, PTL

(***************************************************************************)
(* The REST routes bind, at every depth, the names that the handlers       *)
(* build: what is POSTed to a collection's URL is listed by its GET, and   *)
(* the intercepted parent is the one the gateway's own route for the query *)
(* binds.                                                                  *)
(***************************************************************************)
THEOREM RestNamesAgree == Spec => []RestNames
BY AlwaysServed, RestNamesHolds, PTL

(***************************************************************************)
(* The sweep's comparison of texts without trailing zeros errs by less     *)
(* than a second, at any two times.                                        *)
(***************************************************************************)
THEOREM SweepsRight == Spec => []SweepRight
BY AlwaysServed, SweepRightHolds, PTL

-----------------------------------------------------------------------------
(***************************************************************************)
(* Listings, page by page.                                                 *)
(***************************************************************************)
Below(K, k) == Cardinality({r \in K : r < k})

LEMMA BelowFacts ==
  ASSUME NEW K, IsFiniteSet(K), K \subseteq Int, NEW k \in K
  PROVE  /\ Below(K, k) \in 0 .. (Cardinality(K) - 1)
         /\ \A r \in K : r < k => Below(K, r) < Below(K, k)
<1>1. Cardinality(K) \in Nat
  BY FS_CardinalityType
<1>2. ASSUME NEW r \in K
      PROVE  IsFiniteSet({q \in K : q < r}) /\ Below(K, r) \in Nat
  <2>1. {q \in K : q < r} \in SUBSET K
    OBVIOUS
  <2>2. IsFiniteSet({q \in K : q < r})
    BY <2>1, FS_Subset
  <2> QED BY <2>2, FS_CardinalityType DEF Below
<1>3. ASSUME NEW L \in SUBSET K, IsFiniteSet(L), NEW r \in L, {q \in K : q < r} \subseteq L
      PROVE  Below(K, r) < Cardinality(L)
  <2> DEFINE less == {q \in K : q < r}
  <2>1. less \in SUBSET L /\ r \notin less
    BY <1>3
  <2>2. Cardinality(less) <= Cardinality(L) /\ (Cardinality(L) = Cardinality(less) => L = less)
    BY <1>3, <2>1, FS_Subset
  <2>3. Cardinality(less) # Cardinality(L)
    BY <1>3, <2>1, <2>2
  <2>4. Cardinality(less) \in Nat /\ Cardinality(L) \in Nat
    BY <1>2, <1>3, FS_CardinalityType DEF Below
  <2> HIDE DEF less
  <2>5. Cardinality(less) < Cardinality(L)
    BY <2>2, <2>3, <2>4
  <2> QED BY <2>5 DEF less, Below
<1>4. Below(K, k) < Cardinality(K)
  <2>1. {q \in K : q < k} \subseteq K /\ K \in SUBSET K
    OBVIOUS
  <2> QED BY <1>3, <2>1
<1>5. ASSUME NEW r \in K, r < k
      PROVE  Below(K, r) < Below(K, k)
  <2> DEFINE L == {q \in K : q < k}
  <2>1. L \in SUBSET K /\ IsFiniteSet(L) /\ r \in L
    BY <1>2, <1>5
  <2>2. {q \in K : q < r} \subseteq L
    <3>1. \A q \in K : q < r => q < k
      BY <1>5
    <3> QED BY <3>1
  <2>3. Below(K, r) < Cardinality(L)
    BY <1>3, <2>1, <2>2
  <2> QED BY <2>3 DEF Below
<1>6. Below(K, k) \in Nat
  BY <1>2
<1>7. Below(K, k) \in 0 .. (Cardinality(K) - 1)
  BY <1>1, <1>4, <1>6
<1> QED BY <1>5, <1>7

\* The place of an element in ascending order is the number of those below it.
LEMMA AscendingFacts ==
  ASSUME NEW K, IsFiniteSet(K), K \subseteq Int
  PROVE  /\ Ascending(K) \in Seq(K) /\ Len(Ascending(K)) = Cardinality(K)
         /\ Cardinality(K) \in Nat
         /\ \A i \in 1 .. Cardinality(K) :
              Ascending(K)[i] \in K /\ Below(K, Ascending(K)[i]) = i - 1
         /\ \A k \in K : Below(K, k) + 1 \in 1 .. Cardinality(K)
                         /\ Ascending(K)[Below(K, k) + 1] = k
<1> DEFINE n == Cardinality(K)
           T == 0 .. (n - 1)
           f == [k \in K |-> Below(K, k)]
           A == Ascending(K)
<1>1. n \in Nat
  BY FS_CardinalityType
<1>2. \A k \in K : Below(K, k) \in T /\ \A r \in K : r < k => Below(K, r) < Below(K, k)
  BY BelowFacts
<1> HIDE DEF n
<1>3. ASSUME NEW k \in K, NEW r \in K, Below(K, k) = Below(K, r)
      PROVE  k = r
  <2>1. k \in Int /\ r \in Int /\ Below(K, k) \in Int
    BY <1>1, <1>2
  <2>2. ~(k < r) /\ ~(r < k)
    BY <1>2, <1>3, <2>1
  <2> QED BY <2>1, <2>2
<1>4. f \in Injection(K, T)
  <2>1. f \in [K -> T]
    BY <1>2
  <2>2. \A k, r \in K : f[k] = f[r] => k = r
    BY <1>3
  <2> HIDE DEF T, f
  <2> QED BY <2>1, <2>2 DEF Injection, IsInjective
<1>5. IsFiniteSet(T) /\ Cardinality(T) = n
  <2>1. 0 \in Int /\ n - 1 \in Int
    BY <1>1
  <2>2. IsFiniteSet(T) /\ Cardinality(T) = IF 0 > n - 1 THEN 0 ELSE (n - 1) - 0 + 1
    BY <2>1, FS_Interval
  <2> QED BY <1>1, <2>2
<1>6. f \in Surjection(K, T)
  <2> HIDE DEF f, T
  <2> QED BY <1>4, <1>5, FS_Injection DEF n
<1>7. \A m \in T : \E k \in K : Below(K, k) = m
  BY <1>6 DEF Surjection
<1>8. A = [i \in 1 .. n |-> CHOOSE k \in K : Below(K, k) = i - 1]
  BY DEF Ascending, Below, n
<1> HIDE DEF A, f
<1>9. ASSUME NEW i \in 1 .. n
      PROVE  A[i] \in K /\ Below(K, A[i]) = i - 1
  <2>1. i - 1 \in T
    BY <1>1
  <2>2. A[i] = CHOOSE k \in K : Below(K, k) = i - 1
    BY <1>8
  <2> HIDE DEF T
  <2> QED BY <1>7, <2>1, <2>2
<1>10. A \in Seq(K) /\ Len(A) = n
  BY <1>1, <1>8, <1>9
<1>11. ASSUME NEW k \in K
       PROVE  Below(K, k) + 1 \in 1 .. n /\ A[Below(K, k) + 1] = k
  <2>1. Below(K, k) \in T
    BY <1>2
  <2>2. Below(K, k) + 1 \in 1 .. n /\ (Below(K, k) + 1) - 1 = Below(K, k)
    BY <1>1, <2>1
  <2>3. A[Below(K, k) + 1] \in K /\ Below(K, A[Below(K, k) + 1]) = Below(K, k)
    BY <1>9, <2>2
  <2> QED BY <1>3, <2>2, <2>3
<1> QED BY <1>1, <1>9, <1>10, <1>11 DEF A, n

\* What is below an element, when a set gets bigger.
LEMMA BelowGrows ==
  ASSUME NEW K, NEW L, IsFiniteSet(L), K \subseteq L, NEW k
  PROVE  Below(K, k) \in Nat /\ Below(L, k) \in Nat /\ Below(K, k) <= Below(L, k)
<1> DEFINE a == {r \in K : r < k}
           b == {r \in L : r < k}
<1>1. b \in SUBSET L /\ a \in SUBSET b
  OBVIOUS
<1> HIDE DEF a, b
<1>2. IsFiniteSet(b)
  BY <1>1, FS_Subset
<1>3. IsFiniteSet(a) /\ Cardinality(a) <= Cardinality(b)
  BY <1>1, <1>2, FS_Subset
<1>4. Cardinality(a) \in Nat /\ Cardinality(b) \in Nat
  BY <1>2, <1>3, FS_CardinalityType
<1> QED BY <1>3, <1>4 DEF a, b, Below

\* LIMIT and OFFSET.
SliceLength(offset, n, len) ==
  IF offset + n < len THEN n ELSE IF offset < len THEN len - offset ELSE 0

LEMMA SliceFacts ==
  ASSUME NEW S, NEW s \in Seq(S), NEW offset \in Nat, NEW n \in Nat
  PROVE  /\ Slice(s, offset, n) \in Seq(S)
         /\ Len(Slice(s, offset, n)) = SliceLength(offset, n, Len(s))
         /\ \A i \in 1 .. Len(Slice(s, offset, n)) : Slice(s, offset, n)[i] = s[offset + i]
<1> DEFINE end == IF offset + n < Len(s) THEN offset + n ELSE Len(s)
           t == SubSeq(s, offset + 1, end)
<1>1. end \in Nat /\ end <= Len(s) /\ Len(s) \in Nat
  OBVIOUS
<1> HIDE DEF end
<1>2. \A i \in (offset + 1) .. end : s[i] \in S
  BY <1>1
<1>3. offset + 1 \in Int /\ end \in Int
  BY <1>1
<1>4. /\ t \in Seq(S)
      /\ Len(t) = IF offset + 1 <= end THEN end - (offset + 1) + 1 ELSE 0
      /\ \A i \in 1 .. (end - (offset + 1) + 1) : t[i] = s[(offset + 1) + i - 1]
  BY <1>2, <1>3, SubSeqProperties
<1>5. Len(t) = (IF end > offset THEN end - offset ELSE 0)
  BY <1>1, <1>4
<1>7. Len(t) = SliceLength(offset, n, Len(s))
  BY <1>1, <1>5 DEF SliceLength, end
<1>6. ASSUME NEW i \in 1 .. Len(t)
      PROVE  t[i] = s[offset + i]
  <2>1. i \in 1 .. (end - (offset + 1) + 1) /\ (offset + 1) + i - 1 = offset + i
    BY <1>1, <1>5
  <2> QED BY <1>4, <2>1
<1> QED BY <1>4, <1>6, <1>7 DEF Slice, end

\* A page of a listing: the rows behind the offset, and the token.
LEMMA PageFacts ==
  ASSUME NEW S, NEW s \in Seq(S), NEW offset \in Nat, NEW size \in Nat \ {0}
  PROVE  LET rows == Slice(s, offset, size + 1)
             page == Slice(rows, 0, size)
             token0 == NextToken(offset, size, rows)
         IN /\ page \in Seq(S) /\ offset + size \in Nat \ {0}
            /\ token0 = (IF offset + size < Len(s) THEN offset + size ELSE 0)
            /\ \A i \in 1 .. Len(page) : /\ offset + i \in 1 .. Len(s) /\ page[i] = s[offset + i]
                                         /\ i <= size
            /\ \A j \in 1 .. Len(s) : offset < j /\ j <= offset + size => j - offset \in 1 .. Len(page)
<1> DEFINE rows == Slice(s, offset, size + 1)
           page == Slice(rows, 0, size)
<1>1. size + 1 \in Nat /\ size \in Nat /\ Len(s) \in Nat
  OBVIOUS
<1>2. /\ rows \in Seq(S) /\ Len(rows) = SliceLength(offset, size + 1, Len(s))
      /\ \A i \in 1 .. Len(rows) : rows[i] = s[offset + i]
  <2>1. rows \in Seq(S)
    BY <1>1, SliceFacts
  <2>2. Len(rows) = SliceLength(offset, size + 1, Len(s))
    BY <1>1, SliceFacts
  <2>3. \A i \in 1 .. Len(rows) : rows[i] = s[offset + i]
    BY <1>1, SliceFacts
  <2> QED BY <2>1, <2>2, <2>3
<1> HIDE DEF rows
<1>3. /\ page \in Seq(S) /\ Len(page) = SliceLength(0, size, Len(rows))
      /\ \A i \in 1 .. Len(page) : page[i] = rows[0 + i]
  <2>1. page \in Seq(S)
    BY <1>1, <1>2, SliceFacts
  <2>2. Len(page) = SliceLength(0, size, Len(rows))
    BY <1>1, <1>2, SliceFacts
  <2>3. \A i \in 1 .. Len(page) : page[i] = rows[0 + i]
    BY <1>1, <1>2, SliceFacts
  <2> QED BY <2>1, <2>2, <2>3
<1> HIDE DEF page
<1>4. /\ Len(rows) \in Nat /\ Len(page) \in Nat
      /\ Len(rows) = IF offset + (size + 1) < Len(s) THEN size + 1
                     ELSE IF offset < Len(s) THEN Len(s) - offset ELSE 0
      /\ Len(page) = IF size < Len(rows) THEN size ELSE Len(rows)
  BY <1>1, <1>2, <1>3 DEF SliceLength
<1>5. Len(rows) > size <=> offset + size < Len(s)
  BY <1>1, <1>4
<1>6. NextToken(offset, size, rows) = (IF offset + size < Len(s) THEN offset + size ELSE 0)
  BY <1>5 DEF NextToken
<1>7. ASSUME NEW i \in 1 .. Len(page)
      PROVE  offset + i \in 1 .. Len(s) /\ page[i] = s[offset + i] /\ i <= size
  <2>1. i \in 1 .. Len(rows) /\ i <= size /\ 0 + i = i
    BY <1>1, <1>4
  <2>2. offset + i \in 1 .. Len(s)
    BY <1>1, <1>4, <2>1
  <2>3. page[i] = s[offset + i]
    BY <1>2, <1>3, <2>1
  <2> QED BY <2>1, <2>2, <2>3
<1>8. ASSUME NEW j \in 1 .. Len(s), offset < j, j <= offset + size
      PROVE  j - offset \in 1 .. Len(page)
  <2>1. Len(rows) >= j - offset
    BY <1>1, <1>4, <1>8
  <2> QED BY <1>1, <1>4, <1>8, <2>1
<1>9. offset + size \in Nat \ {0}
  BY <1>1
<1> QED BY <1>3, <1>6, <1>7, <1>8, <1>9 DEF rows, page

Listing == req.type \in {"list", "collections"}

\* What was to be listed at the start, and still is unless something was deleted.
Wanted ==
  LET old == {p \in DOMAIN docs : Found(req.docs, p)}
  IN IF req.type = "list" THEN old ELSE {req.collection[p] : p \in old}

PagesTyped ==
  /\ req \in Inputs /\ pc \in {"new", "page", "done"}
  /\ token \in Nat /\ out \in Seq(Int)
  /\ DOMAIN docs = DOMAIN req.docs
  /\ pc = "new" => token = 0 /\ out = <<>>

\* Nothing is passed over: what was not sent yet is not below the offset.
NothingMissed ==
  deleted = {} =>
    /\ \A p \in DOMAIN docs : Found(req.docs, p) => Found(docs, p)
    /\ pc # "done" => \A k \in Wanted : k \in Range(out) \/ Below(ListKeys, k) >= token
    /\ pc = "done" => Wanted \subseteq Range(out)

\* Nothing is sent twice: what was sent, and is still there, is below the offset.
NothingTwice ==
  created = {} =>
    /\ \A i, j \in DOMAIN out : out[i] = out[j] => i = j
    /\ pc # "done" => \A i \in DOMAIN out : out[i] \in ListKeys => Below(ListKeys, out[i]) < token

PagesInv == Listing => PagesTyped /\ NothingMissed /\ NothingTwice

\* ListKeys, of any request and any table.
KeysOf(r, table) ==
  IF r.type = "list" THEN {p \in DOMAIN table : Found(table, p)}
  ELSE {r.collection[p] : p \in {q \in DOMAIN table : Found(table, q)}}

\* The keys are numbers, finitely many.
LEMMA KeysFinite ==
  ASSUME NEW r \in Inputs, r.type \in {"list", "collections"},
         NEW table, DOMAIN table = DOMAIN r.docs
  PROVE  IsFiniteSet(KeysOf(r, table)) /\ KeysOf(r, table) \subseteq Int
<1>1. /\ IsFiniteSet(DOMAIN table) /\ DOMAIN table \subseteq Int
      /\ r.type = "collections" => \A p \in DOMAIN table : r.collection[p] \in Int
  BY InputsAssumption
<1> DEFINE there == {p \in DOMAIN table : Found(table, p)}
<1>2. there \in SUBSET (DOMAIN table)
  OBVIOUS
<1>3. IsFiniteSet(there) /\ there \subseteq Int
  BY <1>1, <1>2, FS_Subset
<1>4. CASE r.type = "list"
  BY <1>3, <1>4 DEF KeysOf
<1>5. CASE r.type = "collections"
  <2> DEFINE K == {r.collection[p] : p \in there}
             f == [p \in there |-> r.collection[p]]
  <2>1. KeysOf(r, table) = K
    BY <1>5 DEF KeysOf
  <2>2. f \in Surjection(there, K)
    <3>1. f \in [there -> K] /\ \A k \in K : \E p \in there : f[p] = k
      OBVIOUS
    <3> HIDE DEF f, K, there
    <3> QED BY <3>1 DEF Surjection
  <2>3. IsFiniteSet(K)
    <3> HIDE DEF f, K, there
    <3> QED BY <1>3, <2>2, FS_Surjection
  <2>4. K \subseteq Int
    BY <1>1, <1>5
  <2> QED BY <2>1, <2>3, <2>4
<1> QED BY <1>4, <1>5

LEMMA ListKeysOf == ListKeys = KeysOf(req, docs)
BY DEF ListKeys, KeysOf

LEMMA InitPages == RequestsInit => PagesInv
<1> SUFFICES ASSUME RequestsInit, Listing
             PROVE  PagesTyped /\ NothingMissed /\ NothingTwice
  BY DEF PagesInv
<1>1. /\ req \in Inputs /\ docs = req.docs /\ pc = "new" /\ token = 0 /\ out = <<>>
      /\ out \in Seq(Int) /\ DOMAIN out = {}
  BY DEF RequestsInit
<1>2. PagesTyped
  BY <1>1 DEF PagesTyped
<1>3. IsFiniteSet(ListKeys)
  BY <1>2, KeysFinite, ListKeysOf DEF PagesTyped, Listing
<1>4. \A k : Below(ListKeys, k) \in Nat
  BY <1>3, BelowGrows
<1>5. NothingMissed
  BY <1>1, <1>4 DEF NothingMissed
<1>6. NothingTwice
  BY <1>1 DEF NothingTwice
<1> QED BY <1>2, <1>5, <1>6

LEMMA RequestStays == [Next]_vars => req' = req
<1>1. UNCHANGED vars => req' = req
  BY DEF vars
<1>2. QueryStep => req' = req
  BY DEF QueryStep, Decode, QueryDocuments
<1>3. \A p : OtherCreates(p) \/ OtherDeletes(p) => req' = req
  BY DEF OtherCreates, OtherDeletes
<1>4. ListDocuments \/ ListCollectionIds => req' = req
  BY DEF ListDocuments, ListCollectionIds, ListPage
<1>5. RunAggregationQuery => req' = req
  BY DEF RunAggregationQuery, Reply
<1>6. Commit \/ CommitInTransaction \/ UpdateDocumentRpc \/ Rest \/ Sweep => req' = req
  BY DEF Commit, CommitInTransaction, UpdateDocumentRpc, Rest, Sweep, Reply
<1>7. BatchWriteRpc => req' = req
  BY DEF BatchWriteRpc, Reply
<1> QED BY <1>1, <1>2, <1>3, <1>4, <1>5, <1>6, <1>7 DEF Next

\* Somebody else's write changes the listing by one document.
LEMMA PagesCreate ==
  ASSUME Listing, PagesInv, NEW p \in DOMAIN docs, OtherCreates(p)
  PROVE  PagesInv'
<1> DEFINE doc == [fields |-> NoFields, at |-> 1]
<1>1. /\ pc = "page" /\ pc' = pc /\ req' = req /\ token' = token /\ out' = out
      /\ created' # {} /\ deleted' = deleted /\ docs' = Store(docs, p, doc)
  BY DEF OtherCreates
<1>2. PagesTyped /\ NothingMissed
  BY DEF PagesInv
<1>3. /\ DOMAIN docs' = DOMAIN docs
      /\ \A r \in DOMAIN docs : Found(docs, r) => Found(docs', r)
  BY <1>1 DEF Store, Found
<1>4. PagesTyped' /\ Listing'
  BY <1>1, <1>2, <1>3 DEF PagesTyped, Listing
<1>5. ListKeys \subseteq ListKeys'
  BY <1>1, <1>3 DEF ListKeys
<1>6. IsFiniteSet(ListKeys')
  <2>1. ListKeys' = KeysOf(req', docs')
    BY DEF ListKeys, KeysOf
  <2> QED BY <1>4, <2>1, KeysFinite DEF PagesTyped, Listing
<1>7. Wanted' = Wanted
  BY <1>1, <1>3 DEF Wanted
<1>8. NothingMissed'
  <2> SUFFICES ASSUME deleted' = {}
               PROVE  /\ \A r \in DOMAIN docs : Found(req.docs, r) => Found(docs', r)
                      /\ \A k \in Wanted : k \in Range(out) \/ Below(ListKeys', k) >= token
    BY <1>1, <1>3, <1>7 DEF NothingMissed
  <2>1. \A r \in DOMAIN docs : Found(req.docs, r) => Found(docs', r)
    BY <1>1, <1>2, <1>3 DEF NothingMissed
  <2>2. ASSUME NEW k \in Wanted
        PROVE  k \in Range(out) \/ Below(ListKeys', k) >= token
    <3>1. k \in Range(out) \/ Below(ListKeys, k) >= token
      BY <1>1, <1>2 DEF NothingMissed
    <3>2. /\ Below(ListKeys, k) \in Nat /\ Below(ListKeys', k) \in Nat
          /\ Below(ListKeys, k) <= Below(ListKeys', k) /\ token \in Nat
      BY <1>2, <1>5, <1>6, BelowGrows DEF PagesTyped
    <3> QED BY <3>1, <3>2
  <2> QED BY <2>1, <2>2
<1>9. NothingTwice'
  BY <1>1 DEF NothingTwice
<1> QED BY <1>4, <1>8, <1>9 DEF PagesInv

LEMMA PagesDelete ==
  ASSUME Listing, PagesInv, NEW p \in DOMAIN docs, OtherDeletes(p)
  PROVE  PagesInv'
<1>1. /\ pc = "page" /\ pc' = pc /\ req' = req /\ token' = token /\ out' = out
      /\ created' = created /\ deleted' # {} /\ docs' = Store(docs, p, NoDoc)
  BY DEF OtherDeletes
<1>2. PagesTyped /\ NothingTwice
  BY DEF PagesInv
<1>3. /\ DOMAIN docs' = DOMAIN docs
      /\ \A r \in DOMAIN docs : Found(docs', r) => Found(docs, r)
  BY <1>1 DEF Store, Found, NoDoc
<1>4. PagesTyped' /\ Listing'
  BY <1>1, <1>2, <1>3 DEF PagesTyped, Listing
<1>5. ListKeys' \subseteq ListKeys
  BY <1>1, <1>3 DEF ListKeys
<1>6. IsFiniteSet(ListKeys)
  BY <1>2, KeysFinite, ListKeysOf DEF PagesTyped, Listing
<1>7. NothingMissed'
  BY <1>1 DEF NothingMissed
<1>8. NothingTwice'
  <2> SUFFICES ASSUME created = {}
               PROVE  /\ \A i, j \in DOMAIN out : out[i] = out[j] => i = j
                      /\ \A i \in DOMAIN out : out[i] \in ListKeys' => Below(ListKeys', out[i]) < token
    BY <1>1 DEF NothingTwice
  <2>1. \A i, j \in DOMAIN out : out[i] = out[j] => i = j
    BY <1>2 DEF NothingTwice
  <2>2. ASSUME NEW i \in DOMAIN out, out[i] \in ListKeys'
        PROVE  Below(ListKeys', out[i]) < token
    <3>1. Below(ListKeys, out[i]) < token
      BY <1>1, <1>2, <1>5, <2>2 DEF NothingTwice
    <3>2. /\ Below(ListKeys, out[i]) \in Nat /\ Below(ListKeys', out[i]) \in Nat
          /\ Below(ListKeys', out[i]) <= Below(ListKeys, out[i]) /\ token \in Nat
      BY <1>2, <1>5, <1>6, BelowGrows DEF PagesTyped
    <3> QED BY <3>1, <3>2
  <2> QED BY <2>1, <2>2
<1> QED BY <1>4, <1>7, <1>8 DEF PagesInv

LEMMA RangeConcat ==
  ASSUME NEW S, NEW s \in Seq(S), NEW t \in Seq(S)
  PROVE  Range(s \o t) = Range(s) \cup Range(t)
<1> DEFINE m == Len(s)
           n == Len(t)
           u == s \o t
<1>1. /\ m \in Nat /\ n \in Nat /\ DOMAIN s = 1 .. m /\ DOMAIN t = 1 .. n /\ DOMAIN u = 1 .. (m + n)
      /\ \A i \in 1 .. m : u[i] = s[i]
      /\ \A i \in 1 .. n : u[m + i] = t[i]
  OBVIOUS
<1> HIDE DEF m, n, u
<1>2. ASSUME NEW i \in 1 .. (m + n)
      PROVE  u[i] \in Range(s) \cup Range(t)
  <2>1. CASE i <= m
    <3>1. i \in 1 .. m
      BY <1>1, <2>1
    <3> QED BY <1>1, <3>1 DEF Range
  <2>2. CASE i > m
    <3>1. i - m \in 1 .. n /\ m + (i - m) = i
      BY <1>1, <2>2
    <3>2. u[i] = t[i - m]
      BY <1>1, <3>1
    <3> QED BY <1>1, <3>1, <3>2 DEF Range
  <2> QED BY <1>1, <2>1, <2>2
<1>3. ASSUME NEW i \in 1 .. m
      PROVE  s[i] \in Range(u)
  <2>1. i \in 1 .. (m + n) /\ u[i] = s[i]
    BY <1>1
  <2> QED BY <1>1, <2>1 DEF Range
<1>4. ASSUME NEW i \in 1 .. n
      PROVE  t[i] \in Range(u)
  <2>1. m + i \in 1 .. (m + n) /\ u[m + i] = t[i]
    BY <1>1
  <2> QED BY <1>1, <2>1 DEF Range
<1>5. Range(u) \subseteq Range(s) \cup Range(t)
  BY <1>1, <1>2 DEF Range
<1>6. Range(s) \subseteq Range(u) /\ Range(t) \subseteq Range(u)
  BY <1>1, <1>3, <1>4 DEF Range
<1> QED BY <1>5, <1>6 DEF u

\* A page: the keys between two offsets.
PageOf(K, page, offset, size) ==
  /\ \A i \in 1 .. Len(page) : Below(K, page[i]) = offset + i - 1 /\ i <= size
  /\ \A k \in K : (offset <= Below(K, k) /\ Below(K, k) < offset + size) =>
       \E i \in 1 .. Len(page) : page[i] = k

\* The slice of an ascending listing is such a page.
LEMMA PageIsSlice ==
  ASSUME NEW K, \A k : Below(K, k) \in Nat, NEW A \in Seq(K), NEW page \in Seq(K),
         NEW offset \in Nat, NEW size \in Nat,
         Len(A) = Cardinality(K),
         \A i \in 1 .. Cardinality(K) : A[i] \in K /\ Below(K, A[i]) = i - 1,
         \A k \in K : Below(K, k) + 1 \in 1 .. Cardinality(K) /\ A[Below(K, k) + 1] = k,
         \A i \in 1 .. Len(page) : /\ offset + i \in 1 .. Len(A) /\ page[i] = A[offset + i]
                                   /\ i <= size,
         \A j \in 1 .. Len(A) : offset < j /\ j <= offset + size => j - offset \in 1 .. Len(page)
  PROVE  PageOf(K, page, offset, size)
<1>1. Len(A) \in Nat
  OBVIOUS
<1>2. ASSUME NEW i \in 1 .. Len(page)
      PROVE  Below(K, page[i]) = offset + i - 1 /\ i <= size
  <2>1. offset + i \in 1 .. Cardinality(K) /\ page[i] = A[offset + i] /\ i <= size
    OBVIOUS
  <2>2. Below(K, A[offset + i]) = (offset + i) - 1
    BY <2>1
  <2>3. (offset + i) - 1 = offset + i - 1
    OBVIOUS
  <2> QED BY <2>1, <2>2, <2>3
<1>3. ASSUME NEW k \in K, offset <= Below(K, k), Below(K, k) < offset + size
      PROVE  \E i \in 1 .. Len(page) : page[i] = k
  <2> DEFINE j == Below(K, k) + 1
  <2>1. j \in 1 .. Len(A) /\ A[j] = k /\ Below(K, k) \in Nat
    OBVIOUS
  <2>2. offset < j /\ j <= offset + size
    BY <1>3, <2>1
  <2> HIDE DEF j
  <2>3. j - offset \in 1 .. Len(page)
    BY <2>1, <2>2
  <2>4. offset + (j - offset) = j
    BY <1>1, <2>1
  <2>5. page[j - offset] = A[offset + (j - offset)]
    BY <2>3
  <2> QED BY <2>1, <2>3, <2>4, <2>5
<1> QED BY <1>2, <1>3 DEF PageOf

LEMMA NothingPassed ==
  ASSUME NEW K, \A k : Below(K, k) \in Nat, NEW sent \in Seq(Int), NEW page \in Seq(Int),
         NEW offset \in Nat, NEW size \in Nat, PageOf(K, page, offset, size),
         NEW k \in K, k \in Range(sent) \/ Below(K, k) >= offset
  PROVE  k \in Range(sent \o page) \/ Below(K, k) >= offset + size
<1>1. Range(sent \o page) = Range(sent) \cup Range(page)
  BY RangeConcat
<1>2. ASSUME Below(K, k) >= offset, Below(K, k) < offset + size
      PROVE  k \in Range(page)
  <2>1. PICK i \in 1 .. Len(page) : page[i] = k
    BY <1>2 DEF PageOf
  <2>2. i \in DOMAIN page
    OBVIOUS
  <2> QED BY <2>1, <2>2 DEF Range
<1> QED BY <1>1, <1>2

LEMMA NothingAgain ==
  ASSUME NEW K, \A k : Below(K, k) \in Nat, NEW sent \in Seq(Int),
         NEW page \in Seq(K), page \in Seq(Int),
         NEW offset \in Nat, NEW size \in Nat, PageOf(K, page, offset, size),
         \A i, j \in DOMAIN sent : sent[i] = sent[j] => i = j,
         \A i \in DOMAIN sent : sent[i] \in K => Below(K, sent[i]) < offset
  PROVE  LET all == sent \o page
         IN /\ \A i, j \in DOMAIN all : all[i] = all[j] => i = j
            /\ \A i \in DOMAIN all : all[i] \in K => Below(K, all[i]) < offset + size
<1> DEFINE all == sent \o page
           m == Len(sent)
           n == Len(page)
<1>1. /\ m \in Nat /\ n \in Nat /\ DOMAIN sent = 1 .. m /\ DOMAIN all = 1 .. (m + n)
      /\ \A i \in 1 .. m : all[i] = sent[i]
      /\ \A i \in 1 .. (m + n) : i > m => i - m \in 1 .. n /\ all[i] = page[i - m]
  OBVIOUS
<1> HIDE DEF m, all
<1>2. /\ \A i, j \in 1 .. m : sent[i] = sent[j] => i = j
      /\ \A i \in 1 .. m : sent[i] \in K => Below(K, sent[i]) < offset
  BY <1>1
<1>3. ASSUME NEW i \in 1 .. (m + n), i > m
      PROVE  all[i] \in K /\ Below(K, all[i]) = offset + (i - m) - 1 /\ i - m <= size
  <2>1. i - m \in 1 .. n /\ all[i] = page[i - m]
    BY <1>1, <1>3
  <2>2. page[i - m] \in K
    BY <2>1
  <2> QED BY <2>1, <2>2 DEF PageOf
<1> HIDE DEF n
<1>4. ASSUME NEW i \in 1 .. (m + n), i <= m
      PROVE  i \in 1 .. m /\ all[i] = sent[i]
  BY <1>1, <1>4
<1>5. ASSUME NEW i \in 1 .. (m + n), NEW j \in 1 .. (m + n), i <= m, j > m
      PROVE  all[i] # all[j]
  <2>1. all[i] \in K => Below(K, all[i]) < offset
    BY <1>2, <1>4, <1>5
  <2>2. Below(K, all[j]) = offset + (j - m) - 1 /\ all[j] \in K
    BY <1>3, <1>5
  <2>3. offset + (j - m) - 1 >= offset
    BY <1>1, <1>5
  <2> QED BY <2>1, <2>2, <2>3
<1>6. ASSUME NEW i \in 1 .. (m + n), NEW j \in 1 .. (m + n), all[i] = all[j]
      PROVE  i = j
  <2>1. CASE i <= m /\ j <= m
    BY <1>2, <1>4, <1>6, <2>1
  <2>2. CASE i > m /\ j > m
    <3>1. offset + (i - m) - 1 = offset + (j - m) - 1
      BY <1>3, <1>6, <2>2
    <3> QED BY <1>1, <3>1
  <2>3. (i <= m /\ j <= m) \/ (i > m /\ j > m) \/ (i <= m /\ j > m) \/ (j <= m /\ i > m)
    BY <1>1
  <2> QED BY <1>5, <1>6, <2>1, <2>2, <2>3
<1>7. ASSUME NEW i \in 1 .. (m + n), all[i] \in K
      PROVE  Below(K, all[i]) < offset + size
  <2>1. CASE i <= m
    <3>1. Below(K, all[i]) < offset
      BY <1>2, <1>4, <1>7, <2>1
    <3> QED BY <3>1
  <2>2. CASE i > m
    <3>1. Below(K, all[i]) = offset + (i - m) - 1 /\ i - m <= size
      BY <1>3, <2>2
    <3> QED BY <1>1, <3>1
  <2> QED BY <1>1, <2>1, <2>2
<1> QED BY <1>1, <1>6, <1>7 DEF all

\* A page: the rows in ascending order from the offset on.
LEMMA PageSent ==
  ASSUME Listing, PagesTyped, ListDocuments \/ ListCollectionIds
  PROVE  \E page \in Seq(ListKeys) :
           /\ out' = out \o page /\ req' = req /\ docs' = docs /\ created' = created
           /\ deleted' = deleted /\ pc \in {"new", "page"}
           /\ token + PageSize \in Nat \ {0}
           /\ PageOf(ListKeys, page, token, PageSize)
           /\ \/ token' = token + PageSize /\ pc' = "page"
              \/ /\ token' = 0 /\ pc' = "done"
                 /\ \A k \in ListKeys : Below(ListKeys, k) < token + PageSize
<1> DEFINE K == ListKeys
           A == Ascending(K)
           rows == Slice(A, token, PageSize + 1)
           page == Slice(rows, 0, PageSize)
           next == NextToken(token, PageSize, rows)
<1>1. /\ out' = out \o page /\ req' = req /\ docs' = docs /\ created' = created
      /\ deleted' = deleted /\ pc \in {"new", "page"}
      /\ token' = next /\ pc' = IF token' = 0 THEN "done" ELSE "page"
  BY DEF ListDocuments, ListCollectionIds, ListPage, DecodePageToken
<1>2. IsFiniteSet(K) /\ K \subseteq Int
  BY KeysFinite, ListKeysOf DEF PagesTyped, Listing
<1> HIDE DEF K
<1>3. /\ A \in Seq(K) /\ Len(A) = Cardinality(K) /\ Cardinality(K) \in Nat
      /\ \A i \in 1 .. Cardinality(K) : A[i] \in K /\ Below(K, A[i]) = i - 1
      /\ \A k \in K : Below(K, k) + 1 \in 1 .. Cardinality(K) /\ A[Below(K, k) + 1] = k
  BY <1>2, AscendingFacts
<1>4. token \in Nat /\ PageSize \in Nat \ {0}
  BY RequestsAssumption DEF PagesTyped
<1> HIDE DEF A
<1>5. /\ page \in Seq(K) /\ token + PageSize \in Nat \ {0}
      /\ next = (IF token + PageSize < Len(A) THEN token + PageSize ELSE 0)
      /\ \A i \in 1 .. Len(page) : /\ token + i \in 1 .. Len(A) /\ page[i] = A[token + i]
                                   /\ i <= PageSize
      /\ \A j \in 1 .. Len(A) : token < j /\ j <= token + PageSize => j - token \in 1 .. Len(page)
  BY <1>3, <1>4, PageFacts
<1> HIDE DEF page, next
<1>6. \A k : Below(K, k) \in Nat
  BY <1>2, BelowGrows
<1>7. PageOf(K, page, token, PageSize)
  BY <1>3, <1>4, <1>5, <1>6, PageIsSlice
<1>8. \/ token' = token + PageSize /\ pc' = "page"
      \/ token' = 0 /\ pc' = "done" /\ \A k \in K : Below(K, k) < token + PageSize
  <2>1. CASE token + PageSize < Len(A)
    BY <1>1, <1>5, <2>1
  <2>2. CASE ~(token + PageSize < Len(A))
    <3>1. token' = 0 /\ pc' = "done"
      BY <1>1, <1>5, <2>2
    <3>2. ASSUME NEW k \in K
          PROVE  Below(K, k) < token + PageSize
      <4>1. Below(K, k) + 1 \in 1 .. Len(A)
        BY <1>3
      <4> QED BY <1>3, <1>4, <2>2, <4>1
    <3> QED BY <3>1, <3>2
  <2> QED BY <2>1, <2>2
<1> QED BY <1>1, <1>5, <1>6, <1>7, <1>8 DEF K

LEMMA PagesSend ==
  ASSUME Listing, PagesInv, ListDocuments \/ ListCollectionIds
  PROVE  PagesInv'
<1>1. PagesTyped /\ NothingMissed /\ NothingTwice
  BY DEF PagesInv
<1> DEFINE K == ListKeys
<1>2. PICK page \in Seq(K) :
        /\ out' = out \o page /\ req' = req /\ docs' = docs /\ created' = created
        /\ deleted' = deleted /\ pc \in {"new", "page"}
        /\ token + PageSize \in Nat \ {0}
        /\ PageOf(K, page, token, PageSize)
        /\ \/ token' = token + PageSize /\ pc' = "page"
           \/ token' = 0 /\ pc' = "done" /\ \A k \in K : Below(K, k) < token + PageSize
  BY <1>1, PageSent
<1>3. K' = K /\ Wanted' = Wanted /\ Listing'
  BY <1>2 DEF ListKeys, Wanted, Listing
<1>4. IsFiniteSet(K) /\ K \subseteq Int
  BY <1>1, KeysFinite, ListKeysOf DEF PagesTyped, Listing
<1> HIDE DEF K
<1>5. /\ out \in Seq(Int) /\ token \in Nat /\ page \in Seq(Int) /\ PageSize \in Nat
      /\ \A k : Below(K, k) \in Nat
  <2>1. page \in Seq(Int)
    BY <1>4, SeqMonotonic
  <2>2. \A k : Below(K, k) \in Nat
    BY <1>4, BelowGrows
  <2> QED BY <1>1, <2>1, <2>2, RequestsAssumption DEF PagesTyped
<1>6. out' \in Seq(Int) /\ Range(out') = Range(out) \cup Range(page)
  BY <1>2, <1>5, RangeConcat
<1>7. PagesTyped'
  BY <1>1, <1>2, <1>6 DEF PagesTyped
<1>8. NothingMissed'
  <2> SUFFICES ASSUME deleted = {}
               PROVE  /\ \A p \in DOMAIN docs : Found(req.docs, p) => Found(docs, p)
                      /\ pc' # "done" =>
                           \A k \in Wanted : k \in Range(out') \/ Below(K, k) >= token'
                      /\ pc' = "done" => Wanted \subseteq Range(out')
    BY <1>2, <1>3 DEF NothingMissed, K
  <2>1. \A p \in DOMAIN docs : Found(req.docs, p) => Found(docs, p)
    BY <1>1 DEF NothingMissed
  <2>2. Wanted \subseteq K
    BY <2>1 DEF Wanted, ListKeys, K
  <2>3. ASSUME NEW k \in Wanted
        PROVE  k \in Range(out') \/ Below(K, k) >= token + PageSize
    <3>1. k \in Range(out) \/ Below(K, k) >= token
      BY <1>1, <1>2 DEF NothingMissed, K
    <3>2. k \in Range(out \o page) \/ Below(K, k) >= token + PageSize
      BY <1>2, <1>5, <2>2, <3>1, NothingPassed
    <3> QED BY <1>2, <3>2
  <2>4. CASE token' = token + PageSize /\ pc' = "page"
    BY <2>1, <2>3, <2>4
  <2>5. CASE token' = 0 /\ pc' = "done" /\ \A k \in K : Below(K, k) < token + PageSize
    <3>1. Wanted \subseteq Range(out')
      BY <1>5, <2>2, <2>3, <2>5
    <3> QED BY <2>1, <2>5, <3>1
  <2> QED BY <1>2, <2>4, <2>5
<1>9. NothingTwice'
  <2> SUFFICES ASSUME created = {}
               PROVE  /\ \A i, j \in DOMAIN out' : out'[i] = out'[j] => i = j
                      /\ pc' # "done" =>
                           \A i \in DOMAIN out' : out'[i] \in K => Below(K, out'[i]) < token'
    BY <1>2, <1>3 DEF NothingTwice, K
  <2> DEFINE all == out \o page
  <2>1. /\ \A i, j \in DOMAIN out : out[i] = out[j] => i = j
        /\ \A i \in DOMAIN out : out[i] \in K => Below(K, out[i]) < token
    BY <1>1, <1>2 DEF NothingTwice, K
  <2>2. page \in Seq(K)
    OBVIOUS
  <2>3. /\ \A i, j \in DOMAIN all : all[i] = all[j] => i = j
        /\ \A i \in DOMAIN all : all[i] \in K => Below(K, all[i]) < token + PageSize
    BY <1>2, <1>5, <2>1, <2>2, NothingAgain
  <2>4. out' = all
    BY <1>2
  <2> HIDE DEF all
  <2>5. pc' # "done" => token' = token + PageSize
    BY <1>2
  <2> QED BY <2>3, <2>4, <2>5
<1> QED BY <1>3, <1>7, <1>8, <1>9 DEF PagesInv

(***************************************************************************)
(* However large the listing and whatever others do between two of its     *)
(* pages, a listing by OFFSET that has come to its end has passed over     *)
(* nothing, if nothing was deleted meanwhile, and sent nothing twice, if   *)
(* nothing was created meanwhile: the pages of ListDocuments and           *)
(* ListCollectionIds.                                                      *)
(***************************************************************************)
THEOREM ListingsComplete ==
  Spec => [](req.type \in {"list", "collections"} => PagesComplete)
<1>1. PagesInv /\ [Next]_vars => PagesInv'
  <2> SUFFICES ASSUME PagesInv, [Next]_vars
               PROVE  PagesInv'
    OBVIOUS
  <2>1. CASE ~Listing
    BY <2>1, RequestStays DEF PagesInv, Listing
  <2>2. CASE Listing /\ UNCHANGED vars
    <3>1. /\ req' = req /\ pc' = pc /\ docs' = docs /\ token' = token /\ out' = out
          /\ created' = created /\ deleted' = deleted
      BY <2>2 DEF vars
    <3>2. Listing' = Listing /\ Wanted' = Wanted /\ ListKeys' = ListKeys
      BY <3>1 DEF Listing, Wanted, ListKeys
    <3>3. PagesTyped' = PagesTyped
      BY <3>1 DEF PagesTyped
    <3>4. NothingMissed => NothingMissed'
      BY <3>1, <3>2 DEF NothingMissed
    <3>5. NothingTwice => NothingTwice'
      BY <3>1, <3>2 DEF NothingTwice
    <3> QED BY <3>2, <3>3, <3>4, <3>5 DEF PagesInv
  <2>3. CASE Listing /\ Next
    <3>1. \/ ListDocuments \/ ListCollectionIds
          \/ \E p \in DOMAIN docs : OtherCreates(p) \/ OtherDeletes(p)
      BY <2>3 DEF Next, Listing, QueryStep, Decode, QueryDocuments, RunAggregationQuery, Commit,
                  CommitInTransaction, BatchWriteRpc, UpdateDocumentRpc, Rest, Sweep
    <3> QED BY <2>3, <3>1, PagesSend, PagesCreate, PagesDelete
  <2> QED BY <2>1, <2>2, <2>3
<1>2. PagesInv => (req.type \in {"list", "collections"} => PagesComplete)
  <2> SUFFICES ASSUME PagesInv, Listing, pc = "done"
               PROVE  /\ deleted = {} => Wanted \subseteq Range(out)
                      /\ created = {} => \A i, j \in DOMAIN out : out[i] = out[j] => i = j
    BY DEF PagesComplete, Wanted, Listing
  <2> QED BY DEF PagesInv, NothingMissed, NothingTwice
<1> QED BY <1>1, <1>2, InitPages, PTL DEF Spec

-----------------------------------------------------------------------------
(***************************************************************************)
(* Queries: comparisons.                                                   *)
(***************************************************************************)
SignFacts(a) == (a < 0 => Sign(a) = -1) /\ (a > 0 => Sign(a) = 1) /\ (a = 0 => Sign(a) = 0)

LEMMA Signs ==
  ASSUME NEW a \in Int
  PROVE  SignFacts(a)
BY DEF SignFacts, Sign

\* Texts of one character.
LEMMA OneCharacter ==
  ASSUME NEW a \in Int, NEW b \in Int
  PROVE  TextCmp(<<a>>, <<b>>) = Sign(a - b)
<1> DEFINE s == <<a>>
           t == <<b>>
           differ == {i \in 1 .. Len(s) : i <= Len(t) /\ s[i] # t[i]}
           first == CHOOSE i \in differ : \A j \in differ : i <= j
<1>1. Len(s) = 1 /\ Len(t) = 1 /\ s[1] = a /\ t[1] = b
  OBVIOUS
<1>2. TextCmp(s, t) = IF differ = {} THEN Sign(Len(s) - Len(t)) ELSE Sign(s[first] - t[first])
  BY DEF TextCmp
<1> HIDE DEF s, t
<1>3. CASE a = b
  <2>1. differ = {}
    BY <1>1, <1>3
  <2> QED BY <1>1, <1>2, <1>3, <2>1 DEF s, t
<1>4. CASE a # b
  <2>1. differ = {1}
    BY <1>1, <1>4
  <2>2. first = 1
    BY <2>1
  <2> QED BY <1>1, <1>2, <2>1, <2>2 DEF s, t
<1> QED BY <1>3, <1>4

\* The text of a time in the column and as an argument.
Texts(t) == {protojsonTime(t), RFC3339Nano(t)}

\* The first characters of two texts are apart.
LEMMA FirstDecides ==
  ASSUME NEW a, NEW b, Len(a) \in Nat \ {0}, Len(b) \in Nat \ {0}, a[1] # b[1]
  PROVE  TextCmp(a, b) = Sign(a[1] - b[1])
<1> DEFINE differ == {i \in 1 .. Len(a) : i <= Len(b) /\ a[i] # b[i]}
           first == CHOOSE i \in differ : \A j \in differ : i <= j
<1>1. TextCmp(a, b) = IF differ = {} THEN Sign(Len(a) - Len(b)) ELSE Sign(a[first] - b[first])
  BY DEF TextCmp
<1>2. 1 \in differ /\ \A j \in differ : 1 <= j
  OBVIOUS
<1>3. first = 1
  <2>1. first \in differ /\ \A j \in differ : first <= j
    BY <1>2
  <2>2. \A i \in differ : i \in Int
    OBVIOUS
  <2> HIDE DEF differ, first
  <2> QED BY <1>2, <2>1, <2>2
<1> QED BY <1>1, <1>2, <1>3

\* Two texts that agree but for their third and fourth characters.
LEMMA FractionDecides ==
  ASSUME NEW a, NEW b, Len(a) = 5, Len(b) = 5,
         a[1] = b[1], a[2] = b[2], a[5] = b[5]
  PROVE  TextCmp(a, b) = IF a[3] # b[3] THEN Sign(a[3] - b[3])
                         ELSE IF a[4] # b[4] THEN Sign(a[4] - b[4]) ELSE Sign(0)
<1> DEFINE differ == {i \in 1 .. Len(a) : i <= Len(b) /\ a[i] # b[i]}
           first == CHOOSE i \in differ : \A j \in differ : i <= j
<1>1. TextCmp(a, b) = IF differ = {} THEN Sign(Len(a) - Len(b)) ELSE Sign(a[first] - b[first])
  BY DEF TextCmp
<1>2. \A i \in differ : i \in Int /\ (i = 3 \/ i = 4) /\ a[i] # b[i]
  OBVIOUS
<1>3. (a[3] # b[3] => 3 \in differ) /\ (a[4] # b[4] => 4 \in differ)
  OBVIOUS
<1>4. (\E i \in differ : \A j \in differ : i <= j) =>
        first \in differ /\ \A j \in differ : first <= j
  OBVIOUS
<1> HIDE DEF differ, first
<1>5. CASE a[3] # b[3]
  <2>1. \A j \in differ : 3 <= j
    BY <1>2
  <2>2. first \in differ /\ first <= 3
    BY <1>3, <1>4, <1>5, <2>1
  <2>3. first = 3 /\ differ # {}
    BY <1>2, <2>2
  <2> QED BY <1>1, <1>5, <2>3
<1>6. CASE a[3] = b[3] /\ a[4] # b[4]
  <2>1. \A j \in differ : j = 4
    BY <1>2, <1>6
  <2>2. first = 4 /\ differ # {}
    BY <1>3, <1>4, <1>6, <2>1
  <2> QED BY <1>1, <1>6, <2>2
<1>7. CASE a[3] = b[3] /\ a[4] = b[4]
  <2>1. differ = {}
    BY <1>2, <1>7
  <2> QED BY <1>1, <1>7, <2>1
<1> QED BY <1>5, <1>6, <1>7

\* What the texts of a time begin with, and all of a text with two digits.
LEMMA TimeTexts ==
  ASSUME NEW t \in Int, NEW x \in Texts(t)
  PROVE  /\ Len(x) \in Nat \ {0} /\ x[1] = Seconds(t)
         /\ t % 10 # 0 =>
              /\ Len(x) = 5 /\ x[2] = Dot /\ x[5] = Zulu
              /\ x[3] = Digit((t % 100) \div 10) /\ x[4] = Digit(t % 10)
<1>1. t % 100 = 0 => t % 10 = 0
  OBVIOUS
<1>2. t % 10 # 0 => x = <<Seconds(t), Dot, Digit((t % 100) \div 10), Digit(t % 10), Zulu>>
  BY <1>1 DEF Texts, protojsonTime, RFC3339Nano
<1>3. /\ Len(protojsonTime(t)) \in Nat \ {0} /\ protojsonTime(t)[1] = Seconds(t)
      /\ Len(RFC3339Nano(t)) \in Nat \ {0} /\ RFC3339Nano(t)[1] = Seconds(t)
  BY DEF protojsonTime, RFC3339Nano
<1>4. x = protojsonTime(t) \/ x = RFC3339Nano(t)
  BY DEF Texts
<1> QED BY <1>2, <1>3, <1>4

\* Comparable times sort like their texts.
LEMMA TimesSort ==
  ASSUME NEW s \in Int, NEW t \in Int, TimesComparable(s, t),
         NEW x \in Texts(s), NEW y \in Texts(t)
  PROVE  TextCmp(x, y) = Sign(s - t)
<1>1. /\ s = 100 * Seconds(s) + (s % 100) /\ Seconds(s) \in Int /\ s % 100 \in 0 .. 99
      /\ t = 100 * Seconds(t) + (t % 100) /\ Seconds(t) \in Int /\ t % 100 \in 0 .. 99
  BY DEF Seconds
<1>2. /\ Len(x) \in Nat \ {0} /\ x[1] = Seconds(s) /\ Len(y) \in Nat \ {0} /\ y[1] = Seconds(t)
  BY TimeTexts
<1>3. CASE Seconds(s) # Seconds(t)
  <2>1. TextCmp(x, y) = Sign(Seconds(s) - Seconds(t))
    BY <1>2, <1>3, FirstDecides
  <2>2. s < t <=> Seconds(s) < Seconds(t)
    BY <1>1, <1>3
  <2>3. s # t
    BY <1>3
  <2> QED BY <1>1, <1>3, <2>1, <2>2, <2>3 DEF Sign
<1>4. CASE Seconds(s) = Seconds(t)
  <2>1. s % 10 # 0 /\ t % 10 # 0
    BY <1>4 DEF TimesComparable
  <2> DEFINE u == (s % 100) \div 10
             v == (t % 100) \div 10
             m == s % 10
             n == t % 10
  <2>2. /\ Len(x) = 5 /\ x[2] = Dot /\ x[5] = Zulu /\ x[3] = Digit(u) /\ x[4] = Digit(m)
        /\ Len(y) = 5 /\ y[2] = Dot /\ y[5] = Zulu /\ y[3] = Digit(v) /\ y[4] = Digit(n)
    BY <2>1, TimeTexts
  <2>3. /\ u \in Int /\ v \in Int /\ m \in 0 .. 9 /\ n \in 0 .. 9
        /\ s % 100 = 10 * u + m /\ t % 100 = 10 * v + n
    OBVIOUS
  <2>4. s - t = 10 * (u - v) + (m - n)
    BY <1>1, <1>4, <2>3
  <2> HIDE DEF u, v, m, n
  <2>5. TextCmp(x, y) = IF x[3] # y[3] THEN Sign(x[3] - y[3])
                        ELSE IF x[4] # y[4] THEN Sign(x[4] - y[4]) ELSE Sign(0)
    BY <1>2, <1>4, <2>2, FractionDecides
  <2>6. CASE u # v
    <3>1. TextCmp(x, y) = Sign(u - v)
      BY <2>2, <2>3, <2>5, <2>6 DEF Digit
    <3>2. (s - t < 0 <=> u - v < 0) /\ (s - t > 0 <=> u - v > 0)
      BY <2>3, <2>4, <2>6
    <3> QED BY <3>1, <3>2, <2>3 DEF Sign
  <2>7. CASE u = v
    <3>1. TextCmp(x, y) = Sign(m - n)
      BY <2>2, <2>3, <2>5, <2>7 DEF Digit
    <3>2. s - t = m - n
      BY <2>3, <2>4, <2>7
    <3> QED BY <3>1, <3>2
  <2> QED BY <2>6, <2>7
<1> QED BY <1>3, <1>4

\* Comparisons in SQL.
LEMMA SqlFacts ==
  ASSUME NEW a, NEW b
  PROVE  /\ SqlNum(a) # SqlNull /\ SqlText(a) # SqlNull
         /\ SqlCmp(SqlNum(a), SqlNum(b)) = Sign(a - b)
         /\ SqlCmp(SqlText(a), SqlText(b)) = TextCmp(a, b)
<1>1. /\ SqlNum(a).type = "num" /\ SqlNum(b).type = "num" /\ SqlNum(a).is = a /\ SqlNum(b).is = b
      /\ SqlText(a).type = "text" /\ SqlText(b).type = "text"
      /\ SqlText(a).is = a /\ SqlText(b).is = b /\ SqlNull.type = "null"
  BY DEF SqlNum, SqlText, SqlNull
<1>2. SqlCmp(SqlNum(a), SqlNum(b)) = Sign(a - b)
  BY <1>1 DEF SqlCmp
<1>3. SqlCmp(SqlText(a), SqlText(b)) = TextCmp(a, b)
  BY <1>1 DEF SqlCmp
<1> QED BY <1>1, <1>2, <1>3

\* How two values of one kind, or two numbers, compare: as their numbers do.
Key(x) == IF IsNumber(x) THEN Number(x) ELSE x.is

LEMMA KeyType ==
  ASSUME NEW x, IsScalar(x)
  PROVE  Key(x) \in Int
BY DEF Key, IsScalar, IsNumber, Number

LEMMA SignZero ==
  ASSUME NEW a \in Int, NEW b \in Int
  PROVE  Sign(a - b) = 0 <=> a = b
BY DEF Sign

\* In memory.
LEMMA KeysInMemory ==
  ASSUME NEW x, NEW y, IsScalar(x), IsScalar(y),
         x.kind = y.kind \/ (IsNumber(x) /\ IsNumber(y))
  PROVE  /\ filterValuesEqual(x, y) <=> Sign(Key(x) - Key(y)) = 0
         /\ x.kind \notin {"bool", "null"} => filterValuesCmp(x, y) = Sign(Key(x) - Key(y))
<1>1. Key(x) \in Int /\ Key(y) \in Int
  BY KeyType
<1>2. Sign(Key(x) - Key(y)) = 0 <=> Key(x) = Key(y)
  BY <1>1, SignZero
<1>3. CASE IsNumber(x)
  <2>1. IsNumber(y)
    BY <1>3 DEF IsNumber
  <2> QED BY <1>2, <1>3, <2>1 DEF filterValuesEqual, filterValuesCmp, Key, IsNumber
<1>4. CASE ~IsNumber(x)
  <2>1. ~IsNumber(y) /\ x.kind = y.kind
    BY <1>4 DEF IsNumber
  <2>2. Key(x) = x.is /\ Key(y) = y.is
    BY <1>4, <2>1 DEF Key
  <2>3. x.kind \in {"null", "bool", "string", "time"}
    BY <1>4 DEF IsScalar, IsNumber
  <2> QED BY <1>2, <1>4, <2>1, <2>2, <2>3 DEF filterValuesEqual, filterValuesCmp
<1> QED BY <1>3, <1>4

\* In SQL: an operand of the field's own kind.
LEMMA KeysInSql ==
  ASSUME NEW x, NEW y, IsScalar(x), IsScalar(y), NEW op,
         x.kind = y.kind, x.kind # "null",
         x.kind = "time" => TimesComparable(x.is, y.is)
  PROVE  /\ SqlTrue(op, sqliteScalarExpr(x, y.kind), sqliteArg(y)) <=> SignOk(op, Sign(Key(x) - Key(y)))
         /\ SqlTrue(op, pgExpr(x, y.kind), pgArg(y)) <=> SignOk(op, Sign(Key(x) - Key(y)))
<1>1. x.is \in Int /\ y.is \in Int
  BY DEF IsScalar
<1>2. CASE x.kind \in {"int", "double"}
  <2>1. IsNumber(x) /\ IsNumber(y)
    BY <1>2 DEF IsNumber
  <2>2. sqliteArg(y) = SqlNum(Number(y)) /\ pgArg(y) = SqlNum(Number(y))
    BY <1>2, <2>1 DEF sqliteArg, pgArg
  <2>3. pgExpr(x, y.kind) = SqlNum(Number(x))
    BY <1>2, <2>1 DEF pgExpr
  <2>4. sqliteScalarExpr(x, y.kind) = SqlNum(Number(x))
    BY <1>2 DEF sqliteScalarExpr, Member, Number
  <2> QED BY <2>1, <2>2, <2>3, <2>4, SqlFacts DEF SqlTrue, Key
<1>3. CASE x.kind = "string"
  <2>1. ~IsNumber(x) /\ ~IsNumber(y)
    BY <1>3 DEF IsNumber
  <2>2. sqliteArg(y) = SqlText(<<y.is>>) /\ pgArg(y) = SqlText(<<y.is>>)
    BY <1>3, <2>1 DEF sqliteArg, pgArg
  <2>3. sqliteScalarExpr(x, y.kind) = SqlText(<<x.is>>) /\ pgExpr(x, y.kind) = SqlText(<<x.is>>)
    BY <1>3 DEF pgExpr, sqliteScalarExpr, Member
  <2> QED BY <1>1, <2>1, <2>2, <2>3, SqlFacts, OneCharacter DEF SqlTrue, Key
<1>4. CASE x.kind = "time"
  <2>1. ~IsNumber(x) /\ ~IsNumber(y)
    BY <1>4 DEF IsNumber
  <2>2. sqliteArg(y) = SqlText(RFC3339Nano(y.is)) /\ pgArg(y) = SqlText(RFC3339Nano(y.is))
    BY <1>4, <2>1 DEF sqliteArg, pgArg
  <2>3. /\ sqliteScalarExpr(x, y.kind) = SqlText(protojsonTime(x.is))
        /\ pgExpr(x, y.kind) = SqlText(protojsonTime(x.is))
    BY <1>4 DEF pgExpr, sqliteScalarExpr, Member
  <2>4. TextCmp(protojsonTime(x.is), RFC3339Nano(y.is)) = Sign(x.is - y.is)
    BY <1>1, <1>4, TimesSort DEF Texts
  <2> QED BY <2>1, <2>2, <2>3, <2>4, SqlFacts DEF SqlTrue, Key
<1>5. CASE x.kind = "bool"
  <2>1. ~IsNumber(x) /\ ~IsNumber(y)
    BY <1>5 DEF IsNumber
  <2>2. sqliteArg(y) = SqlNum(y.is) /\ pgArg(y) = SqlNum(y.is)
    BY <1>5, <2>1 DEF sqliteArg, pgArg
  <2>3. sqliteScalarExpr(x, y.kind) = SqlNum(x.is) /\ pgExpr(x, y.kind) = SqlNum(x.is)
    BY <1>5 DEF pgExpr, sqliteScalarExpr, Member
  <2> QED BY <2>1, <2>2, <2>3, SqlFacts DEF SqlTrue, Key
<1> QED BY <1>2, <1>3, <1>4, <1>5 DEF IsScalar

\* PostgreSQL compares numbers of both kinds.
LEMMA NumbersInPg ==
  ASSUME NEW x, NEW y, IsNumber(x), IsNumber(y), NEW op
  PROVE  SqlTrue(op, pgExpr(x, y.kind), pgArg(y)) <=> SignOk(op, Sign(Key(x) - Key(y)))
<1>1. pgExpr(x, y.kind) = SqlNum(Number(x)) /\ pgArg(y) = SqlNum(Number(y))
  BY DEF pgExpr, pgArg, IsNumber
<1> QED BY <1>1, SqlFacts DEF SqlTrue, Key

\* A field of another kind is NULL to the operand, and keeps no row.
LEMMA OthersInSql ==
  ASSUME NEW x, NEW y, NEW op, x.kind # y.kind, ~(IsNumber(x) /\ IsNumber(y))
  PROVE  /\ ~SqlTrue(op, sqliteScalarExpr(x, y.kind), sqliteArg(y))
         /\ ~SqlTrue(op, pgExpr(x, y.kind), pgArg(y))
         /\ Member(x, y.kind) = SqlNull /\ pgExpr(x, y.kind) = SqlNull
         /\ ~filterValuesEqual(x, y) /\ filterValuesCmp(x, y) = 0
<1>1. Member(x, y.kind) = SqlNull
  BY DEF Member
<1>2. sqliteScalarExpr(x, y.kind) = SqlNull
  BY <1>1 DEF sqliteScalarExpr
<1>3. pgExpr(x, y.kind) = SqlNull
  BY <1>1 DEF pgExpr, IsNumber
<1>4. ~filterValuesEqual(x, y) /\ filterValuesCmp(x, y) = 0
  BY DEF filterValuesEqual, filterValuesCmp
<1> QED BY <1>1, <1>2, <1>3, <1>4 DEF SqlTrue

\* What the evaluators see of a field's value.
LEMMA Decoded ==
  ASSUME NEW d, IsValue(d)
  PROVE  /\ IsScalar(d) \/ d.kind = "absent" => FilterValueFromProto(d) = d
         /\ d.kind = "map" => FilterValueFromProto(d).kind = "json"
         /\ d.kind = "array" => FilterValueFromProto(d).kind = "array"
         /\ IsScalar(d) \/ d.kind \in {"absent", "map", "array"}
         /\ (FilterValueFromProto(d).kind = "absent") <=> (d.kind = "absent")
BY DEF IsValue, IsScalar, FilterValueFromProto, Val

Comparisons == {"==", "!=", "<", "<=", ">", ">="}

Compares(op, x, y) ==
  IF op = "==" THEN filterValuesEqual(x, y)
  ELSE IF op = "!=" THEN ~filterValuesEqual(x, y) ELSE SignOk(op, filterValuesCmp(x, y))

\* Both statements keep the rows whose field compares in memory.
LEMMA ComparisonsAgree ==
  ASSUME NEW d, NEW f, IsValue(d), IsOperand(f), f.op \in Comparisons, Comparable(d, f)
  PROVE  LET mem == d.kind # "absent" /\ Compares(f.op, FilterValueFromProto(d), f.value)
         IN /\ f.value.kind # "null"
            /\ req.adapter = "sqlite" =>
                 (SqlTrue(f.op, sqliteScalarExpr(d, f.value.kind), sqliteArg(f.value)) <=> mem)
            /\ req.adapter # "sqlite" =>
                 (SqlTrue(f.op, pgExpr(d, f.value.kind), pgArg(f.value)) <=> mem)
<1> DEFINE y == f.value
           D == FilterValueFromProto(d)
           mem == d.kind # "absent" /\ Compares(f.op, D, y)
           Lite == SqlTrue(f.op, sqliteScalarExpr(d, y.kind), sqliteArg(y))
           Pg == SqlTrue(f.op, pgExpr(d, y.kind), pgArg(y))
           Same == d.kind = y.kind /\ (d.kind = "time" => TimesComparable(d.is, y.is))
           Numbers2 == req.adapter = "postgres" /\ IsNumber(d) /\ IsNumber(y)
           KindsApart == d.kind # y.kind /\ ~(IsNumber(d) /\ IsNumber(y))
<1>1. /\ y.kind \notin {"null", "json", "array"}
      /\ y.kind = "bool" => f.op \in {"==", "!="}
      /\ \/ Same \/ Numbers2
         \/ f.op \in {"==", "<", ">"} /\ KindsApart
         \/ d.kind = "absent"
  <2>1. CASE f.op \in {"==", "<", ">"}
    BY <2>1 DEF Comparable
  <2>2. CASE f.op \in {"!=", "<=", ">="}
    BY <2>2 DEF Comparable
  <2> QED BY <2>1, <2>2 DEF Comparisons
<1>2. IsScalar(y) /\ y.kind \in {"bool", "int", "double", "string", "time"}
  BY <1>1 DEF IsOperand, IsScalar, Comparisons
<1>3. IsScalar(d) \/ d.kind \in {"absent", "map", "array"}
  BY Decoded
<1>4. ASSUME IsScalar(d), d.kind = y.kind \/ (IsNumber(d) /\ IsNumber(y))
      PROVE  mem <=> SignOk(f.op, Sign(Key(d) - Key(y)))
  <2>1. D = d /\ d.kind # "absent"
    BY <1>4, Decoded DEF IsScalar
  <2>2. /\ filterValuesEqual(d, y) <=> Sign(Key(d) - Key(y)) = 0
        /\ d.kind \notin {"bool", "null"} => filterValuesCmp(d, y) = Sign(Key(d) - Key(y))
    BY <1>2, <1>4, KeysInMemory
  <2>3. d.kind \in {"bool", "null"} => f.op \in {"==", "!="}
    BY <1>1, <1>2, <1>4 DEF IsNumber
  <2> QED BY <2>1, <2>2, <2>3 DEF Compares, SignOk
<1>5. CASE Same
  <2>1. IsScalar(d) /\ d.kind = y.kind /\ d.kind # "null"
    BY <1>2, <1>3, <1>5
  <2>2. Lite <=> SignOk(f.op, Sign(Key(d) - Key(y)))
    BY <1>2, <1>5, <2>1, KeysInSql
  <2>3. Pg <=> SignOk(f.op, Sign(Key(d) - Key(y)))
    BY <1>2, <1>5, <2>1, KeysInSql
  <2> QED BY <1>2, <1>4, <2>1, <2>2, <2>3
<1>6. CASE Numbers2
  <2>1. IsScalar(d) /\ req.adapter # "sqlite"
    BY <1>3, <1>6 DEF IsNumber
  <2>2. Pg <=> SignOk(f.op, Sign(Key(d) - Key(y)))
    BY <1>6, NumbersInPg
  <2> QED BY <1>2, <1>4, <1>6, <2>1, <2>2
<1>7. CASE f.op \in {"==", "<", ">"} /\ KindsApart
  <2>1. ~Lite /\ ~Pg
    BY <1>7, OthersInSql
  <2>2. D.kind # y.kind /\ ~(IsNumber(D) /\ IsNumber(y))
    BY <1>2, <1>3, <1>7, Decoded DEF IsNumber
  <2>3. ~filterValuesEqual(D, y) /\ filterValuesCmp(D, y) = 0
    BY <2>2, OthersInSql
  <2>4. ~Compares(f.op, D, y)
    <3>1. CASE f.op = "=="
      BY <2>3, <3>1 DEF Compares
    <3>2. CASE f.op \in {"<", ">"}
      <4>1. ~SignOk("<", 0) /\ ~SignOk(">", 0)
        BY DEF SignOk
      <4> QED BY <2>3, <3>2, <4>1 DEF Compares
    <3> QED BY <1>7, <3>1, <3>2
  <2> QED BY <1>2, <2>1, <2>4
<1>8. CASE d.kind = "absent"
  <2>1. ~Lite /\ ~Pg
    BY <1>2, <1>8, OthersInSql DEF IsNumber
  <2> QED BY <1>2, <1>8, <2>1
<1> QED BY <1>1, <1>5, <1>6, <1>7, <1>8

\* An element of a list that is Listable, on the adapter of the request.
Plain(x) == IsScalar(x) /\ (x.kind \in {"string", "bool"} \/ (x.kind = "int" /\ req.adapter = "postgres"))

\* A field against one element of a list.
LEMMA ElementAgrees ==
  ASSUME NEW d, IsValue(d), NEW y, Plain(y)
  PROVE  LET D == FilterValueFromProto(d)
         IN /\ req.adapter = "sqlite" =>
                 /\ SqlTrue("==", Member(d, y.kind), sqliteArg(y)) <=> filterValuesEqual(D, y)
                 /\ Member(d, y.kind) # SqlNull =>
                      (SqlTrue("!=", Member(d, y.kind), sqliteArg(y)) <=> ~filterValuesEqual(D, y))
            /\ req.adapter # "sqlite" =>
                 /\ SqlTrue("==", pgExpr(d, y.kind), pgArg(y)) <=> filterValuesEqual(D, y)
                 /\ pgExpr(d, y.kind) # SqlNull =>
                      (SqlTrue("!=", pgExpr(d, y.kind), pgArg(y)) <=> ~filterValuesEqual(D, y))
            /\ d.kind = y.kind => Member(d, y.kind) # SqlNull /\ pgExpr(d, y.kind) # SqlNull
<1> DEFINE D == FilterValueFromProto(d)
<1>1. req.adapter = "sqlite" => Member(d, y.kind) = sqliteScalarExpr(d, y.kind)
  BY DEF Plain, sqliteScalarExpr
<1>2. CASE d.kind = y.kind
  <2>1. IsScalar(d) /\ D = d /\ d.kind \in {"string", "bool", "int"}
    BY <1>2, Decoded DEF Plain
  <2>2. \A op : /\ SqlTrue(op, sqliteScalarExpr(d, y.kind), sqliteArg(y)) <=> SignOk(op, Sign(Key(d) - Key(y)))
                /\ SqlTrue(op, pgExpr(d, y.kind), pgArg(y)) <=> SignOk(op, Sign(Key(d) - Key(y)))
    BY <1>2, <2>1, KeysInSql DEF Plain
  <2>3. filterValuesEqual(d, y) <=> Sign(Key(d) - Key(y)) = 0
    BY <1>2, <2>1, KeysInMemory DEF Plain
  <2>4. Member(d, y.kind) # SqlNull /\ pgExpr(d, y.kind) # SqlNull
    <3>1. Member(d, y.kind) \in {SqlText(Decimal(d.is)), SqlText(<<d.is>>), SqlNum(d.is)}
      BY <1>2, <2>1 DEF Member
    <3>2. pgExpr(d, y.kind) \in {SqlNum(Number(d)), Member(d, y.kind)}
      BY <1>2 DEF pgExpr, IsNumber
    <3> QED BY <3>1, <3>2, SqlFacts
  <2> QED BY <1>1, <2>1, <2>2, <2>3, <2>4 DEF SignOk
<1>3. CASE d.kind # y.kind /\ IsNumber(d) /\ IsNumber(y)
  <2>1. req.adapter # "sqlite" /\ IsScalar(d) /\ D = d
    BY <1>3, Decoded DEF Plain, IsNumber
  <2>2. \A op : SqlTrue(op, pgExpr(d, y.kind), pgArg(y)) <=> SignOk(op, Sign(Key(d) - Key(y)))
    BY <1>3, NumbersInPg
  <2>3. filterValuesEqual(d, y) <=> Sign(Key(d) - Key(y)) = 0
    BY <1>3, <2>1, KeysInMemory DEF Plain
  <2> QED BY <1>3, <2>1, <2>2, <2>3 DEF SignOk
<1>4. CASE d.kind # y.kind /\ ~(IsNumber(d) /\ IsNumber(y))
  <2>1. /\ ~SqlTrue("==", sqliteScalarExpr(d, y.kind), sqliteArg(y))
        /\ ~SqlTrue("==", pgExpr(d, y.kind), pgArg(y))
        /\ Member(d, y.kind) = SqlNull /\ pgExpr(d, y.kind) = SqlNull
    BY <1>4, OthersInSql
  <2>2. D.kind # y.kind /\ ~(IsNumber(D) /\ IsNumber(y))
    BY <1>4, Decoded DEF Plain, IsNumber
  <2>3. ~filterValuesEqual(D, y)
    BY <2>2, OthersInSql
  <2> QED BY <1>1, <1>4, <2>1, <2>3
<1> QED BY <1>2, <1>3, <1>4

\* An element of a stored array against an operand.
LiteElement(e, y) ==
  \/ y.kind = "json" /\ e.kind = "map" /\ e.is = y.is
  \/ /\ y.kind \in {"string", "int", "double", "bool"}
     /\ SqlTrue("==", Member(e, y.kind), sqliteArg(y))

PgElement(e, y) ==
  y.kind \in {"string", "int", "double", "bool"} /\ e.kind = y.kind /\ e.is = y.is

LEMMA ElementsAgree ==
  ASSUME NEW e, IsScalar(e) \/ e.kind = "map", e.kind # "double", NEW y, Plain(y)
  PROVE  LET E == FilterValueFromProto(e)
         IN /\ req.adapter = "sqlite" => (LiteElement(e, y) <=> filterValuesEqual(E, y))
            /\ req.adapter # "sqlite" => (PgElement(e, y) <=> filterValuesEqual(E, y))
            /\ filterValuesEqual(E, y) <=> filterValuesEqual(y, E)
<1> DEFINE E == FilterValueFromProto(e)
<1>1. IsValue(e)
  BY DEF IsValue
<1>2. req.adapter = "sqlite" => (LiteElement(e, y) <=> filterValuesEqual(E, y))
  BY <1>1, ElementAgrees DEF Plain, LiteElement
<1>3. PgElement(e, y) <=> filterValuesEqual(E, y)
  <2>1. CASE e.kind = "map"
    <3>1. E.kind = "json"
      BY <1>1, <2>1, Decoded
    <3> QED BY <2>1, <3>1 DEF Plain, PgElement, filterValuesEqual, IsNumber
  <2>2. CASE IsScalar(e)
    <3>1. E = e
      BY <1>1, <2>2, Decoded
    <3>2. CASE IsNumber(e) /\ IsNumber(y)
      <4>1. e.kind = "int" /\ y.kind = "int" /\ e.is \in Int /\ y.is \in Int
        BY <2>2, <3>2 DEF IsNumber, IsScalar, Plain
      <4> QED BY <3>1, <4>1 DEF PgElement, filterValuesEqual, IsNumber, Number
    <3>3. CASE ~(IsNumber(e) /\ IsNumber(y))
      BY <3>1, <3>3 DEF Plain, PgElement, filterValuesEqual, IsNumber
    <3> QED BY <3>2, <3>3
  <2> QED BY <2>1, <2>2
<1>4. filterValuesEqual(E, y) <=> filterValuesEqual(y, E)
  BY DEF filterValuesEqual
<1> QED BY <1>2, <1>3, <1>4

\* Whether a field holds an element that equals an operand.
ElementsOf(d) == IF d.kind = "array" THEN d.is ELSE <<>>

LEMMA ArraysAgree ==
  ASSUME NEW d, IsValue(d), d.kind = "array" => \A i \in DOMAIN d.is : d.is[i].kind # "double",
         NEW y, Plain(y)
  PROVE  LET D == FilterValueFromProto(d)
             mem == D.kind = "array" /\ \E i \in DOMAIN D.is : filterValuesEqual(y, D.is[i])
         IN /\ req.adapter = "sqlite" =>
                 ((\E i \in DOMAIN ElementsOf(d) : LiteElement(ElementsOf(d)[i], y)) <=> mem)
            /\ req.adapter # "sqlite" =>
                 ((\E i \in DOMAIN ElementsOf(d) : PgElement(ElementsOf(d)[i], y)) <=> mem)
<1> DEFINE D == FilterValueFromProto(d)
<1>1. CASE d.kind = "array"
  <2>1. /\ D.kind = "array" /\ DOMAIN D.is = DOMAIN d.is /\ ElementsOf(d) = d.is
        /\ \A i \in DOMAIN d.is : D.is[i] = IF d.is[i].kind = "map" THEN Val("json", d.is[i].is) ELSE d.is[i]
    BY <1>1 DEF FilterValueFromProto, Val, ElementsOf
  <2>2. \A i \in DOMAIN d.is : IsScalar(d.is[i]) \/ d.is[i].kind = "map"
    BY <1>1 DEF IsValue, IsScalar
  <2>3. \A i \in DOMAIN d.is : D.is[i] = FilterValueFromProto(d.is[i])
    BY <2>1, <2>2 DEF FilterValueFromProto, IsScalar
  <2>4. \A i \in DOMAIN d.is :
          /\ req.adapter = "sqlite" => (LiteElement(d.is[i], y) <=> filterValuesEqual(y, D.is[i]))
          /\ req.adapter # "sqlite" => (PgElement(d.is[i], y) <=> filterValuesEqual(y, D.is[i]))
    BY <1>1, <2>2, <2>3, ElementsAgree
  <2> QED BY <2>1, <2>4
<1>2. CASE d.kind # "array"
  <2>1. D.kind # "array"
    BY <1>2, Decoded DEF IsScalar
  <2>2. DOMAIN ElementsOf(d) = {}
    BY <1>2 DEF ElementsOf
  <2> QED BY <2>1, <2>2
<1> QED BY <1>1, <1>2

\* A list that Comparable admits is a list of plain values of one kind.
LEMMA PlainList ==
  ASSUME NEW d, NEW f, IsOperand(f), Comparable(d, f),
         f.op \in {"in", "not-in", "array-contains-any"}
  PROVE  /\ f.value.kind = "array" /\ IsList(f.value.is)
         /\ \A i \in DOMAIN f.value.is : Plain(f.value.is[i])
         /\ \A i \in DOMAIN f.value.is :
              f.value.is # <<>> /\ f.value.is[i].kind = f.value.is[1].kind
<1> DEFINE list == f.value.is
<1>1. /\ f.value.kind = "array" /\ IsList(list)
      /\ \A i, j \in DOMAIN list :
           /\ IsScalar(list[i]) \/ list[i].kind = "json"
           /\ \/ list[i].kind = list[j].kind
              \/ IsNumber(list[i]) /\ IsNumber(list[j])
  BY DEF IsOperand
<1>2. \A i \in DOMAIN list : list[i].kind \in {"string", "bool"}
                             \/ (list[i].kind = "int" /\ req.adapter = "postgres")
  BY <1>1 DEF Comparable
<1>3. \A i \in DOMAIN list : Plain(list[i])
  BY <1>1, <1>2 DEF Plain, IsScalar
<1>4. \A i \in DOMAIN list : list # <<>> /\ 1 \in DOMAIN list
  BY <1>1 DEF IsList
<1>5. \A i, j \in DOMAIN list : list[i].kind = list[j].kind
  BY <1>1, <1>2 DEF IsNumber
<1> QED BY <1>1, <1>3, <1>4, <1>5

\* The parts of matchFieldFilter, one per operator.
LEMMA MatchCases ==
  ASSUME NEW fields, NEW f
  PROVE  LET D == FilterValueFromProto(lookupNestedField(fields, f.field))
             Among(x, list) == \E i \in DOMAIN list : filterValuesEqual(x, list[i])
             mem == matchFieldFilter(fields, f)
         IN /\ f.op \in Comparisons => (mem <=> D.kind # "absent" /\ Compares(f.op, D, f.value))
            /\ f.op = "in" => (mem <=> D.kind # "absent" /\ Among(D, f.value.is))
            /\ f.op = "not-in" => (mem <=> D.kind # "absent" /\ ~Among(D, f.value.is))
            /\ f.op = "array-contains" => (mem <=> D.kind = "array" /\ Among(f.value, D.is))
            /\ f.op = "array-contains-any" =>
                 (mem <=> D.kind = "array" /\ \E i \in DOMAIN D.is : Among(D.is[i], f.value.is))
<1>1. CASE f.op \in Comparisons
  <2>1. f.op = "==" \/ f.op = "!=" \/ f.op \in Inequalities
    BY <1>1 DEF Comparisons, Inequalities
  <2> QED BY <1>1, <2>1 DEF matchFieldFilter, Compares, Comparisons, Inequalities
<1>2. CASE f.op = "in"
  BY <1>2 DEF matchFieldFilter, Comparisons, Inequalities
<1>3. CASE f.op = "not-in"
  BY <1>3 DEF matchFieldFilter, Comparisons, Inequalities
<1>4. CASE f.op = "array-contains"
  BY <1>4 DEF matchFieldFilter, Comparisons, Inequalities
<1>5. CASE f.op = "array-contains-any"
  BY <1>5 DEF matchFieldFilter, Comparisons, Inequalities
<1> QED BY <1>1, <1>2, <1>3, <1>4, <1>5

\* The parts of the SQL clauses, for lists whose first element has the kind k.
First(f) == IF f.value.kind = "array" /\ f.value.is # <<>> THEN f.value.is[1].kind ELSE "null"

LEMMA SqliteCases ==
  ASSUME NEW fields, NEW f
  PROVE  LET d == lookupNestedField(fields, f.field)
             y == f.value
             sql == sqliteFilterClause(fields, f)
             Has(val) == \E i \in DOMAIN ElementsOf(d) : LiteElement(ElementsOf(d)[i], val)
         IN /\ f.op \in Comparisons /\ y.kind # "null" =>
                 (sql <=> SqlTrue(f.op, sqliteScalarExpr(d, y.kind), sqliteArg(y)))
            /\ f.op = "in" =>
                 (sql <=> \E i \in DOMAIN y.is : SqlTrue("==", Member(d, First(f)), sqliteArg(y.is[i])))
            /\ f.op = "not-in" =>
                 (sql <=> \/ y.is = <<>>
                          \/ /\ Member(d, First(f)) # SqlNull
                             /\ \A i \in DOMAIN y.is : SqlTrue("!=", Member(d, First(f)), sqliteArg(y.is[i])))
            /\ f.op = "array-contains" => (sql <=> Has(y))
            /\ f.op = "array-contains-any" => (sql <=> \E i \in DOMAIN y.is : Has(y.is[i]))
<1>1. CASE f.op \in Comparisons
  <2>1. f.op \in Inequalities \cup {"==", "!="} /\ f.op \notin {"in", "not-in", "array-contains", "array-contains-any"}
    BY <1>1 DEF Comparisons, Inequalities
  <2> QED BY <2>1 DEF sqliteFilterClause
<1>2. CASE f.op = "in"
  BY <1>2 DEF sqliteFilterClause, Comparisons, Inequalities, First
<1>3. CASE f.op = "not-in"
  BY <1>3 DEF sqliteFilterClause, Comparisons, Inequalities, First
<1>4. CASE f.op = "array-contains"
  BY <1>4 DEF sqliteFilterClause, Comparisons, Inequalities, ElementsOf, LiteElement
<1>5. CASE f.op = "array-contains-any"
  BY <1>5 DEF sqliteFilterClause, Comparisons, Inequalities, ElementsOf, LiteElement
<1> QED BY <1>1, <1>2, <1>3, <1>4, <1>5

LEMMA PgCases ==
  ASSUME NEW fields, NEW f
  PROVE  LET d == lookupNestedField(fields, f.field)
             y == f.value
             sql == pgFilterClause(fields, f)
             Has(val) == \E i \in DOMAIN ElementsOf(d) : PgElement(ElementsOf(d)[i], val)
         IN /\ f.op \in Comparisons /\ y.kind # "null" =>
                 (sql <=> SqlTrue(f.op, pgExpr(d, y.kind), pgArg(y)))
            /\ f.op = "in" =>
                 (sql <=> \E i \in DOMAIN y.is : SqlTrue("==", pgExpr(d, First(f)), pgArg(y.is[i])))
            /\ f.op = "not-in" =>
                 (sql <=> \/ y.is = <<>>
                          \/ /\ pgExpr(d, First(f)) # SqlNull
                             /\ \A i \in DOMAIN y.is : SqlTrue("!=", pgExpr(d, First(f)), pgArg(y.is[i])))
            /\ f.op = "array-contains" => (sql <=> Has(y))
            /\ f.op = "array-contains-any" => (sql <=> \E i \in DOMAIN y.is : Has(y.is[i]))
<1>1. CASE f.op \in Comparisons
  <2>1. f.op \in Inequalities \cup {"==", "!="} /\ f.op \notin {"in", "not-in", "array-contains", "array-contains-any"}
    BY <1>1 DEF Comparisons, Inequalities
  <2> QED BY <2>1 DEF pgFilterClause
<1>2. CASE f.op = "in"
  BY <1>2 DEF pgFilterClause, Comparisons, Inequalities, First
<1>3. CASE f.op = "not-in"
  BY <1>3 DEF pgFilterClause, Comparisons, Inequalities, First
<1>4. CASE f.op = "array-contains"
  BY <1>4 DEF pgFilterClause, Comparisons, Inequalities, ElementsOf, PgElement
<1>5. CASE f.op = "array-contains-any"
  BY <1>5 DEF pgFilterClause, Comparisons, Inequalities, ElementsOf, PgElement
<1> QED BY <1>1, <1>2, <1>3, <1>4, <1>5

(***************************************************************************)
(* The three evaluators of a filter agree: whatever the document holds     *)
(* and whatever the operand, if the two can be compared, a row is kept by  *)
(* SQLite's clause, or by PostgreSQL's, exactly if MatchesFilter keeps it. *)
(***************************************************************************)
THEOREM FiltersAgree ==
  ASSUME NEW fields, NEW f, f.op \in protoFilterOp, IsOperand(f),
         IsValue(lookupNestedField(fields, f.field)),
         Comparable(lookupNestedField(fields, f.field), f)
  PROVE  Clause(fields, f) <=> matchFieldFilter(fields, f)
<1> DEFINE d == lookupNestedField(fields, f.field)
           D == FilterValueFromProto(d)
           y == f.value
           list == y.is
           Among(x, s) == \E i \in DOMAIN s : filterValuesEqual(x, s[i])
           Lite == sqliteFilterClause(fields, f)
           Pg == pgFilterClause(fields, f)
           mem == matchFieldFilter(fields, f)
<1> SUFFICES /\ req.adapter = "sqlite" => (Lite <=> mem)
             /\ req.adapter # "sqlite" => (Pg <=> mem)
  BY DEF Clause
<1>1. D.kind = "absent" <=> d.kind = "absent"
  BY Decoded
<1>2. CASE f.op \in Comparisons
  <2>1. /\ y.kind # "null"
        /\ req.adapter = "sqlite" =>
             (SqlTrue(f.op, sqliteScalarExpr(d, y.kind), sqliteArg(y))
                <=> d.kind # "absent" /\ Compares(f.op, D, y))
        /\ req.adapter # "sqlite" =>
             (SqlTrue(f.op, pgExpr(d, y.kind), pgArg(y))
                <=> d.kind # "absent" /\ Compares(f.op, D, y))
    BY <1>2, ComparisonsAgree
  <2>2. mem <=> d.kind # "absent" /\ Compares(f.op, D, y)
    BY <1>1, <1>2, MatchCases
  <2>3. Lite <=> SqlTrue(f.op, sqliteScalarExpr(d, y.kind), sqliteArg(y))
    BY <1>2, <2>1, SqliteCases
  <2>4. Pg <=> SqlTrue(f.op, pgExpr(d, y.kind), pgArg(y))
    BY <1>2, <2>1, PgCases
  <2> QED BY <2>1, <2>2, <2>3, <2>4
<1>3. CASE f.op \in {"in", "not-in"}
  <2>1. /\ y.kind = "array" /\ \A i \in DOMAIN list : Plain(list[i])
        /\ \A i \in DOMAIN list : list # <<>> /\ list[i].kind = list[1].kind
    BY <1>3, PlainList
  <2>2. \A i \in DOMAIN list : First(f) = list[i].kind
    BY <2>1 DEF First
  <2>3. \A i \in DOMAIN list :
          /\ req.adapter = "sqlite" =>
               /\ SqlTrue("==", Member(d, First(f)), sqliteArg(list[i])) <=> filterValuesEqual(D, list[i])
               /\ Member(d, First(f)) # SqlNull =>
                    (SqlTrue("!=", Member(d, First(f)), sqliteArg(list[i])) <=> ~filterValuesEqual(D, list[i]))
          /\ req.adapter # "sqlite" =>
               /\ SqlTrue("==", pgExpr(d, First(f)), pgArg(list[i])) <=> filterValuesEqual(D, list[i])
               /\ pgExpr(d, First(f)) # SqlNull =>
                    (SqlTrue("!=", pgExpr(d, First(f)), pgArg(list[i])) <=> ~filterValuesEqual(D, list[i]))
          /\ d.kind = list[i].kind => Member(d, First(f)) # SqlNull /\ pgExpr(d, First(f)) # SqlNull
    BY <2>1, <2>2, ElementAgrees
  <2>4. CASE f.op = "in"
    <3>1. Among(D, list) => D.kind # "absent"
      <4>1. \A i \in DOMAIN list : list[i].kind \in {"string", "bool", "int"}
        BY <2>1 DEF Plain
      <4> QED BY <4>1 DEF filterValuesEqual, IsNumber
    <3>2. mem <=> Among(D, list)
      BY <2>4, <3>1, MatchCases
    <3>3. req.adapter = "sqlite" => (Lite <=> Among(D, list))
      BY <2>3, <2>4, SqliteCases
    <3>4. req.adapter # "sqlite" => (Pg <=> Among(D, list))
      BY <2>3, <2>4, PgCases
    <3> QED BY <3>2, <3>3, <3>4
  <2>5. CASE f.op = "not-in"
    <3>1. list # <<>> /\ \A i \in DOMAIN list : d.kind \in {list[i].kind, "absent"}
      BY <2>1, <2>5 DEF Comparable
    <3>2. 1 \in DOMAIN list
      BY <2>5, <3>1, PlainList DEF IsList
    <3>3. First(f) = list[1].kind /\ list[1].kind \in {"string", "bool", "int"}
      BY <2>1, <2>2, <3>2 DEF Plain
    <3>4. mem <=> d.kind # "absent" /\ ~Among(D, list)
      BY <1>1, <2>5, MatchCases
    <3>5. CASE d.kind = "absent"
      <4>1. Member(d, First(f)) = SqlNull /\ pgExpr(d, First(f)) = SqlNull
        BY <3>3, <3>5 DEF Member, pgExpr, IsNumber
      <4>2. ~Lite
        BY <2>5, <3>1, <4>1, SqliteCases
      <4>3. ~Pg
        BY <2>5, <3>1, <4>1, PgCases
      <4> QED BY <3>4, <3>5, <4>2, <4>3
    <3>6. CASE d.kind # "absent"
      <4>1. Member(d, First(f)) # SqlNull /\ pgExpr(d, First(f)) # SqlNull
        BY <2>3, <3>1, <3>2, <3>6
      <4>2. req.adapter = "sqlite" => (Lite <=> ~Among(D, list))
        BY <2>3, <2>5, <3>1, <4>1, SqliteCases
      <4>3. req.adapter # "sqlite" => (Pg <=> ~Among(D, list))
        BY <2>3, <2>5, <3>1, <4>1, PgCases
      <4> QED BY <3>4, <3>6, <4>2, <4>3
    <3> QED BY <3>5, <3>6
  <2> QED BY <1>3, <2>4, <2>5
<1>4. CASE f.op \in {"array-contains", "array-contains-any"}
  <2> DEFINE Listed == IF y.kind = "array" THEN list ELSE <<y>>
             Listable(x) == x.kind \in {"string", "bool"} \/ (x.kind = "int" /\ req.adapter = "postgres")
  <2>1. /\ \A i \in DOMAIN Listed : Listable(Listed[i])
        /\ d.kind = "array" => \A i \in DOMAIN d.is : d.is[i].kind # "double"
    BY <1>4 DEF Comparable
  <2>2. \A x : Plain(x) =>
          LET held == D.kind = "array" /\ \E i \in DOMAIN D.is : filterValuesEqual(x, D.is[i])
          IN /\ req.adapter = "sqlite" =>
                  ((\E i \in DOMAIN ElementsOf(d) : LiteElement(ElementsOf(d)[i], x)) <=> held)
             /\ req.adapter # "sqlite" =>
                  ((\E i \in DOMAIN ElementsOf(d) : PgElement(ElementsOf(d)[i], x)) <=> held)
    BY <2>1, ArraysAgree
  <2>3. CASE f.op = "array-contains"
    <3>1. mem <=> D.kind = "array" /\ Among(y, D.is)
      BY <2>3, MatchCases
    <3>2. y.kind # "array"
      BY <2>3 DEF IsOperand, IsScalar
    <3>3. Listable(y)
      BY <2>1, <3>2
    <3>4. Plain(y)
      BY <2>3, <3>2, <3>3 DEF Plain, IsOperand, IsScalar
    <3>5. req.adapter = "sqlite" => (Lite <=> D.kind = "array" /\ Among(y, D.is))
      BY <2>2, <2>3, <3>4, SqliteCases
    <3>6. req.adapter # "sqlite" => (Pg <=> D.kind = "array" /\ Among(y, D.is))
      BY <2>2, <2>3, <3>4, PgCases
    <3> QED BY <3>1, <3>5, <3>6
  <2>4. CASE f.op = "array-contains-any"
    <3>1. \A i \in DOMAIN list : Plain(list[i])
      BY <2>4, PlainList
    <3>2. mem <=> D.kind = "array" /\ \E i \in DOMAIN D.is : Among(D.is[i], list)
      BY <2>4, MatchCases
    <3>3. \A x, z : filterValuesEqual(x, z) <=> filterValuesEqual(z, x)
      BY DEF filterValuesEqual
    <3>4. mem <=> \E j \in DOMAIN list : D.kind = "array" /\ Among(list[j], D.is)
      BY <3>2, <3>3
    <3>5. req.adapter = "sqlite" => (Lite <=> \E j \in DOMAIN list : D.kind = "array" /\ Among(list[j], D.is))
      BY <2>2, <2>4, <3>1, SqliteCases
    <3>6. req.adapter # "sqlite" => (Pg <=> \E j \in DOMAIN list : D.kind = "array" /\ Among(list[j], D.is))
      BY <2>2, <2>4, <3>1, PgCases
    <3> QED BY <3>4, <3>5, <3>6
  <2> QED BY <1>4, <2>3, <2>4
<1>5. f.op \in Comparisons \cup {"in", "not-in", "array-contains", "array-contains-any"}
  BY DEF protoFilterOp, Comparisons
<1> QED BY <1>2, <1>3, <1>4, <1>5

-----------------------------------------------------------------------------
(***************************************************************************)
(* Queries: orders and cursors.                                            *)
(***************************************************************************)

\* a before b: numbers before texts, then by their keys.
Comes(a, b) == Rank(a) < Rank(b) \/ (Rank(a) = Rank(b) /\ Key(a) < Key(b))

LEMMA SortableKinds ==
  ASSUME NEW a, NEW b, IsValue(a), IsValue(b), Sortable(a, b)
  PROVE  /\ IsScalar(a) /\ IsScalar(b) /\ Sortable(b, a)
         /\ a.kind \in {"int", "double", "string", "time"}
         /\ b.kind \in {"int", "double", "string", "time"}
         /\ Rank(a) = Rank(b) => a.kind = b.kind \/ (IsNumber(a) /\ IsNumber(b))
         /\ IsNumber(a) <=> Rank(a) = 1
         /\ a.kind = "time" /\ b.kind = "time" =>
              TimesComparable(a.is, b.is) /\ TimesComparable(b.is, a.is)
<1>1. \/ a.kind \in {"int", "double", "string"} /\ b.kind \in {"int", "double", "string"}
      \/ a.kind = "time" /\ b.kind = "time" /\ TimesComparable(a.is, b.is)
  BY DEF Sortable
<1>2. IsScalar(a) /\ IsScalar(b)
  BY <1>1 DEF IsValue, IsScalar
<1>3. a.kind = "time" /\ b.kind = "time" => TimesComparable(a.is, b.is) /\ TimesComparable(b.is, a.is)
  BY <1>1 DEF TimesComparable
<1>4. Sortable(b, a)
  BY <1>1, <1>3 DEF Sortable
<1> QED BY <1>1, <1>2, <1>3, <1>4 DEF Rank, IsNumber

\* What the reference says of two values, by their keys.
LEMMA RefKeys ==
  ASSUME NEW a, NEW b, IsValue(a), IsValue(b), Sortable(a, b)
  PROVE  /\ RefCmp(a, b) < 0 <=> Comes(a, b)
         /\ RefCmp(a, b) > 0 <=> Comes(b, a)
         /\ RefCmp(a, b) = 0 <=> Rank(a) = Rank(b) /\ Key(a) = Key(b)
         /\ RefCmp(a, b) \in {-1, 0, 1}
         /\ Rank(a) \in {1, 2} /\ Rank(b) \in {1, 2} /\ Key(a) \in Int /\ Key(b) \in Int
<1>1. /\ IsScalar(a) /\ IsScalar(b) /\ Rank(a) \in {1, 2} /\ Rank(b) \in {1, 2}
      /\ Rank(a) = Rank(b) => a.kind = b.kind \/ (IsNumber(a) /\ IsNumber(b))
      /\ a.kind \notin {"bool", "null"}
  BY SortableKinds DEF Rank
<1>2. Key(a) \in Int /\ Key(b) \in Int
  BY <1>1, KeyType
<1>3. RefCmp(a, b) = IF Rank(a) # Rank(b) THEN Sign(Rank(a) - Rank(b)) ELSE Sign(Key(a) - Key(b))
  BY <1>1, KeysInMemory DEF RefCmp
<1> QED BY <1>1, <1>2, <1>3 DEF Comes, Sign

LEMMA TextSelf ==
  ASSUME NEW x, Len(x) \in Nat
  PROVE  TextCmp(x, x) = 0
<1>1. {i \in 1 .. Len(x) : i <= Len(x) /\ x[i] # x[i]} = {}
  OBVIOUS
<1> QED BY <1>1 DEF TextCmp, Sign

\* The sort keys of two values.
LEMMA SortKeys ==
  ASSUME NEW a, NEW b, IsValue(a), IsValue(b), Sortable(a, b)
  PROVE  LET x == sqliteOrderExpr(a)
             y == sqliteOrderExpr(b)
         IN /\ x # SqlNull
            /\ x # y /\ SqlCmp(x, y) < 0 <=> Comes(a, b)
            /\ IsNumber(a) => x = SqlNum(Number(a))
            /\ ~IsNumber(a) => x = SortText(a) /\ x.type = "text"
            /\ IsNumber(a) => SortText(a) = SqlNull
<1> DEFINE x == sqliteOrderExpr(a)
           y == sqliteOrderExpr(b)
<1>1. /\ IsScalar(a) /\ IsScalar(b)
      /\ a.kind \in {"int", "double", "string", "time"}
      /\ b.kind \in {"int", "double", "string", "time"}
      /\ a.is \in Int /\ b.is \in Int
  BY SortableKinds DEF IsScalar
<1>2. Key(a) \in Int /\ Key(b) \in Int
  BY <1>1, KeyType
<1>3. /\ IsNumber(a) => x = SqlNum(Key(a)) /\ SortText(a) = SqlNull
      /\ IsNumber(b) => y = SqlNum(Key(b))
  BY <1>1 DEF sqliteOrderExpr, SortText, IsNumber, Key
<1>4. /\ ~IsNumber(a) => x = SortText(a) /\ x = SqlText(IF a.kind = "string" THEN <<a.is>> ELSE protojsonTime(a.is))
      /\ ~IsNumber(b) => y = SqlText(IF b.kind = "string" THEN <<b.is>> ELSE protojsonTime(b.is))
  BY <1>1 DEF sqliteOrderExpr, SortText, IsNumber
<1>5. CASE IsNumber(a) /\ IsNumber(b)
  <2>1. SqlCmp(x, y) = Sign(Key(a) - Key(b))
    BY <1>3, <1>5, SqlFacts
  <2>2. Key(a) < Key(b) => x # y
    BY <1>2, <1>3, <1>5 DEF SqlNum
  <2>3. Comes(a, b) <=> Key(a) < Key(b)
    BY <1>5 DEF Comes, Rank
  <2> QED BY <1>2, <1>3, <1>5, <2>1, <2>2, <2>3, SqlFacts DEF Sign, Key
<1>6. CASE IsNumber(a) /\ ~IsNumber(b)
  <2>1. x.type = "num" /\ y.type = "text"
    BY <1>3, <1>4, <1>6 DEF SqlNum, SqlText
  <2>2. x # y /\ SqlCmp(x, y) = -1
    BY <2>1 DEF SqlCmp
  <2>3. Comes(a, b)
    BY <1>6 DEF Comes, Rank
  <2> QED BY <1>2, <1>3, <1>6, <2>2, <2>3, SqlFacts DEF Key
<1>7. CASE ~IsNumber(a) /\ IsNumber(b)
  <2>1. y.type = "num" /\ x.type = "text"
    BY <1>3, <1>4, <1>7 DEF SqlNum, SqlText
  <2>2. SqlCmp(x, y) = 1
    BY <2>1 DEF SqlCmp
  <2>3. ~Comes(a, b)
    BY <1>7 DEF Comes, Rank
  <2> QED BY <1>4, <1>7, <2>1, <2>2, <2>3, SqlFacts
<1>8. CASE ~IsNumber(a) /\ ~IsNumber(b)
  <2> DEFINE s == IF a.kind = "string" THEN <<a.is>> ELSE protojsonTime(a.is)
             t == IF b.kind = "string" THEN <<b.is>> ELSE protojsonTime(b.is)
  <2>1. x = SqlText(s) /\ y = SqlText(t)
    BY <1>4, <1>8
  <2>2. SqlCmp(x, y) = TextCmp(s, t)
    BY <2>1, SqlFacts
  <2>3. a.kind = b.kind /\ Key(a) = a.is /\ Key(b) = b.is /\ (Comes(a, b) <=> a.is < b.is)
    <3>1. a.kind = b.kind
      BY <1>8, SortableKinds DEF Rank
    <3> QED BY <1>8, <3>1 DEF Key, Comes, Rank
  <2>4. TextCmp(s, t) = Sign(a.is - b.is)
    <3>1. CASE a.kind = "string"
      BY <1>1, <2>3, <3>1, OneCharacter
    <3>2. CASE a.kind = "time"
      <4>1. TimesComparable(a.is, b.is)
        BY <2>3, <3>2, SortableKinds
      <4> QED BY <1>1, <2>3, <3>2, <4>1, TimesSort DEF Texts
    <3> QED BY <1>1, <1>8, <3>1, <3>2 DEF IsNumber
  <2>5. Len(s) \in Nat
    BY <1>1, TimeTexts DEF Texts
  <2>6. x = y => s = t
    BY <2>1 DEF SqlText
  <2>7. x = y => ~(TextCmp(s, t) < 0)
    BY <2>5, <2>6, TextSelf
  <2>8. TextCmp(s, t) < 0 <=> a.is < b.is
    BY <1>1, <2>4 DEF Sign
  <2>9. x.type = "text"
    BY <2>1 DEF SqlText
  <2> QED BY <1>4, <1>8, <2>1, <2>2, <2>3, <2>7, <2>8, <2>9, SqlFacts
<1> QED BY <1>5, <1>6, <1>7, <1>8

\* Both ORDER BY clauses sort as the reference does.
LEMMA OrdersAgree ==
  ASSUME NEW a, NEW b, IsValue(a), IsValue(b), Sortable(a, b)
  PROVE  /\ sqliteBefore(a, b, FALSE) <=> RefCmp(a, b) < 0
         /\ pgBefore(a, b, FALSE) <=> RefCmp(a, b) < 0
<1> DEFINE x == sqliteOrderExpr(a)
           y == sqliteOrderExpr(b)
<1>1. /\ x # SqlNull
      /\ x # y /\ SqlCmp(x, y) < 0 <=> Comes(a, b)
      /\ IsNumber(a) => x = SqlNum(Number(a)) /\ SortText(a) = SqlNull
      /\ ~IsNumber(a) => x = SortText(a)
  BY SortKeys
<1>2. /\ y # SqlNull
      /\ IsNumber(b) => y = SqlNum(Number(b)) /\ SortText(b) = SqlNull
      /\ ~IsNumber(b) => y = SortText(b)
  <2>1. Sortable(b, a)
    BY SortableKinds
  <2> QED BY <2>1, SortKeys
<1>3. sqliteBefore(a, b, FALSE) <=> Comes(a, b)
  BY <1>1, <1>2 DEF sqliteBefore
<1>4. pgBefore(a, b, FALSE) <=> Comes(a, b)
  <2> DEFINE u == pgOrderExpr(a)
             v == pgOrderExpr(b)
             Less(i) == u[i] # v[i] /\ (v[i] = SqlNull \/ (u[i] # SqlNull /\ SqlCmp(u[i], v[i]) < 0))
  <2>1. pgBefore(a, b, FALSE) <=> Less(1) \/ (u[1] = v[1] /\ Less(2))
    BY DEF pgBefore
  <2>2. /\ u[1] = IF IsNumber(a) THEN x ELSE SqlNull
        /\ u[2] = IF IsNumber(a) THEN SqlNull ELSE x
        /\ v[1] = IF IsNumber(b) THEN y ELSE SqlNull
        /\ v[2] = IF IsNumber(b) THEN SqlNull ELSE y
    BY <1>1, <1>2 DEF pgOrderExpr
  <2> HIDE DEF u, v, x, y
  <2>3. CASE IsNumber(a) /\ IsNumber(b)
    <3>1. u[1] = x /\ v[1] = y /\ u[2] = SqlNull /\ v[2] = SqlNull
      BY <2>2, <2>3
    <3>2. ~Less(2) /\ (Less(1) <=> x # y /\ SqlCmp(x, y) < 0)
      BY <1>1, <1>2, <3>1
    <3> QED BY <1>1, <2>1, <3>2
  <2>4. CASE ~IsNumber(a) /\ ~IsNumber(b)
    <3>1. u[1] = SqlNull /\ v[1] = SqlNull /\ u[2] = x /\ v[2] = y
      BY <2>2, <2>4
    <3>2. ~Less(1) /\ (Less(2) <=> x # y /\ SqlCmp(x, y) < 0)
      BY <1>1, <1>2, <3>1
    <3> QED BY <1>1, <2>1, <3>1, <3>2
  <2>5. CASE IsNumber(a) /\ ~IsNumber(b)
    <3>1. Comes(a, b)
      BY <2>5 DEF Comes, Rank
    <3> QED BY <1>1, <1>2, <2>1, <2>2, <2>5, <3>1
  <2>6. CASE ~IsNumber(a) /\ IsNumber(b)
    <3>1. ~Comes(a, b)
      BY <2>6 DEF Comes, Rank
    <3> QED BY <1>1, <1>2, <2>1, <2>2, <2>6, <3>1
  <2> QED BY <2>3, <2>4, <2>5, <2>6
<1> QED BY <1>3, <1>4, RefKeys

\* A set of naturals has a first one.
LEMMA FirstOf ==
  ASSUME NEW S \in SUBSET Nat, S # {}
  PROVE  \E i \in S : \A j \in S : i <= j
<1>1. PICK n \in S : \A m \in S : ~ <<m, n>> \in OpToRel(<, Nat)
  BY NatLessThanWellFounded, WFMin
<1>2. \A m \in S : ~(m < n)
  BY <1>1 DEF OpToRel
<1> QED BY <1>2

\* One position of two rows, and what decides over n of them.
PosCmp(row, other, i) ==
  IF query.orderBy[i].desc THEN RefCmp(other[i], row[i]) ELSE RefCmp(row[i], other[i])

LEMMA RowSigns ==
  ASSUME NEW row, NEW other, NEW n \in Nat, \A i \in 1 .. n : PosCmp(row, other, i) \in Int
  PROVE  LET Decides(i) == \A j \in 1 .. (i - 1) : PosCmp(row, other, j) = 0
             s == RowCmp(row, other, n)
         IN /\ s \in Int
            /\ s < 0 <=> \E i \in 1 .. n : PosCmp(row, other, i) < 0 /\ Decides(i)
            /\ s > 0 <=> \E i \in 1 .. n : PosCmp(row, other, i) > 0 /\ Decides(i)
            /\ s = 0 <=> \A i \in 1 .. n : PosCmp(row, other, i) = 0
<1> DEFINE Cmp(i) == PosCmp(row, other, i)
           apart == {i \in 1 .. n : Cmp(i) # 0}
           first == CHOOSE i \in apart : \A j \in apart : i <= j
           s == RowCmp(row, other, n)
           Decides(i) == \A j \in 1 .. (i - 1) : Cmp(j) = 0
<1>1. s = IF apart = {} THEN 0 ELSE Cmp(first)
  BY DEF RowCmp, PosCmp
<1>2. \A i \in 1 .. n : Cmp(i) # 0 => i \in apart
  OBVIOUS
<1>3. \A i \in apart : i \in 1 .. n /\ Cmp(i) # 0
  OBVIOUS
<1>4. apart # {} => first \in apart /\ \A j \in apart : first <= j
  <2>1. apart \in SUBSET Nat
    OBVIOUS
  <2> HIDE DEF apart
  <2> QED BY <2>1, FirstOf
<1> HIDE DEF apart, first, Cmp, s
<1>5. CASE apart = {}
  <2>1. s = 0 /\ \A i \in 1 .. n : Cmp(i) = 0
    BY <1>1, <1>2, <1>5
  <2> QED BY <2>1 DEF s, Cmp
<1>6. CASE apart # {}
  <2>1. first \in 1 .. n /\ Cmp(first) # 0 /\ s = Cmp(first) /\ Cmp(first) \in Int
    BY <1>1, <1>3, <1>4, <1>6 DEF Cmp
  <2>2. Decides(first)
    BY <1>2, <1>4, <1>6, <2>1
  <2>3. ASSUME NEW i \in 1 .. n, Cmp(i) # 0, Decides(i)
        PROVE  i = first
    <3>1. first <= i
      BY <1>2, <1>4, <1>6, <2>3
    <3>2. ~(first < i)
      BY <2>1, <2>3
    <3> QED BY <2>1, <3>1, <3>2
  <2>4. \A i \in 1 .. n : Cmp(i) \in Int
    BY DEF Cmp
  <2>5. s < 0 <=> \E i \in 1 .. n : Cmp(i) < 0 /\ Decides(i)
    BY <2>1, <2>2, <2>3, <2>4
  <2>6. s > 0 <=> \E i \in 1 .. n : Cmp(i) > 0 /\ Decides(i)
    BY <2>1, <2>2, <2>3, <2>4
  <2> QED BY <2>1, <2>5, <2>6 DEF s, Cmp
<1> QED BY <1>5, <1>6

\* Rows of which any two can be sorted.
SortableRows(S) ==
  /\ IsList(query.orderBy)
  /\ \A p \in S : \A i \in DOMAIN query.orderBy : IsValue(Row(p)[i])
  /\ \A p, r \in S : \A i \in DOMAIN query.orderBy : Sortable(Row(p)[i], Row(r)[i])

\* What one position says of three rows.
LEMMA Positions ==
  ASSUME NEW S, SortableRows(S), NEW p \in S, NEW q \in S, NEW r \in S,
         NEW i \in DOMAIN query.orderBy
  PROVE  LET Cmp(x, y) == PosCmp(Row(x), Row(y), i)
         IN /\ Cmp(p, q) \in Int /\ Cmp(p, p) = 0
            /\ Cmp(p, q) < 0 <=> Cmp(q, p) > 0
            /\ Cmp(p, q) = 0 <=> Cmp(q, p) = 0
            /\ Cmp(p, q) = 0 /\ Cmp(q, r) = 0 => Cmp(p, r) = 0
            /\ Cmp(p, q) < 0 /\ Cmp(q, r) <= 0 => Cmp(p, r) < 0
            /\ Cmp(p, q) <= 0 /\ Cmp(q, r) < 0 => Cmp(p, r) < 0
<1> DEFINE Cmp(x, y) == PosCmp(Row(x), Row(y), i)
           R(x) == Rank(Row(x)[i])
           N(x) == Key(Row(x)[i])
           C(x, y) == R(x) < R(y) \/ (R(x) = R(y) /\ N(x) < N(y))
<1>1. \A x, y \in {p, q, r} :
        LET a == Row(x)[i]
            b == Row(y)[i]
        IN /\ RefCmp(a, b) < 0 <=> C(x, y)
           /\ RefCmp(a, b) > 0 <=> C(y, x)
           /\ RefCmp(a, b) = 0 <=> R(x) = R(y) /\ N(x) = N(y)
           /\ RefCmp(a, b) \in Int
           /\ R(x) \in Int /\ N(x) \in Int
  <2> SUFFICES ASSUME NEW x \in {p, q, r}, NEW y \in {p, q, r}
               PROVE  LET a == Row(x)[i]
                          b == Row(y)[i]
                      IN /\ RefCmp(a, b) < 0 <=> C(x, y)
                         /\ RefCmp(a, b) > 0 <=> C(y, x)
                         /\ RefCmp(a, b) = 0 <=> R(x) = R(y) /\ N(x) = N(y)
                         /\ RefCmp(a, b) \in Int
                         /\ R(x) \in Int /\ N(x) \in Int
    OBVIOUS
  <2>1. IsValue(Row(x)[i]) /\ IsValue(Row(y)[i]) /\ Sortable(Row(x)[i], Row(y)[i])
    BY DEF SortableRows
  <2> QED BY <2>1, RefKeys DEF Comes
<1> HIDE DEF R, N
<1>2. CASE query.orderBy[i].desc
  <2>1. \A x, y : Cmp(x, y) = RefCmp(Row(y)[i], Row(x)[i])
    BY <1>2 DEF PosCmp
  <2> HIDE DEF Cmp
  <2>2. \A x, y \in {p, q, r} : /\ Cmp(x, y) \in Int /\ R(x) \in Int /\ N(x) \in Int
                                /\ Cmp(x, y) < 0 <=> C(y, x)
                                /\ Cmp(x, y) > 0 <=> C(x, y)
                                /\ Cmp(x, y) = 0 <=> R(x) = R(y) /\ N(x) = N(y)
    BY <1>1, <2>1
  <2> QED BY <2>2 DEF Cmp
<1>3. CASE ~query.orderBy[i].desc
  <2>1. \A x, y : Cmp(x, y) = RefCmp(Row(x)[i], Row(y)[i])
    BY <1>3 DEF PosCmp
  <2> HIDE DEF Cmp
  <2>2. \A x, y \in {p, q, r} : /\ Cmp(x, y) \in Int /\ R(x) \in Int /\ N(x) \in Int
                                /\ Cmp(x, y) < 0 <=> C(x, y)
                                /\ Cmp(x, y) > 0 <=> C(y, x)
                                /\ Cmp(x, y) = 0 <=> R(x) = R(y) /\ N(x) = N(y)
    BY <1>1, <2>1
  <2> QED BY <2>2 DEF Cmp
<1> QED BY <1>2, <1>3

\* The order of rows is transitive, and no row is before itself.
RowBefore(p, r) == RowCmp(Row(p), Row(r), Len(query.orderBy)) < 0

LEMMA RowOrder ==
  ASSUME NEW S, SortableRows(S), NEW p \in S, NEW q \in S, NEW r \in S
  PROVE  /\ ~RowBefore(p, p)
         /\ RowBefore(p, q) /\ RowBefore(q, r) => RowBefore(p, r)
<1> DEFINE n == Len(query.orderBy)
           Cmp(x, y, i) == PosCmp(Row(x), Row(y), i)
           Decides(x, y, i) == \A j \in 1 .. (i - 1) : Cmp(x, y, j) = 0
<1>1. n \in Nat /\ DOMAIN query.orderBy = 1 .. n
  BY DEF SortableRows, IsList
<1>2. \A x, y, z \in {p, q, r} : \A i \in 1 .. n :
        /\ Cmp(x, y, i) \in Int /\ Cmp(x, x, i) = 0
        /\ Cmp(x, y, i) = 0 /\ Cmp(y, z, i) = 0 => Cmp(x, z, i) = 0
        /\ Cmp(x, y, i) < 0 /\ Cmp(y, z, i) <= 0 => Cmp(x, z, i) < 0
        /\ Cmp(x, y, i) <= 0 /\ Cmp(y, z, i) < 0 => Cmp(x, z, i) < 0
  <2>1. \A x, y, z \in {p, q, r} : x \in S /\ y \in S /\ z \in S
    OBVIOUS
  <2> QED BY <1>1, <2>1, Positions
<1> HIDE DEF n, Cmp
<1>3. \A x, y \in {p, q, r} : RowBefore(x, y) <=> \E i \in 1 .. n : Cmp(x, y, i) < 0 /\ Decides(x, y, i)
  <2> SUFFICES ASSUME NEW x \in {p, q, r}, NEW y \in {p, q, r}
               PROVE  RowBefore(x, y) <=> \E i \in 1 .. n : Cmp(x, y, i) < 0 /\ Decides(x, y, i)
    OBVIOUS
  <2>1. \A i \in 1 .. n : PosCmp(Row(x), Row(y), i) \in Int
    BY <1>2 DEF Cmp
  <2>2. RowCmp(Row(x), Row(y), n) < 0
          <=> \E i \in 1 .. n : /\ PosCmp(Row(x), Row(y), i) < 0
                                /\ \A j \in 1 .. (i - 1) : PosCmp(Row(x), Row(y), j) = 0
    BY <1>1, <2>1, RowSigns
  <2> QED BY <2>2 DEF RowBefore, n, Cmp
<1>4. ~RowBefore(p, p)
  <2>1. \A i \in 1 .. n : ~(Cmp(p, p, i) < 0)
    BY <1>2
  <2> QED BY <1>3, <2>1
<1>5. ASSUME RowBefore(p, q), RowBefore(q, r)
      PROVE  RowBefore(p, r)
  <2>1. PICK i \in 1 .. n : Cmp(p, q, i) < 0 /\ Decides(p, q, i)
    BY <1>3, <1>5
  <2>2. PICK k \in 1 .. n : Cmp(q, r, k) < 0 /\ Decides(q, r, k)
    BY <1>3, <1>5
  <2>3. \A j \in 1 .. n : j < i => Cmp(p, q, j) = 0
    BY <2>1
  <2>4. \A j \in 1 .. n : j < k => Cmp(q, r, j) = 0
    BY <2>2
  <2>5. ASSUME NEW m \in 1 .. n, m <= i, m <= k, Cmp(p, r, m) < 0
        PROVE  RowBefore(p, r)
    <3>1. \A j \in 1 .. (m - 1) : j \in 1 .. n /\ Cmp(p, q, j) = 0 /\ Cmp(q, r, j) = 0
      BY <1>1, <2>3, <2>4, <2>5
    <3>2. Decides(p, r, m)
      BY <1>2, <3>1
    <3> QED BY <1>3, <2>5, <3>2
  <2>6. CASE i <= k
    <3>1. Cmp(q, r, i) <= 0
      <4>1. i = k \/ i < k
        BY <1>1, <2>6
      <4>2. Cmp(q, r, k) <= 0
        BY <1>2, <2>2
      <4>3. i < k => Cmp(q, r, i) <= 0
        BY <2>4
      <4> QED BY <4>1, <4>2, <4>3
    <3>2. Cmp(p, r, i) < 0
      BY <1>2, <2>1, <3>1
    <3> QED BY <2>5, <2>6, <3>2
  <2>7. CASE k < i
    <3>1. Cmp(p, q, k) <= 0
      BY <1>1, <2>3, <2>7
    <3>2. Cmp(p, r, k) < 0
      BY <1>2, <2>2, <3>1
    <3> QED BY <2>5, <2>7, <3>2
  <2> QED BY <2>6, <2>7
<1> QED BY <1>4, <1>5

\* ORDER BY puts the rows in the order of the reference.
LEMMA PrecedesAgrees ==
  ASSUME NEW S, SortableRows(S), NEW p \in S, NEW r \in S
  PROVE  Precedes(p, r) <=> RowBefore(p, r)
<1> DEFINE n == Len(query.orderBy)
           Cmp(x, y, i) == PosCmp(Row(x), Row(y), i)
           Before(x, y, i) == IF req.adapter = "sqlite"
                                THEN sqliteBefore(Row(x)[i], Row(y)[i], query.orderBy[i].desc)
                                ELSE pgBefore(Row(x)[i], Row(y)[i], query.orderBy[i].desc)
<1>1. n \in Nat /\ DOMAIN query.orderBy = 1 .. n
  BY DEF SortableRows, IsList
<1>2. ASSUME NEW x \in S, NEW y \in S, NEW i \in 1 .. n
      PROVE  Before(x, y, i) <=> Cmp(x, y, i) < 0
  <2> DEFINE a == Row(x)[i]
             b == Row(y)[i]
  <2>1. IsValue(a) /\ IsValue(b) /\ Sortable(a, b) /\ Sortable(b, a)
    BY <1>1 DEF SortableRows
  <2>2. /\ sqliteBefore(a, b, FALSE) <=> RefCmp(a, b) < 0
        /\ pgBefore(a, b, FALSE) <=> RefCmp(a, b) < 0
        /\ sqliteBefore(b, a, FALSE) <=> RefCmp(b, a) < 0
        /\ pgBefore(b, a, FALSE) <=> RefCmp(b, a) < 0
    BY <2>1, OrdersAgree
  <2> HIDE DEF a, b
  <2>3. CASE query.orderBy[i].desc
    <3>1. /\ sqliteBefore(a, b, query.orderBy[i].desc) <=> sqliteBefore(b, a, FALSE)
          /\ pgBefore(a, b, query.orderBy[i].desc) <=> pgBefore(b, a, FALSE)
      BY <2>3 DEF sqliteBefore, pgBefore
    <3>2. Cmp(x, y, i) = RefCmp(b, a)
      BY <2>3 DEF PosCmp, a, b
    <3> QED BY <2>2, <3>1, <3>2 DEF a, b
  <2>4. CASE ~query.orderBy[i].desc
    <3>1. /\ sqliteBefore(a, b, query.orderBy[i].desc) <=> sqliteBefore(a, b, FALSE)
          /\ pgBefore(a, b, query.orderBy[i].desc) <=> pgBefore(a, b, FALSE)
      BY <2>4 DEF sqliteBefore, pgBefore
    <3>2. Cmp(x, y, i) = RefCmp(a, b)
      BY <2>4 DEF PosCmp, a, b
    <3> QED BY <2>2, <3>1, <3>2 DEF a, b
  <2> QED BY <2>3, <2>4
<1>3. \A i \in 1 .. n : /\ Cmp(p, r, i) \in Int /\ Cmp(r, p, i) \in Int
                        /\ Cmp(p, r, i) < 0 <=> Cmp(r, p, i) > 0
                        /\ Cmp(p, r, i) = 0 <=> Cmp(r, p, i) = 0
  BY <1>1, Positions
<1>4. Precedes(p, r) <=> \E i \in 1 .. n : Before(p, r, i) /\ \A j \in 1 .. (i - 1) : ~Before(r, p, j) /\ ~Before(p, r, j)
  BY <1>1 DEF Precedes
<1> HIDE DEF n, Cmp, Before
<1>5. \A j \in 1 .. n : (~Before(r, p, j) /\ ~Before(p, r, j)) <=> Cmp(p, r, j) = 0
  BY <1>2, <1>3
<1>6. \A i \in 1 .. n : \A j \in 1 .. (i - 1) : j \in 1 .. n
  BY <1>1
<1>7. Precedes(p, r) <=> \E i \in 1 .. n : Cmp(p, r, i) < 0 /\ \A j \in 1 .. (i - 1) : Cmp(p, r, j) = 0
  BY <1>2, <1>4, <1>5, <1>6
<1>8. RowBefore(p, r) <=> \E i \in 1 .. n : Cmp(p, r, i) < 0 /\ \A j \in 1 .. (i - 1) : Cmp(p, r, j) = 0
  BY <1>1, <1>3, RowSigns DEF RowBefore, n, Cmp
<1> QED BY <1>7, <1>8

\* A cursor over one field, or one that leaves its own row out, keeps the rows
\* on its side.
LEMMA CursorsAgree ==
  ASSUME NEW c, NEW p, IsList(query.orderBy), IsList(c.values),
         c.before \in BOOLEAN, c.isEnd \in BOOLEAN,
         CursorSize(c) <= 1 \/ c.before = c.isEnd,
         \A i \in 1 .. CursorSize(c) :
           /\ IsValue(Row(p)[i]) /\ IsValue(c.values[i])
           /\ Row(p)[i].kind = c.values[i].kind /\ Sortable(Row(p)[i], c.values[i])
  PROVE  /\ sqliteCursorClause(c, query.orderBy, Row(p)) <=> InCursor(c, Row(p))
         /\ pgCursorClause(c, query.orderBy, Row(p)) <=> InCursor(c, Row(p))
<1> DEFINE n == CursorSize(c)
           row == Row(p)
           vals == c.values
           Cmp(i) == PosCmp(row, vals, i)
           s == RowCmp(row, vals, n)
           Op(i) == sqliteCursorOp(c.isEnd, c.before, query.orderBy[i].desc)
           Lite(op, i) == SqlTrue(op, sqliteScalarExpr(row[i], vals[i].kind), sqliteArg(vals[i]))
           Pg(op, i) == SqlTrue(op, pgExpr(row[i], vals[i].kind), pgArg(vals[i]))
           Side(a) == CASE ~c.isEnd /\ c.before -> a >= 0 [] ~c.isEnd /\ ~c.before -> a > 0
                        [] c.isEnd /\ c.before -> a < 0 [] OTHER -> a <= 0
           Kept == n = 0 \/ \E i \in 1 .. n : Side(Cmp(i)) /\ \A j \in 1 .. (i - 1) : Cmp(j) = 0
<1>1. n \in Nat
  BY DEF CursorSize, IsList
<1>2. ASSUME NEW i \in 1 .. n
      PROVE  /\ Cmp(i) \in Int
             /\ Lite("==", i) <=> Cmp(i) = 0
             /\ Pg("==", i) <=> Cmp(i) = 0
             /\ Lite(Op(i), i) <=> Side(Cmp(i))
             /\ Pg(Op(i), i) <=> Side(Cmp(i))
  <2> DEFINE a == row[i]
             b == vals[i]
             k == Sign(Key(a) - Key(b))
  <2>1. /\ IsValue(a) /\ IsValue(b) /\ Sortable(a, b) /\ Sortable(b, a) /\ a.kind = b.kind
        /\ IsScalar(a) /\ IsScalar(b) /\ a.kind \in {"int", "double", "string", "time"}
        /\ a.kind = "time" => TimesComparable(a.is, b.is)
    BY SortableKinds
  <2>2. Key(a) \in Int /\ Key(b) \in Int
    BY <2>1, KeyType
  <2>3. /\ \A op : Lite(op, i) <=> SignOk(op, k)
        /\ \A op : Pg(op, i) <=> SignOk(op, k)
    BY <2>1, KeysInSql
  <2>4. RefCmp(a, b) = k /\ RefCmp(b, a) = Sign(Key(b) - Key(a))
    BY <2>1, KeysInMemory DEF RefCmp, Rank, IsNumber
  <2>5. k \in {-1, 0, 1} /\ Sign(Key(b) - Key(a)) = 0 - k
    BY <2>2 DEF Sign
  <2>6. Cmp(i) = IF query.orderBy[i].desc THEN 0 - k ELSE k
    BY <2>4, <2>5 DEF PosCmp
  <2> HIDE DEF a, b, k, Lite, Pg, Cmp
  <2>7. SignOk("==", k) <=> Cmp(i) = 0
    BY <2>5, <2>6 DEF SignOk
  <2>8. SignOk(Op(i), k) <=> Side(Cmp(i))
    <3>1. query.orderBy[i].desc => Cmp(i) = 0 - k
      BY <2>6
    <3>2. ~query.orderBy[i].desc => Cmp(i) = k
      BY <2>6
    <3>3. /\ SignOk("<", k) <=> k < 0
          /\ SignOk("<=", k) <=> k <= 0
          /\ SignOk(">", k) <=> k > 0
          /\ SignOk(">=", k) <=> k >= 0
      BY DEF SignOk
    <3>4. CASE ~c.isEnd /\ c.before
      <4>1. Op(i) = IF query.orderBy[i].desc THEN "<=" ELSE ">="
        BY <3>4 DEF sqliteCursorOp
      <4>2. Side(Cmp(i)) <=> Cmp(i) >= 0
        BY <3>4
      <4> HIDE DEF Op, Side
      <4>3. CASE query.orderBy[i].desc
        BY <2>5, <3>1, <3>3, <4>1, <4>2, <4>3
      <4>4. CASE ~query.orderBy[i].desc
        BY <2>5, <3>2, <3>3, <4>1, <4>2, <4>4
      <4> QED BY <4>3, <4>4
    <3>5. CASE ~c.isEnd /\ ~c.before
      <4>1. Op(i) = IF query.orderBy[i].desc THEN "<" ELSE ">"
        BY <3>5 DEF sqliteCursorOp
      <4>2. Side(Cmp(i)) <=> Cmp(i) > 0
        BY <3>5
      <4> HIDE DEF Op, Side
      <4>3. CASE query.orderBy[i].desc
        BY <2>5, <3>1, <3>3, <4>1, <4>2, <4>3
      <4>4. CASE ~query.orderBy[i].desc
        BY <2>5, <3>2, <3>3, <4>1, <4>2, <4>4
      <4> QED BY <4>3, <4>4
    <3>6. CASE c.isEnd /\ c.before
      <4>1. Op(i) = IF query.orderBy[i].desc THEN ">" ELSE "<"
        BY <3>6 DEF sqliteCursorOp
      <4>2. Side(Cmp(i)) <=> Cmp(i) < 0
        BY <3>6
      <4> HIDE DEF Op, Side
      <4>3. CASE query.orderBy[i].desc
        BY <2>5, <3>1, <3>3, <4>1, <4>2, <4>3
      <4>4. CASE ~query.orderBy[i].desc
        BY <2>5, <3>2, <3>3, <4>1, <4>2, <4>4
      <4> QED BY <4>3, <4>4
    <3>7. CASE c.isEnd /\ ~c.before
      <4>1. Op(i) = IF query.orderBy[i].desc THEN ">=" ELSE "<="
        BY <3>7 DEF sqliteCursorOp
      <4>2. Side(Cmp(i)) <=> Cmp(i) <= 0
        BY <3>7
      <4> HIDE DEF Op, Side
      <4>3. CASE query.orderBy[i].desc
        BY <2>5, <3>1, <3>3, <4>1, <4>2, <4>3
      <4>4. CASE ~query.orderBy[i].desc
        BY <2>5, <3>2, <3>3, <4>1, <4>2, <4>4
      <4> QED BY <4>3, <4>4
    <3> QED BY <3>4, <3>5, <3>6, <3>7
  <2> QED BY <2>3, <2>5, <2>6, <2>7, <2>8
<1>3. sqliteCursorClause(c, query.orderBy, row)
        <=> n = 0 \/ \E i \in 1 .. n : (\A j \in 1 .. (i - 1) : Lite("==", j)) /\ Lite(Op(i), i)
  BY DEF sqliteCursorClause, CursorClause, CursorSize
<1>4. pgCursorClause(c, query.orderBy, row)
        <=> n = 0 \/ \E i \in 1 .. n : (\A j \in 1 .. (i - 1) : Pg("==", j)) /\ Pg(Op(i), i)
  BY DEF pgCursorClause, CursorClause, CursorSize
<1>5. InCursor(c, row) <=> n = 0 \/ Side(s)
  BY DEF InCursor
<1> HIDE DEF n, Cmp, s, Lite, Pg, Op, Side, row, vals
<1>6. \A i \in 1 .. n : \A j \in 1 .. (i - 1) : j \in 1 .. n
  BY <1>1
<1>7. sqliteCursorClause(c, query.orderBy, row) <=> Kept
  BY <1>2, <1>3, <1>6
<1>8. pgCursorClause(c, query.orderBy, row) <=> Kept
  BY <1>2, <1>4, <1>6
<1>9. /\ s \in Int
      /\ s < 0 <=> \E i \in 1 .. n : Cmp(i) < 0 /\ \A j \in 1 .. (i - 1) : Cmp(j) = 0
      /\ s > 0 <=> \E i \in 1 .. n : Cmp(i) > 0 /\ \A j \in 1 .. (i - 1) : Cmp(j) = 0
      /\ s = 0 <=> \A i \in 1 .. n : Cmp(i) = 0
  <2>1. \A i \in 1 .. n : PosCmp(row, vals, i) \in Int
    BY <1>2 DEF Cmp
  <2> QED BY <1>1, <2>1, RowSigns DEF s, Cmp
<1>10. Kept <=> n = 0 \/ Side(s)
  <2>1. CASE c.before = c.isEnd
    <3>1. CASE c.isEnd
      BY <1>9, <2>1, <3>1 DEF Side
    <3>2. CASE ~c.isEnd
      BY <1>9, <2>1, <3>2 DEF Side
    <3> QED BY <3>1, <3>2
  <2>2. CASE n = 1
    <3>1. Kept <=> Side(Cmp(1))
      <4>1. \A i \in 1 .. n : i = 1
        BY <2>2
      <4>2. 1 \in 1 .. n /\ \A j \in 1 .. (1 - 1) : Cmp(j) = 0
        BY <2>2
      <4> QED BY <2>2, <4>1, <4>2
    <3>2. s < 0 <=> Cmp(1) < 0
      BY <1>9, <2>2
    <3>3. s > 0 <=> Cmp(1) > 0
      BY <1>9, <2>2
    <3>4. Cmp(1) \in Int
      BY <1>2, <2>2
    <3>5. Side(s) <=> Side(Cmp(1))
      BY <1>9, <3>2, <3>3, <3>4 DEF Side
    <3> QED BY <2>2, <3>1, <3>5
  <2>3. CASE n = 0
    BY <2>3
  <2>4. n = 0 \/ n = 1 \/ c.before = c.isEnd
    BY <1>1 DEF n
  <2> QED BY <2>1, <2>2, <2>3, <2>4
<1> QED BY <1>5, <1>7, <1>8, <1>10 DEF row

-----------------------------------------------------------------------------
(***************************************************************************)
(* Queries: places in an order.                                            *)
(***************************************************************************)

\* The rows of a query, and the number of those before one of them.
Ordered(S) ==
  \A p, q, r \in S : /\ ~InOrder(p, p)
                     /\ InOrder(p, q) /\ InOrder(q, r) => InOrder(p, r)
                     /\ p = q \/ InOrder(p, q) \/ InOrder(q, p)

Place(S, p) == Cardinality({r \in S : InOrder(r, p)})

LEMMA PlaceBefore ==
  ASSUME NEW S, IsFiniteSet(S), Ordered(S), NEW p \in S
  PROVE  /\ Place(S, p) \in 0 .. (Cardinality(S) - 1)
         /\ \A r \in S : InOrder(r, p) => Place(S, r) < Place(S, p)
<1>1. Cardinality(S) \in Nat
  BY FS_CardinalityType
<1>2. ASSUME NEW r \in S
      PROVE  IsFiniteSet({q \in S : InOrder(q, r)}) /\ Place(S, r) \in Nat
  <2>1. {q \in S : InOrder(q, r)} \in SUBSET S
    OBVIOUS
  <2>2. IsFiniteSet({q \in S : InOrder(q, r)})
    BY <2>1, FS_Subset
  <2> QED BY <2>2, FS_CardinalityType DEF Place
<1>3. ASSUME NEW L \in SUBSET S, IsFiniteSet(L), NEW r \in L, {q \in S : InOrder(q, r)} \subseteq L
      PROVE  Place(S, r) < Cardinality(L)
  <2> DEFINE less == {q \in S : InOrder(q, r)}
  <2>1. less \in SUBSET L /\ r \notin less
    BY <1>3 DEF Ordered
  <2>2. Cardinality(less) <= Cardinality(L) /\ (Cardinality(L) = Cardinality(less) => L = less)
    BY <1>3, <2>1, FS_Subset
  <2>3. Cardinality(less) # Cardinality(L)
    BY <1>3, <2>1, <2>2
  <2>4. Cardinality(less) \in Nat /\ Cardinality(L) \in Nat
    BY <1>2, <1>3, FS_CardinalityType DEF Place
  <2> HIDE DEF less
  <2>5. Cardinality(less) < Cardinality(L)
    BY <2>2, <2>3, <2>4
  <2> QED BY <2>5 DEF less, Place
<1>4. Place(S, p) < Cardinality(S)
  <2>1. {q \in S : InOrder(q, p)} \subseteq S /\ S \in SUBSET S
    OBVIOUS
  <2> QED BY <1>3, <2>1
<1>5. ASSUME NEW r \in S, InOrder(r, p)
      PROVE  Place(S, r) < Place(S, p)
  <2> DEFINE L == {q \in S : InOrder(q, p)}
  <2>1. L \in SUBSET S /\ IsFiniteSet(L) /\ r \in L
    BY <1>2, <1>5
  <2>2. {q \in S : InOrder(q, r)} \subseteq L
    BY <1>5 DEF Ordered
  <2>3. Place(S, r) < Cardinality(L)
    BY <1>3, <2>1, <2>2
  <2> QED BY <2>3 DEF Place
<1>6. Place(S, p) \in Nat
  BY <1>2
<1> QED BY <1>1, <1>4, <1>5, <1>6

\* Different rows have different places, and the places say which comes first.
LEMMA PlacesApart ==
  ASSUME NEW S, IsFiniteSet(S), Ordered(S), NEW p \in S, NEW r \in S
  PROVE  /\ Place(S, p) = Place(S, r) => p = r
         /\ InOrder(p, r) <=> Place(S, p) < Place(S, r)
<1>1. Place(S, p) \in Int /\ Place(S, r) \in Int
  BY PlaceBefore
<1>2. /\ InOrder(p, r) => Place(S, p) < Place(S, r)
      /\ InOrder(r, p) => Place(S, r) < Place(S, p)
  BY PlaceBefore
<1>3. p = r \/ InOrder(p, r) \/ InOrder(r, p)
  BY DEF Ordered
<1> QED BY <1>1, <1>2, <1>3

\* A sequence of as many rows as there are, each after the ones before it.
LEMMA PlacesInSequence ==
  ASSUME NEW S, IsFiniteSet(S), Ordered(S), NEW f \in [1 .. Cardinality(S) -> S],
         \A i, j \in 1 .. Cardinality(S) : i < j => InOrder(f[i], f[j])
  PROVE  \A i \in 1 .. Cardinality(S) : Place(S, f[i]) = i - 1
<1> DEFINE n == Cardinality(S)
           T == 1 .. n
<1>1. n \in Nat /\ IsFiniteSet(T) /\ Cardinality(T) = n
  <2>1. n \in Nat
    BY FS_CardinalityType
  <2>2. IsFiniteSet(T) /\ Cardinality(T) = IF 1 > n THEN 0 ELSE n - 1 + 1
    BY <2>1, FS_Interval
  <2> QED BY <2>1, <2>2
<1>2. \A i, j \in T : InOrder(f[i], f[j]) => i < j
  <2> SUFFICES ASSUME NEW i \in T, NEW j \in T, InOrder(f[i], f[j]), j <= i
               PROVE  FALSE
    BY <1>1
  <2>1. f[i] \in S /\ f[j] \in S
    OBVIOUS
  <2>2. InOrder(f[j], f[i]) \/ f[i] = f[j]
    BY <1>1
  <2> QED BY <2>1, <2>2 DEF Ordered
<1>3. \A i, j \in T : f[i] = f[j] => i = j
  <2> SUFFICES ASSUME NEW i \in T, NEW j \in T, f[i] = f[j], i < j
               PROVE  FALSE
    BY <1>1
  <2>1. InOrder(f[i], f[j]) /\ f[i] \in S
    OBVIOUS
  <2> QED BY <2>1 DEF Ordered
<1> HIDE DEF n
<1>4. f \in Injection(T, S)
  BY <1>3 DEF Injection, IsInjective, n
<1>5. f \in Surjection(T, S)
  <2> HIDE DEF T
  <2> QED BY <1>1, <1>4, FS_Injection DEF n
<1>6. \A p \in S : \E i \in T : f[i] = p
  BY <1>5 DEF Surjection
<1>7. ASSUME NEW i \in T
      PROVE  Place(S, f[i]) = i - 1
  <2> DEFINE before == {r \in S : InOrder(r, f[i])}
             U == 1 .. (i - 1)
             g == [j \in U |-> f[j]]
  <2>1. U \subseteq T /\ IsFiniteSet(U) /\ Cardinality(U) = i - 1
    <3>1. i - 1 \in Nat
      BY <1>1
    <3>2. IsFiniteSet(U) /\ Cardinality(U) = IF 1 > i - 1 THEN 0 ELSE (i - 1) - 1 + 1
      BY <3>1, FS_Interval
    <3> QED BY <1>1, <3>1, <3>2
  <2>2. g \in [U -> before]
    <3>1. \A j \in U : j \in T /\ j < i
      BY <1>1, <2>1
    <3> QED BY <3>1 DEF n
  <2>3. g \in Bijection(U, before)
    <3>1. \A j, k \in U : g[j] = g[k] => j = k
      BY <1>3, <2>1
    <3>2. \A r \in before : \E j \in U : g[j] = r
      <4> SUFFICES ASSUME NEW r \in before
                   PROVE  \E j \in U : g[j] = r
        OBVIOUS
      <4>1. PICK j \in T : f[j] = r
        BY <1>6
      <4>2. j < i
        BY <1>2, <4>1
      <4>3. j \in U
        BY <1>1, <4>2
      <4> QED BY <4>1, <4>3
    <3> HIDE DEF g, U, before
    <3> QED BY <2>2, <3>1, <3>2 DEF Bijection, Injection, Surjection, IsInjective
  <2>4. Cardinality(U) = Cardinality(before)
    <3> HIDE DEF g, U, before
    <3>1. ExistsBijection(U, before)
      BY <2>3 DEF ExistsBijection
    <3> QED BY <2>1, <3>1, FS_Bijection
  <2> QED BY <2>1, <2>4 DEF Place
<1> QED BY <1>7 DEF n

\* Whatever order the database returns rows in, they stand at their places.
LEMMA SortedPlaces ==
  ASSUME NEW K, IsFiniteSet(K), K \subseteq Int, Ordered(K),
         query.orderBy # <<>> => SortableRows(K),
         NEW s \in Sorted(K)
  PROVE  /\ s \in Seq(K) /\ Len(s) = Cardinality(K) /\ Cardinality(K) \in Nat
         /\ \A i \in 1 .. Cardinality(K) : s[i] \in K /\ Place(K, s[i]) = i - 1
<1> DEFINE n == Cardinality(K)
<1>1. n \in Nat
  BY FS_CardinalityType
<1>2. CASE query.orderBy = <<>>
  <2>1. s = Ascending(K)
    BY <1>2 DEF Sorted
  <2>2. \A p \in K : Place(K, p) = Below(K, p)
    BY <1>2 DEF Place, Below, InOrder
  <2> QED BY <1>1, <2>1, <2>2, AscendingFacts
<1>3. CASE query.orderBy # <<>>
  <2> DEFINE rank(p) == Cardinality({r \in K : Precedes(r, p)})
             ranked == {<<rank(p), p>> : p \in K}
  <2>1. PICK t \in [1 .. n -> ranked] :
          /\ \A i, j \in DOMAIN t : i < j => t[i] # t[j] /\ t[i][1] <= t[j][1]
          /\ s = [i \in DOMAIN t |-> t[i][2]]
    BY <1>3 DEF Sorted
  <2>2. \A p, r \in K : Precedes(r, p) <=> InOrder(r, p)
    BY <1>3, PrecedesAgrees DEF InOrder, RowBefore
  <2>3. \A p \in K : rank(p) = Place(K, p)
    <3> SUFFICES ASSUME NEW p \in K
                 PROVE  rank(p) = Place(K, p)
      OBVIOUS
    <3>1. {r \in K : Precedes(r, p)} = {r \in K : InOrder(r, p)}
      BY <2>2
    <3> QED BY <3>1 DEF Place
  <2> HIDE DEF rank
  <2>4. \A i \in 1 .. n : t[i] = <<Place(K, t[i][2]), t[i][2]>> /\ t[i][2] \in K
    <3> SUFFICES ASSUME NEW i \in 1 .. n
                 PROVE  t[i] = <<Place(K, t[i][2]), t[i][2]>> /\ t[i][2] \in K
      OBVIOUS
    <3>1. t[i] \in ranked
      BY <2>1
    <3>2. PICK p \in K : t[i] = <<rank(p), p>>
      BY <3>1
    <3> QED BY <2>3, <3>2
  <2> HIDE DEF ranked
  <2>5. DOMAIN t = 1 .. n
    BY <2>1
  <2>6. s \in [1 .. n -> K] /\ \A i \in 1 .. n : s[i] = t[i][2]
    BY <2>1, <2>4, <2>5
  <2>7. ASSUME NEW i \in 1 .. n, NEW j \in 1 .. n, i < j
        PROVE  InOrder(s[i], s[j])
    <3>1. s[i] \in K /\ s[j] \in K /\ t[i] = <<Place(K, s[i]), s[i]>> /\ t[j] = <<Place(K, s[j]), s[j]>>
      BY <2>4, <2>6
    <3>2. t[i] # t[j] /\ t[i][1] <= t[j][1]
      BY <2>1, <2>5, <2>7
    <3>3. t[i][1] = Place(K, s[i]) /\ t[j][1] = Place(K, s[j])
      BY <3>1
    <3>4. Place(K, s[i]) # Place(K, s[j])
      BY <3>1, <3>2, PlacesApart
    <3>5. Place(K, s[i]) \in Int /\ Place(K, s[j]) \in Int
      BY <3>1, PlaceBefore
    <3>6. Place(K, s[i]) < Place(K, s[j])
      BY <3>2, <3>3, <3>4, <3>5
    <3> QED BY <3>1, <3>6, PlacesApart
  <2>8. \A i \in 1 .. n : Place(K, s[i]) = i - 1
    BY <2>6, <2>7, PlacesInSequence
  <2>9. s \in Seq(K) /\ Len(s) = n
    BY <1>1, <2>6
  <2> QED BY <1>1, <2>6, <2>8, <2>9
<1> QED BY <1>2, <1>3

-----------------------------------------------------------------------------
(***************************************************************************)
(* Queries: from the request to what the statement selects.                *)
(***************************************************************************)

\* No refusal is mistaken for a query, and none has the name of a step.
LEMMA FilterRefused ==
  ASSUME NEW f, IsRefused(protoFieldFilter(f))
  PROVE  protoFieldFilter(f).refused \in {"InvalidArgument", "Unimplemented"}
<1> DEFINE x == protoFieldFilter(f)
<1>1. \/ \E field, op, value : x = [field |-> field, op |-> op, value |-> value]
      \/ x = Refused("InvalidArgument") \/ x = Refused("Unimplemented")
  BY DEF protoFieldFilter
<1>2. \A field, op, value : ~IsRefused([field |-> field, op |-> op, value |-> value])
  BY DEF IsRefused
<1> QED BY <1>1, <1>2 DEF Refused

LEMMA CompositeRefused ==
  ASSUME NEW where, IsList(where),
         where # <<>> /\ where[1].type = "composite" => IsList(where[1].filters),
         IsRefused(protoCompositeFilter(where))
  PROVE  protoCompositeFilter(where).refused \in {"InvalidArgument", "Unimplemented"}
<1> DEFINE subs == IF where = <<>> THEN <<>>
                   ELSE IF where[1].type = "composite" THEN where[1].filters ELSE where
           decoded == [i \in DOMAIN subs |-> protoFieldFilter(subs[i])]
           bad == {i \in DOMAIN decoded : IsRefused(decoded[i])}
           first == CHOOSE i \in bad : \A j \in bad : i <= j
           x == protoCompositeFilter(where)
<1>1. x = IF where # <<>> /\ where[1].type = "composite" /\ where[1].op # "AND"
            THEN Refused("Unimplemented")
          ELSE IF bad # {} THEN decoded[first] ELSE [filters |-> decoded]
  BY DEF protoCompositeFilter
<1>2. DOMAIN subs \subseteq Nat
  BY DEF IsList
<1>3. bad # {} => first \in bad
  <2>1. bad \in SUBSET Nat
    BY <1>2
  <2> HIDE DEF bad
  <2> QED BY <2>1, FirstOf
<1>4. first \in bad => decoded[first].refused \in {"InvalidArgument", "Unimplemented"}
  <2>1. \A i \in bad : decoded[i].refused \in {"InvalidArgument", "Unimplemented"}
    BY FilterRefused
  <2> HIDE DEF bad, decoded
  <2> QED BY <2>1
<1>5. ~IsRefused([filters |-> decoded])
  BY DEF IsRefused
<1> HIDE DEF bad, first, decoded
<1> QED BY <1>1, <1>3, <1>4, <1>5 DEF Refused

\* A refusal, or a query.
QueryOf(sq, filter) ==
  [filters  |-> filter.filters,
   orderBy  |-> protoOrderBys(sq.orderBy),
   limit    |-> IF sq.limit > 0 THEN sq.limit ELSE 0,
   pageSize |-> IF sq.limit > 0 THEN sq.limit ELSE IF PageSize > 0 THEN PageSize ELSE 300,
   start    |-> [i \in DOMAIN sq.startAt |-> protoCursor(sq.startAt[i], FALSE)],
   end      |-> [i \in DOMAIN sq.endAt |-> protoCursor(sq.endAt[i], TRUE)]]

LEMMA QueryShape ==
  ASSUME NEW sq
  PROVE  LET filter == protoCompositeFilter(sq.where)
             q == QueryFromStructuredQuery(sq, PageSize)
         IN \/ q = Refused("InvalidArgument") \/ q = Refused("Unimplemented")
            \/ IsRefused(filter) /\ q = filter
            \/ q = QueryOf(sq, filter) /\ ~IsRefused(q)
<1> DEFINE filter == protoCompositeFilter(sq.where)
           q == QueryFromStructuredQuery(sq, PageSize)
<1>1. \/ q = Refused("InvalidArgument") \/ q = Refused("Unimplemented")
      \/ IsRefused(filter) /\ q = filter
      \/ q = QueryOf(sq, filter)
  BY DEF QueryFromStructuredQuery, QueryOf
<1>2. ~IsRefused(QueryOf(sq, filter))
  BY DEF IsRefused, QueryOf
<1> QED BY <1>1, <1>2

LEMMA QueryRefused ==
  ASSUME NEW r \in Inputs, r.type = "query",
         IsRefused(QueryFromStructuredQuery(r.sq, PageSize))
  PROVE  QueryFromStructuredQuery(r.sq, PageSize).refused \in {"InvalidArgument", "Unimplemented"}
<1> DEFINE filter == protoCompositeFilter(r.sq.where)
           q == QueryFromStructuredQuery(r.sq, PageSize)
<1>1. IsRefused(filter) => filter.refused \in {"InvalidArgument", "Unimplemented"}
  BY InputsAssumption, CompositeRefused DEF Readable
<1>2. /\ Refused("InvalidArgument").refused = "InvalidArgument"
      /\ Refused("Unimplemented").refused = "Unimplemented"
  BY DEF Refused
<1> HIDE DEF filter, q
<1>3. \/ q = Refused("InvalidArgument") \/ q = Refused("Unimplemented")
      \/ IsRefused(filter) /\ q = filter
  BY QueryShape DEF q, filter
<1>4. q.refused \in {"InvalidArgument", "Unimplemented"}
  BY <1>1, <1>2, <1>3
<1> QED BY <1>4 DEF q

\* What a query that was taken holds.
DecodedFrom(r) ==
  query = QueryFromStructuredQuery(r.sq, PageSize) /\ ~IsRefused(query)

LEMMA QueryTypes ==
  ASSUME NEW r \in Inputs, r.type = "query", DecodedFrom(r)
  PROVE  /\ query.limit \in Nat /\ query.pageSize \in Nat \ {0}
         /\ query.limit > 0 => query.pageSize = query.limit
         /\ IsList(query.orderBy)
         /\ \A c \in Cursors :
              /\ c.before \in BOOLEAN /\ c.isEnd \in BOOLEAN
              /\ IsList(c.values) /\ \A i \in DOMAIN c.values : IsValue(c.values[i])
         /\ \A i \in DOMAIN query.filters :
              /\ query.filters[i].op \in protoFilterOp /\ IsOperand(query.filters[i])
              /\ \A p \in DOMAIN r.docs : IsValue(lookupNestedField(r.docs[p].fields, query.filters[i].field))
         /\ \A i \in DOMAIN query.orderBy : \A p \in DOMAIN r.docs :
              IsValue(lookupNestedField(r.docs[p].fields, query.orderBy[i].field))
         /\ IsFiniteSet(DOMAIN r.docs) /\ DOMAIN r.docs \subseteq Int
<1> DEFINE sq == r.sq
           filter == protoCompositeFilter(sq.where)
<1>1. Readable(sq, r.docs) /\ IsFiniteSet(DOMAIN r.docs) /\ DOMAIN r.docs \subseteq Int
  BY InputsAssumption
<1>2. /\ sq.limit \in Int
      /\ IsList(query.orderBy)
      /\ \A c \in Cursors :
           /\ c.before \in BOOLEAN /\ c.isEnd \in BOOLEAN
           /\ IsList(c.values) /\ \A i \in DOMAIN c.values : IsValue(c.values[i])
      /\ \A i \in DOMAIN query.filters :
           /\ query.filters[i].op \in protoFilterOp /\ IsOperand(query.filters[i])
           /\ \A p \in DOMAIN r.docs : IsValue(lookupNestedField(r.docs[p].fields, query.filters[i].field))
      /\ \A i \in DOMAIN query.orderBy : \A p \in DOMAIN r.docs :
           IsValue(lookupNestedField(r.docs[p].fields, query.orderBy[i].field))
  BY <1>1 DEF Readable, DecodedFrom, Cursors
<1>3. /\ query.limit = IF sq.limit > 0 THEN sq.limit ELSE 0
      /\ query.pageSize = IF sq.limit > 0 THEN sq.limit ELSE IF PageSize > 0 THEN PageSize ELSE 300
  <2>1. IsRefused(Refused("InvalidArgument")) /\ IsRefused(Refused("Unimplemented"))
    BY DEF IsRefused, Refused
  <2>2. query = QueryOf(sq, filter)
    BY <2>1, QueryShape DEF DecodedFrom
  <2> QED BY <2>2 DEF QueryOf
<1>4. PageSize \in Nat \ {0}
  BY RequestsAssumption
<1>5. /\ query.limit \in Nat /\ query.pageSize \in Nat \ {0}
      /\ query.limit > 0 => query.pageSize = query.limit
  BY <1>2, <1>3, <1>4
<1> QED BY <1>1, <1>2, <1>5

\* A query that was taken, before others have written.
FreshQuery == req \in Inputs /\ req.type = "query" /\ docs = req.docs /\ DecodedFrom(req)

LEMMA RowTypes ==
  ASSUME FreshQuery, NEW p \in DOMAIN docs, NEW i \in DOMAIN query.orderBy
  PROVE  IsValue(Row(p)[i])
BY QueryTypes DEF FreshQuery, Row

LEMMA FiltersKeep ==
  ASSUME FreshQuery, WellKinded, NEW p \in DOMAIN docs, Found(docs, p)
  PROVE  (\A i \in DOMAIN query.filters : Clause(docs[p].fields, query.filters[i]))
           <=> MatchesFilter(docs[p].fields, query.filters)
<1>1. \A i \in DOMAIN query.filters :
        Comparable(lookupNestedField(docs[p].fields, query.filters[i].field), query.filters[i])
  BY DEF WellKinded
<1>2. \A i \in DOMAIN query.filters :
        /\ query.filters[i].op \in protoFilterOp /\ IsOperand(query.filters[i])
        /\ IsValue(lookupNestedField(docs[p].fields, query.filters[i].field))
  BY QueryTypes DEF FreshQuery
<1>3. \A i \in DOMAIN query.filters :
        Clause(docs[p].fields, query.filters[i]) <=> matchFieldFilter(docs[p].fields, query.filters[i])
  BY <1>1, <1>2, FiltersAgree
<1> QED BY <1>3 DEF MatchesFilter

LEMMA CursorsKeep ==
  ASSUME FreshQuery, WellKinded, Exact, NEW p \in DOMAIN docs, Found(docs, p)
  PROVE  Between(p) <=> \A c \in Cursors : InCursor(c, Row(p))
<1> DEFINE all == query.start \o query.end
           n == Len(query.orderBy)
<1>1. /\ n \in Nat /\ DOMAIN query.orderBy = 1 .. n /\ (n = 0 <=> query.orderBy = <<>>)
      /\ IsList(query.orderBy)
  BY QueryTypes DEF FreshQuery, IsList
<1>2. Cursors = {all[k] : k \in DOMAIN all}
  BY DEF Cursors, Range
<1>3. CASE query.orderBy = <<>>
  <2>1. ASSUME NEW c \in Cursors
        PROVE  CursorSize(c) = 0
    <3>1. Len(c.values) \in Nat
      BY <2>1, QueryTypes DEF FreshQuery, IsList
    <3> QED BY <1>1, <1>3, <3>1 DEF CursorSize
  <2> QED BY <1>3, <2>1 DEF Between, InCursor
<1>4. CASE query.orderBy # <<>>
  <2>1. ASSUME NEW c \in Cursors
        PROVE  /\ sqliteCursorClause(c, query.orderBy, Row(p)) <=> InCursor(c, Row(p))
               /\ pgCursorClause(c, query.orderBy, Row(p)) <=> InCursor(c, Row(p))
    <3>1. /\ c.before \in BOOLEAN /\ c.isEnd \in BOOLEAN
          /\ IsList(c.values) /\ \A i \in DOMAIN c.values : IsValue(c.values[i])
      BY <2>1, QueryTypes DEF FreshQuery
    <3>2. CursorSize(c) <= 1 \/ c.before = c.isEnd
      BY <2>1 DEF Exact
    <3>3. \A i \in 1 .. CursorSize(c) : i \in DOMAIN query.orderBy /\ i \in DOMAIN c.values
      <4>1. Len(c.values) \in Nat /\ DOMAIN c.values = 1 .. Len(c.values)
        BY <3>1 DEF IsList
      <4> QED BY <1>1, <4>1 DEF CursorSize
    <3>4. \A i \in 1 .. CursorSize(c) :
            Row(p)[i].kind = c.values[i].kind /\ Sortable(Row(p)[i], c.values[i])
      BY <2>1 DEF WellKinded
    <3>5. \A i \in 1 .. CursorSize(c) : IsValue(Row(p)[i]) /\ IsValue(c.values[i])
      BY <3>1, <3>3, RowTypes
    <3> QED BY <1>1, <3>1, <3>2, <3>4, <3>5, CursorsAgree
  <2>2. \A k \in DOMAIN all :
          (IF req.adapter = "sqlite" THEN sqliteCursorClause(all[k], query.orderBy, Row(p))
           ELSE pgCursorClause(all[k], query.orderBy, Row(p))) <=> InCursor(all[k], Row(p))
    BY <1>2, <2>1
  <2>3. Between(p) <=> \A k \in DOMAIN all : InCursor(all[k], Row(p))
    BY <1>4, <2>2 DEF Between
  <2> QED BY <1>2, <2>3
<1> QED BY <1>3, <1>4

\* The statement selects what the query asks for, and the order tells it apart.
LEMMA SelectedIsReference ==
  ASSUME FreshQuery, WellKinded, Exact
  PROVE  /\ Selected = Reference /\ IsFiniteSet(Reference) /\ Reference \subseteq Int
         /\ Ordered(Reference) /\ (query.orderBy # <<>> => SortableRows(Reference))
<1>1. Selected = Reference
  BY FiltersKeep, CursorsKeep DEF Selected, Reference
<1>2. /\ Reference \subseteq DOMAIN docs /\ IsFiniteSet(DOMAIN docs) /\ DOMAIN docs \subseteq Int
      /\ IsList(query.orderBy)
  BY QueryTypes DEF Reference, FreshQuery
<1>3. IsFiniteSet(Reference) /\ Reference \subseteq Int
  BY <1>2, FS_Subset
<1>4. /\ \A p, r \in Reference : \A i \in DOMAIN query.orderBy : Sortable(Row(p)[i], Row(r)[i])
      /\ \A p, r \in Reference : p = r \/ InOrder(p, r) \/ InOrder(r, p)
  BY DEF WellKinded
<1>5. SortableRows(Reference)
  BY <1>2, <1>4, RowTypes DEF SortableRows
<1>6. Ordered(Reference)
  <2> SUFFICES ASSUME NEW p \in Reference, NEW q \in Reference, NEW r \in Reference
               PROVE  /\ ~InOrder(p, p)
                      /\ InOrder(p, q) /\ InOrder(q, r) => InOrder(p, r)
    BY <1>4 DEF Ordered
  <2>1. CASE query.orderBy = <<>>
    <3>1. p \in Int /\ q \in Int /\ r \in Int
      BY <1>3
    <3> QED BY <2>1, <3>1 DEF InOrder
  <2>2. CASE query.orderBy # <<>>
    BY <1>5, <2>2, RowOrder DEF InOrder, RowBefore
  <2> QED BY <2>1, <2>2
<1> QED BY <1>1, <1>3, <1>5, <1>6

-----------------------------------------------------------------------------
(***************************************************************************)
(* Queries: the pages of RunQuery.                                         *)
(***************************************************************************)

\* While nobody writes, the order and what is asked for stay.
LEMMA SameOrder ==
  ASSUME req' = req, query' = query, docs' = docs
  PROVE  /\ \A p, r : InOrder(p, r)' = InOrder(p, r)
         /\ \A p : Row(p)' = Row(p)
         /\ \A S, p : Place(S, p)' = Place(S, p)
<1>1. \A row, other, n : RowCmp(row, other, n)' = RowCmp(row, other, n)
  BY DEF RowCmp
<1>2. \A p : Row(p)' = Row(p)
  BY DEF Row
<1>3. \A p, r : InOrder(p, r)' = InOrder(p, r)
  BY <1>1, <1>2 DEF InOrder
<1>4. \A S, p : Place(S, p)' = Place(S, p)
  BY <1>3 DEF Place
<1> QED BY <1>2, <1>3, <1>4

LEMMA SameReference ==
  ASSUME req' = req, query' = query, docs' = docs
  PROVE  Reference' = Reference /\ WellKinded' = WellKinded /\ Exact' = Exact
<1>1. Cursors' = Cursors /\ \A c : CursorSize(c)' = CursorSize(c)
  BY DEF Cursors, CursorSize
<1>2. \A row, other, n : RowCmp(row, other, n)' = RowCmp(row, other, n)
  BY DEF RowCmp
<1>3. \A c, row : InCursor(c, row)' = InCursor(c, row)
  BY <1>1, <1>2 DEF InCursor
<1>4. Reference' = Reference
  BY <1>1, <1>3, SameOrder DEF Reference
<1>5. \A d, f : Comparable(d, f)' = Comparable(d, f)
  BY DEF Comparable
<1>6. Exact' = Exact
  BY <1>1 DEF Exact
<1>7. WellKinded' = WellKinded
  BY <1>1, <1>4, <1>5, SameOrder DEF WellKinded
<1> QED BY <1>4, <1>6, <1>7

\* What was sent are the first rows, as far as the token says or to the end.
QuerySent ==
  /\ out \in Seq(Reference)
  /\ \A i \in 1 .. Len(out) : Place(Reference, out[i]) = i - 1
  /\ pc = "page" => /\ Len(out) = token /\ token <= Cardinality(Reference)
                    /\ token = 0 \/ (~HasCursor /\ query.limit = 0)
  /\ pc = "done" => /\ \/ Len(out) = Cardinality(Reference)
                       \/ query.limit > 0 /\ Len(out) = query.limit
                    /\ query.limit > 0 => Len(out) <= query.limit

\* A cursor ignores the token: a reader of more than one page never gets past it.
Looping ==
  pc = "page" /\ HasCursor /\ query.limit = 0 /\ query.pageSize < Cardinality(Reference)

QueryInv ==
  req.type = "query" =>
    /\ req \in Inputs /\ writes \in Nat /\ token \in Nat
    /\ writes = 0 => docs = req.docs
    /\ pc = "new" => token = 0 /\ out = <<>>
    /\ pc \in {"page", "done"} => DecodedFrom(req)
    /\ pc \in {"page", "done"} /\ writes = 0 /\ WellKinded /\ Exact => QuerySent \/ Looping

LEMMA QueryPage ==
  ASSUME FreshQuery, WellKinded, Exact, token \in Nat, QuerySent \/ Looping, QueryDocuments,
         pc' \in {"page", "done"}
  PROVE  QuerySent' \/ Looping'
<1> DEFINE K == Reference
           n == Cardinality(K)
           size == query.pageSize
           offset == IF HasCursor THEN 0 ELSE token
<1>1. /\ Selected = K /\ IsFiniteSet(K) /\ K \subseteq Int
      /\ Ordered(K) /\ (query.orderBy # <<>> => SortableRows(K))
  BY SelectedIsReference
<1>2. query.limit \in Nat /\ size \in Nat \ {0} /\ (query.limit > 0 => size = query.limit)
  BY QueryTypes DEF FreshQuery
<1>3. req' = req /\ query' = query /\ docs' = docs /\ pc = "page"
  BY DEF QueryDocuments
<1>4. K' = K /\ HasCursor' = HasCursor /\ \A S, p : Place(S, p)' = Place(S, p)
  BY <1>3, SameReference, SameOrder DEF HasCursor
<1>5. PICK s \in Sorted(Selected) :
        LET rows == Slice(s, offset, size + 1)
        IN /\ out' = out \o Slice(rows, 0, size)
           /\ token' = NextToken(offset, size, rows)
           /\ pc' = IF token' = 0 \/ query.limit > 0 THEN "done" ELSE "page"
  <2>1. Bindable
    BY DEF QueryDocuments
  <2> QED BY <2>1 DEF QueryDocuments, DecodePageToken
<1>6. /\ s \in Seq(K) /\ Len(s) = n /\ n \in Nat
      /\ \A i \in 1 .. n : Place(K, s[i]) = i - 1
  BY <1>1, <1>5, SortedPlaces
<1> HIDE DEF K
<1>7. PICK page \in Seq(K) :
        /\ out' = out \o page
        /\ token' = (IF offset + size < n THEN offset + size ELSE 0)
        /\ \A i \in 1 .. Len(page) : /\ offset + i \in 1 .. n /\ page[i] = s[offset + i]
                                     /\ i <= size
        /\ \A j \in 1 .. n : offset < j /\ j <= offset + size => j - offset \in 1 .. Len(page)
  <2>1. offset \in Nat
    OBVIOUS
  <2> DEFINE rows == Slice(s, offset, size + 1)
             page == Slice(rows, 0, size)
  <2>2. out' = out \o page /\ token' = NextToken(offset, size, rows)
    BY <1>5
  <2> HIDE DEF offset, size, n
  <2>3. /\ page \in Seq(K)
        /\ NextToken(offset, size, rows) = (IF offset + size < Len(s) THEN offset + size ELSE 0)
        /\ \A i \in 1 .. Len(page) : /\ offset + i \in 1 .. Len(s) /\ page[i] = s[offset + i]
                                     /\ i <= size
        /\ \A j \in 1 .. Len(s) : offset < j /\ j <= offset + size => j - offset \in 1 .. Len(page)
    <3>1. s \in Seq(K) /\ size \in Nat \ {0} /\ offset \in Nat
      BY <1>2, <1>6, <2>1
    <3> QED BY <3>1, PageFacts
  <2> HIDE DEF rows, page
  <2> QED BY <1>6, <2>2, <2>3
<1>8. CASE Looping
  <2>1. HasCursor /\ query.limit = 0 /\ size < n
    BY <1>8 DEF Looping, K
  <2>2. token' = size /\ token' # 0
    BY <1>2, <1>7, <2>1
  <2>3. pc' = "page"
    BY <1>5, <2>1, <2>2
  <2> QED BY <1>3, <1>4, <2>1, <2>3 DEF Looping, K
<1>9. CASE QuerySent
  <2>1. /\ out \in Seq(K) /\ Len(out) = token /\ token <= n
        /\ \A i \in 1 .. token : Place(K, out[i]) = i - 1
        /\ token = 0 \/ (~HasCursor /\ query.limit = 0)
        /\ offset = token
    <3>1. /\ out \in Seq(K) /\ Len(out) = token /\ token <= n
          /\ \A i \in 1 .. Len(out) : Place(K, out[i]) = i - 1
          /\ token = 0 \/ (~HasCursor /\ query.limit = 0)
      BY <1>3, <1>9 DEF QuerySent, K
    <3> QED BY <3>1
  <2> DEFINE m == Len(page)
  <2>2. m \in Nat
    OBVIOUS
  <2> HIDE DEF offset, n, size, m
  <2>3. out' \in Seq(K) /\ Len(out') = token + m
    <3>1. page \in Seq(K) /\ out' = out \o page
      BY <1>7
    <3>2. out \o page \in Seq(K) /\ Len(out \o page) = Len(out) + Len(page)
      <4>1. out \in Seq(K) /\ page \in Seq(K)
        BY <2>1, <3>1
      <4> QED BY <4>1, ConcatProperties
    <3> QED BY <2>1, <3>1, <3>2 DEF m
  <2>4. ASSUME NEW i \in 1 .. (token + m)
        PROVE  Place(K, out'[i]) = i - 1
    <3>1. CASE i <= token
      <4>1. out'[i] = out[i] /\ i \in 1 .. token
        BY <1>7, <2>1, <2>2, <3>1 DEF m
      <4> QED BY <2>1, <4>1
    <3>2. CASE i > token
      <4>1. i - token \in 1 .. m /\ out'[i] = page[i - token]
        BY <1>7, <2>1, <2>2, <3>2 DEF m
      <4>2. page[i - token] = s[i] /\ i \in 1 .. n
        BY <1>7, <2>1, <4>1 DEF m
      <4> QED BY <1>6, <4>1, <4>2
    <3> QED BY <2>2, <3>1, <3>2
  <2>5. CASE ~(token + size < n)
    <3>1. token' = 0 /\ pc' = "done"
      BY <1>5, <1>7, <2>1, <2>5
    <3>2. token + m = n
      <4>1. n > token => n - token \in 1 .. m
        BY <1>2, <1>6, <1>7, <2>1, <2>5 DEF m
      <4>2. m > 0 => token + m \in 1 .. n
        BY <1>7, <2>1, <2>2 DEF m
      <4> QED BY <1>6, <2>1, <2>2, <4>1, <4>2
    <3>3. query.limit > 0 => token + m <= query.limit
      <4>1. m <= size
        BY <1>2, <1>7, <2>2 DEF m
      <4> QED BY <1>2, <2>1, <2>2, <4>1
    <3> QED BY <1>3, <1>4, <2>3, <2>4, <3>1, <3>2, <3>3 DEF QuerySent, K, n
  <2>6. CASE token + size < n
    <3>1. token' = token + size /\ token' # 0
      BY <1>2, <1>7, <2>1, <2>6
    <3>2. m = size
      <4>1. (token + size) - token \in 1 .. m
        <5>1. /\ token + size \in 1 .. n /\ offset < token + size
              /\ token + size <= offset + size
          BY <1>2, <1>6, <2>1, <2>6
        <5>2. (token + size) - offset \in 1 .. m
          BY <1>7, <5>1 DEF m
        <5> QED BY <2>1, <5>2
      <4>2. m <= size
        BY <1>7, <2>2, <4>1 DEF m
      <4> QED BY <1>2, <2>2, <4>1, <4>2
    <3>3. CASE query.limit > 0
      <4>1. pc' = "done" /\ token + m = query.limit
        BY <1>2, <1>5, <2>1, <3>2, <3>3
      <4> QED BY <1>3, <1>4, <2>3, <2>4, <3>3, <4>1 DEF QuerySent, K
    <3>4. CASE query.limit = 0
      <4>1. pc' = "page"
        BY <1>5, <3>1, <3>4
      <4>2. CASE HasCursor
        <5>1. size < n
          BY <2>1, <2>6, <4>2, <1>2
        <5> QED BY <1>3, <1>4, <3>4, <4>1, <4>2, <5>1 DEF Looping, K, n, size
      <4>3. CASE ~HasCursor
        <5>1. token' = token + m /\ token' <= n
          BY <1>2, <1>6, <2>6, <3>1, <3>2
        <5> QED BY <1>3, <1>4, <2>3, <2>4, <3>4, <4>1, <4>3, <5>1 DEF QuerySent, K, n
      <4> QED BY <4>2, <4>3
    <3> QED BY <1>2, <3>3, <3>4
  <2> QED BY <2>5, <2>6
<1> QED BY <1>8, <1>9

LEMMA InitQuery == RequestsInit => QueryInv
<1> SUFFICES ASSUME RequestsInit, req.type = "query"
             PROVE  QueryInv
  BY DEF QueryInv
<1> QED BY DEF RequestsInit, QueryInv

LEMMA DecodeKeeps ==
  ASSUME req.type = "query", QueryInv, Decode
  PROVE  QueryInv'
<1> DEFINE q == QueryFromStructuredQuery(req.sq, PageSize)
<1>1. /\ req' = req /\ docs' = docs /\ writes' = writes /\ token' = 0 /\ out' = <<>>
      /\ query' = q /\ pc' = IF IsRefused(q) THEN q.refused ELSE "page"
      /\ req \in Inputs /\ writes \in Nat /\ (writes = 0 => docs = req.docs)
  BY DEF QueryInv, Decode
<1>2. CASE IsRefused(q)
  <2>1. pc' \in {"InvalidArgument", "Unimplemented"}
    BY <1>1, <1>2, QueryRefused
  <2> QED BY <1>1, <2>1 DEF QueryInv
<1>3. CASE ~IsRefused(q)
  <2>1. pc' = "page" /\ DecodedFrom(req)'
    BY <1>1, <1>3 DEF DecodedFrom
  <2>2. ASSUME writes = 0
        PROVE  QuerySent'
    <3>1. Reference' \subseteq DOMAIN docs'
      BY DEF Reference
    <3>2. IsFiniteSet(DOMAIN docs')
      BY <1>1, <2>2, InputsAssumption
    <3>3. Cardinality(Reference') \in Nat
      BY <3>1, <3>2, FS_Subset, FS_CardinalityType
    <3> QED BY <1>1, <2>1, <3>3 DEF QuerySent
  <2> QED BY <1>1, <2>1, <2>2 DEF QueryInv
<1> QED BY <1>2, <1>3

LEMMA QueryDocumentsKeeps ==
  ASSUME req.type = "query", QueryInv, QueryDocuments
  PROVE  QueryInv'
<1>1. /\ req' = req /\ docs' = docs /\ writes' = writes /\ query' = query /\ pc = "page"
      /\ req \in Inputs /\ writes \in Nat /\ token \in Nat /\ (writes = 0 => docs = req.docs)
      /\ DecodedFrom(req)
      /\ pc' \in {"page", "done", "Unknown"}
  BY DEF QueryInv, QueryDocuments
<1>2. query.pageSize \in Nat \ {0}
  BY <1>1, QueryTypes
<1>3. token' \in Nat
  BY <1>1, <1>2 DEF QueryDocuments, NextToken, DecodePageToken
<1>4. DecodedFrom(req)'
  BY <1>1 DEF DecodedFrom
<1>5. ASSUME pc' \in {"page", "done"}, writes = 0, WellKinded', Exact'
      PROVE  QuerySent' \/ Looping'
  <2>1. WellKinded /\ Exact
    BY <1>1, <1>5, SameReference
  <2>2. FreshQuery
    BY <1>1, <1>5 DEF FreshQuery
  <2>3. QuerySent \/ Looping
    BY <1>1, <1>5, <2>1 DEF QueryInv
  <2> QED BY <1>1, <1>5, <2>1, <2>2, <2>3, QueryPage
<1> QED BY <1>1, <1>3, <1>4, <1>5 DEF QueryInv

LEMMA OthersKeepQuery ==
  ASSUME req.type = "query", QueryInv, NEW p, OtherCreates(p) \/ OtherDeletes(p)
  PROVE  QueryInv'
<1>1. /\ req' = req /\ query' = query /\ pc' = pc /\ pc = "page" /\ token' = token
      /\ writes' = writes + 1
  BY DEF OtherCreates, OtherDeletes
<1>2. req \in Inputs /\ writes \in Nat /\ token \in Nat /\ DecodedFrom(req)
  BY <1>1 DEF QueryInv
<1>3. writes' \in Nat /\ writes' # 0
  BY <1>1, <1>2
<1>4. DecodedFrom(req)'
  BY <1>1, <1>2 DEF DecodedFrom
<1> QED BY <1>1, <1>2, <1>3, <1>4 DEF QueryInv

LEMMA QueryStays ==
  ASSUME req.type = "query", QueryInv, UNCHANGED vars
  PROVE  QueryInv'
<1>1. /\ req' = req /\ query' = query /\ docs' = docs /\ pc' = pc /\ token' = token
      /\ out' = out /\ writes' = writes
  BY DEF vars
<1>2. Reference' = Reference /\ WellKinded' = WellKinded /\ Exact' = Exact
  BY <1>1, SameReference
<1>3. (QuerySent \/ Looping) => (QuerySent \/ Looping)'
  <2>1. \A S, p : Place(S, p)' = Place(S, p)
    BY <1>1, SameOrder
  <2>2. HasCursor' = HasCursor
    BY <1>1 DEF HasCursor
  <2>3. QuerySent => QuerySent'
    BY <1>1, <1>2, <2>1, <2>2 DEF QuerySent
  <2>4. Looping => Looping'
    BY <1>1, <1>2, <2>2 DEF Looping
  <2> QED BY <2>3, <2>4
<1>4. DecodedFrom(req) => DecodedFrom(req)'
  BY <1>1 DEF DecodedFrom
<1> QED BY <1>1, <1>2, <1>3, <1>4 DEF QueryInv

LEMMA QueryStepKeeps == QueryInv /\ [Next]_vars => QueryInv'
<1> SUFFICES ASSUME QueryInv, [Next]_vars
             PROVE  QueryInv'
  OBVIOUS
<1>1. CASE req.type # "query"
  BY <1>1, RequestStays DEF QueryInv
<1>2. CASE req.type = "query" /\ UNCHANGED vars
  BY <1>2, QueryStays
<1>3. CASE req.type = "query" /\ Next
  <2>1. \/ Decode \/ QueryDocuments
        \/ \E p \in DOMAIN docs : OtherCreates(p) \/ OtherDeletes(p)
    BY <1>3 DEF Next, QueryStep, ListDocuments, ListCollectionIds, ListPage, RunAggregationQuery,
                Commit, CommitInTransaction, BatchWriteRpc, UpdateDocumentRpc, Rest, Sweep
  <2> QED BY <1>3, <2>1, DecodeKeeps, QueryDocumentsKeeps, OthersKeepQuery
<1> QED BY <1>1, <1>2, <1>3

\* What QueryRight asks for follows from the places.
LEMMA QueryRightHolds ==
  ASSUME QueryInv, Exact
  PROVE  QueryRight
<1> SUFFICES ASSUME req.type = "query", pc = "done", writes = 0, WellKinded
             PROVE  /\ \A i, j \in DOMAIN out : i < j => InOrder(out[i], out[j])
                    /\ \A p \in Reference \ Range(out) :
                         /\ query.limit > 0 /\ Len(out) = query.limit
                         /\ \A r \in Range(out) : InOrder(r, p)
                    /\ Exact => Range(out) \subseteq Reference
                    /\ query.limit > 0 => Len(out) <= query.limit
  BY DEF QueryRight
<1> DEFINE K == Reference
           n == Cardinality(K)
           m == Len(out)
<1>1. FreshQuery
  BY DEF QueryInv, FreshQuery
<1>2. IsFiniteSet(K) /\ Ordered(K) /\ n \in Nat
  BY <1>1, SelectedIsReference, FS_CardinalityType
<1>3. QuerySent
  BY DEF QueryInv, Looping
<1>4. /\ out \in Seq(K) /\ m \in Nat /\ DOMAIN out = 1 .. m
      /\ \A i \in 1 .. m : out[i] \in K /\ Place(K, out[i]) = i - 1
      /\ m = n \/ (query.limit > 0 /\ m = query.limit)
      /\ query.limit > 0 => m <= query.limit
  <2>1. /\ out \in Seq(K)
        /\ \A i \in 1 .. m : Place(K, out[i]) = i - 1
        /\ m = n \/ (query.limit > 0 /\ m = query.limit)
        /\ query.limit > 0 => m <= query.limit
    BY <1>3 DEF QuerySent
  <2> HIDE DEF K
  <2> QED BY <2>1
<1>5. query.limit \in Nat
  BY <1>1, QueryTypes DEF FreshQuery
<1> HIDE DEF K, n, m
<1>6. ASSUME NEW i \in DOMAIN out, NEW j \in DOMAIN out, i < j
      PROVE  InOrder(out[i], out[j])
  <2>1. out[i] \in K /\ out[j] \in K /\ Place(K, out[i]) < Place(K, out[j])
    BY <1>4, <1>6
  <2> QED BY <1>2, <2>1, PlacesApart
<1>7. ASSUME NEW p \in K, p \notin Range(out)
      PROVE  /\ query.limit > 0 /\ m = query.limit
             /\ \A r \in Range(out) : InOrder(r, p)
  <2>1. Place(K, p) \in 0 .. (n - 1)
    BY <1>2, PlaceBefore DEF n
  <2>2. Place(K, p) >= m
    <3> SUFFICES ASSUME Place(K, p) < m
                 PROVE  FALSE
      BY <1>2, <1>4, <2>1
    <3>1. Place(K, p) + 1 \in 1 .. m /\ (Place(K, p) + 1) - 1 = Place(K, p)
      BY <1>2, <1>4, <2>1
    <3> DEFINE r == out[Place(K, p) + 1]
    <3>2. r \in K /\ Place(K, r) = Place(K, p) /\ r \in Range(out)
      BY <1>4, <3>1 DEF Range
    <3>3. r = p
      BY <1>2, <3>2, PlacesApart
    <3> QED BY <1>7, <3>2, <3>3
  <2>3. m # n
    BY <1>2, <1>4, <2>1, <2>2
  <2>4. ASSUME NEW r \in Range(out)
        PROVE  InOrder(r, p)
    <3>1. PICK i \in 1 .. m : out[i] = r
      BY <1>4, <2>4 DEF Range
    <3>2. r \in K /\ Place(K, r) = i - 1
      BY <1>4, <3>1
    <3>3. Place(K, r) < Place(K, p)
      BY <1>2, <1>4, <2>1, <2>2, <3>2
    <3> QED BY <1>2, <3>2, <3>3, PlacesApart
  <2> QED BY <1>4, <2>3, <2>4
<1>8. Range(out) \subseteq K
  BY <1>4 DEF Range
<1>9. query.limit > 0 => m <= query.limit
  BY <1>4
<1> QED BY <1>6, <1>7, <1>8, <1>9 DEF K, m

(***************************************************************************)
(* RunQuery: the bounds and filters that sqlite.go and postgres.go write   *)
(* in SQL, the order of their sort keys and the pages cut from it by       *)
(* LIMIT and OFFSET send the rows that the reference order and matching    *)
(* choose, each once, in order, and no more than the limit.  A cursor over *)
(* several fields that is not Exact selects rows beyond the reference, of  *)
(* which WellKinded says nothing, and is left out here.                    *)
(***************************************************************************)
THEOREM QueriesRight == Spec => [](Exact => QueryRight)
<1>1. RequestsInit => QueryInv
  BY InitQuery
<1>2. QueryInv /\ [Next]_vars => QueryInv'
  BY QueryStepKeeps
<1>3. QueryInv => (Exact => QueryRight)
  BY QueryRightHolds
<1> QED BY <1>1, <1>2, <1>3, PTL DEF Spec

-----------------------------------------------------------------------------
(***************************************************************************)
(* Queries by path: pages while others write.                              *)
(***************************************************************************)

\* A query that its statement reads by path, page after page.
ByPath == query.orderBy = <<>> /\ ~HasCursor

ScanSent ==
  /\ out \in Seq(Int)
  /\ deleted = {} =>
       /\ \A p \in DOMAIN docs : Found(req.docs, p) => docs[p] = req.docs[p]
       /\ query.limit = 0 =>
            \A k \in Selected : Found(req.docs, k) =>
              k \in Range(out) \/ (pc = "page" /\ Below(Selected, k) >= token)
  /\ created = {} =>
       /\ \A i, j \in DOMAIN out : out[i] = out[j] => i = j
       /\ pc = "page" =>
            \A i \in DOMAIN out : out[i] \in Selected => Below(Selected, out[i]) < token

ScanInv ==
  req.type = "query" =>
    /\ DOMAIN docs = DOMAIN req.docs
    /\ pc = "new" => docs = req.docs
    /\ pc \in {"page", "done"} /\ ByPath => ScanSent

LEMMA SelectedFinite ==
  ASSUME QueryInv, ScanInv, req.type = "query"
  PROVE  IsFiniteSet(Selected) /\ Selected \subseteq Int /\ \A k : Below(Selected, k) \in Nat
<1>1. IsFiniteSet(DOMAIN docs) /\ DOMAIN docs \subseteq Int
  BY InputsAssumption DEF QueryInv, ScanInv
<1>2. Selected \in SUBSET (DOMAIN docs)
  BY DEF Selected
<1>3. IsFiniteSet(Selected) /\ Selected \subseteq Int
  BY <1>1, <1>2, FS_Subset
<1> QED BY <1>3, BelowGrows

\* A document that did not change is selected as before.
LEMMA SelectedStays ==
  ASSUME req' = req, query' = query, query.orderBy = <<>>, DOMAIN docs' = DOMAIN docs,
         NEW r \in DOMAIN docs, docs'[r] = docs[r]
  PROVE  r \in Selected' <=> r \in Selected
<1>1. r \in Selected <=>
        /\ Found(docs, r)
        /\ \A i \in DOMAIN query.filters :
             IF req.adapter = "sqlite" THEN sqliteFilterClause(docs[r].fields, query.filters[i])
             ELSE pgFilterClause(docs[r].fields, query.filters[i])
  BY DEF Selected, Between, Clause
<1>2. r \in Selected' <=>
        /\ Found(docs', r)
        /\ \A i \in DOMAIN query'.filters :
             IF req'.adapter = "sqlite" THEN sqliteFilterClause(docs'[r].fields, query'.filters[i])
             ELSE pgFilterClause(docs'[r].fields, query'.filters[i])
  BY DEF Selected, Between, Clause
<1>3. Found(docs', r) <=> Found(docs, r)
  BY DEF Found
<1> QED BY <1>1, <1>2, <1>3

LEMMA ScanDecode ==
  ASSUME req.type = "query", QueryInv, ScanInv, Decode
  PROVE  ScanInv'
<1>1. /\ req' = req /\ docs' = docs /\ token = 0 /\ token' = 0 /\ out' = <<>>
      /\ created' = created /\ deleted' = deleted
      /\ docs = req.docs /\ pc' # "new"
  <2>1. pc' # "new"
    BY QueryRefused DEF Decode, QueryInv
  <2> QED BY <2>1 DEF Decode, QueryInv, ScanInv
<1>2. ASSUME pc' \in {"page", "done"}
      PROVE  ScanSent'
  <2>1. pc' = "page"
    BY <1>2, QueryRefused DEF Decode, QueryInv
  <2>2. Selected' \in SUBSET (DOMAIN docs)
    BY <1>1 DEF Selected
  <2>3. IsFiniteSet(DOMAIN docs)
    BY <1>1, InputsAssumption DEF QueryInv
  <2>4. \A k : Below(Selected', k) \in Nat
    <3>1. IsFiniteSet(Selected')
      BY <2>2, <2>3, FS_Subset
    <3> QED BY <3>1, BelowGrows
  <2>5. \A k : Below(Selected', k) >= 0
    BY <2>4
  <2>6. out' \in Seq(Int) /\ DOMAIN out' = {}
    BY <1>1
  <2> QED BY <1>1, <2>1, <2>5, <2>6 DEF ScanSent
<1> QED BY <1>1, <1>2 DEF ScanInv, Decode

LEMMA ScanCreate ==
  ASSUME req.type = "query", QueryInv, ScanInv, NEW p \in DOMAIN docs, OtherCreates(p)
  PROVE  ScanInv'
<1>1. /\ pc = "page" /\ pc' = pc /\ req' = req /\ query' = query /\ token' = token /\ out' = out
      /\ created' # {} /\ deleted' = deleted /\ ~Found(docs, p)
      /\ docs' = Store(docs, p, [fields |-> NoFields, at |-> 1])
  BY DEF OtherCreates
<1>2. DOMAIN docs' = DOMAIN docs /\ \A r \in DOMAIN docs : r # p => docs'[r] = docs[r]
  BY <1>1 DEF Store
<1>3. ASSUME ByPath'
      PROVE  ScanSent'
  <2>1. ByPath /\ ScanSent /\ query.orderBy = <<>>
    BY <1>1, <1>3 DEF ByPath, HasCursor, ScanInv
  <2>2. \A r : r # p => (r \in Selected' <=> r \in Selected)
    <3>1. Selected \subseteq DOMAIN docs /\ Selected' \subseteq DOMAIN docs
      BY <1>2 DEF Selected
    <3> QED BY <1>1, <1>2, <2>1, <3>1, SelectedStays
  <2>3. p \notin Selected
    BY <1>1 DEF Selected
  <2>4. Selected \subseteq Selected'
    BY <2>2, <2>3
  <2>5. IsFiniteSet(Selected')
    <3>1. Selected' \in SUBSET (DOMAIN docs)
      BY <1>2 DEF Selected
    <3>2. IsFiniteSet(DOMAIN docs)
      BY InputsAssumption DEF QueryInv, ScanInv
    <3> QED BY <3>1, <3>2, FS_Subset
  <2>6. ASSUME deleted = {}, NEW r \in DOMAIN docs, Found(req.docs, r)
        PROVE  docs'[r] = req.docs[r] /\ r # p
    <3>1. docs[r] = req.docs[r]
      BY <2>1, <2>6 DEF ScanSent
    <3>2. r # p
      BY <1>1, <2>6, <3>1 DEF Found
    <3> QED BY <1>2, <3>1, <3>2
  <2>7. ASSUME deleted = {}, query.limit = 0, NEW k \in Selected', Found(req.docs, k)
        PROVE  k \in Range(out) \/ Below(Selected', k) >= token
    <3>1. k \in DOMAIN docs
      BY <1>2, <2>7 DEF Selected
    <3>2. k \in Selected
      BY <2>2, <2>6, <2>7, <3>1
    <3>3. k \in Range(out) \/ Below(Selected, k) >= token
      BY <2>1, <2>7, <3>2 DEF ScanSent
    <3>4. /\ Below(Selected, k) \in Nat /\ Below(Selected', k) \in Nat
          /\ Below(Selected, k) <= Below(Selected', k) /\ token \in Nat
      BY <2>4, <2>5, BelowGrows DEF QueryInv
    <3> QED BY <3>3, <3>4
  <2> QED BY <1>1, <1>2, <2>1, <2>6, <2>7 DEF ScanSent
<1> QED BY <1>1, <1>2, <1>3 DEF ScanInv

LEMMA ScanDelete ==
  ASSUME req.type = "query", QueryInv, ScanInv, NEW p \in DOMAIN docs, OtherDeletes(p)
  PROVE  ScanInv'
<1>1. /\ pc = "page" /\ pc' = pc /\ req' = req /\ query' = query /\ token' = token /\ out' = out
      /\ created' = created /\ deleted' # {}
      /\ docs' = Store(docs, p, NoDoc)
  BY DEF OtherDeletes
<1>2. /\ DOMAIN docs' = DOMAIN docs /\ ~Found(docs', p)
      /\ \A r \in DOMAIN docs : r # p => docs'[r] = docs[r]
  BY <1>1 DEF Store, Found, NoDoc
<1>3. ASSUME ByPath'
      PROVE  ScanSent'
  <2>1. ByPath /\ ScanSent /\ query.orderBy = <<>>
    BY <1>1, <1>3 DEF ByPath, HasCursor, ScanInv
  <2>2. \A r : r # p => (r \in Selected' <=> r \in Selected)
    <3>1. Selected \subseteq DOMAIN docs /\ Selected' \subseteq DOMAIN docs
      BY <1>2 DEF Selected
    <3> QED BY <1>1, <1>2, <2>1, <3>1, SelectedStays
  <2>3. p \notin Selected'
    BY <1>2 DEF Selected
  <2>4. Selected' \subseteq Selected
    BY <2>2, <2>3
  <2>5. ASSUME created = {}, NEW i \in DOMAIN out, out[i] \in Selected'
        PROVE  Below(Selected', out[i]) < token
    <3>1. Below(Selected, out[i]) < token
      BY <1>1, <2>1, <2>4, <2>5 DEF ScanSent
    <3>2. IsFiniteSet(Selected)
      BY SelectedFinite
    <3>3. /\ Below(Selected, out[i]) \in Nat /\ Below(Selected', out[i]) \in Nat
          /\ Below(Selected', out[i]) <= Below(Selected, out[i]) /\ token \in Nat
      BY <2>4, <3>2, BelowGrows DEF QueryInv
    <3> QED BY <3>1, <3>3
  <2> QED BY <1>1, <2>1, <2>5 DEF ScanSent
<1> QED BY <1>1, <1>2, <1>3 DEF ScanInv

LEMMA ScanPage ==
  ASSUME req.type = "query", QueryInv, ScanInv, QueryDocuments
  PROVE  ScanInv'
<1> DEFINE K == Selected
           A == Ascending(K)
           size == query.pageSize
           rows == Slice(A, token, size + 1)
           page == Slice(rows, 0, size)
           next == NextToken(token, size, rows)
<1>1. /\ req' = req /\ query' = query /\ docs' = docs /\ pc = "page"
      /\ created' = created /\ deleted' = deleted
      /\ pc' \in {"page", "done", "Unknown"}
      /\ DOMAIN docs = DOMAIN req.docs
      /\ token \in Nat
  BY DEF QueryDocuments, QueryInv, ScanInv
<1>2. ASSUME ByPath', pc' \in {"page", "done"}
      PROVE  ScanSent'
  <2>1. ByPath /\ ScanSent /\ query.orderBy = <<>> /\ ~HasCursor
    BY <1>1, <1>2 DEF ByPath, HasCursor, ScanInv
  <2>2. /\ out' = out \o page /\ token' = next
        /\ pc' = IF token' = 0 \/ query.limit > 0 THEN "done" ELSE "page"
    <3>1. Bindable /\ Sorted(K) = {A}
      BY <1>1, <1>2, <2>1 DEF QueryDocuments, Sorted
    <3> QED BY <2>1, <3>1 DEF QueryDocuments, DecodePageToken
  <2>3. /\ query.limit \in Nat /\ size \in Nat \ {0}
    BY QueryTypes, <1>1 DEF QueryInv
  <2>4. K' = K
    <3>1. K' \subseteq DOMAIN docs /\ K \subseteq DOMAIN docs
      BY <1>1 DEF Selected
    <3>2. \A r \in DOMAIN docs : r \in K' <=> r \in K
      BY <1>1, <2>1, SelectedStays
    <3> QED BY <3>1, <3>2
  <2>5. IsFiniteSet(K) /\ K \subseteq Int /\ \A k : Below(K, k) \in Nat
    BY SelectedFinite
  <2> HIDE DEF K
  <2>6. /\ A \in Seq(K) /\ Len(A) = Cardinality(K) /\ Cardinality(K) \in Nat
        /\ \A i \in 1 .. Cardinality(K) : A[i] \in K /\ Below(K, A[i]) = i - 1
        /\ \A k \in K : Below(K, k) + 1 \in 1 .. Cardinality(K) /\ A[Below(K, k) + 1] = k
    BY <2>5, AscendingFacts
  <2> HIDE DEF A, size
  <2>7. /\ page \in Seq(K) /\ token + size \in Nat \ {0}
        /\ next = (IF token + size < Len(A) THEN token + size ELSE 0)
        /\ \A i \in 1 .. Len(page) : /\ token + i \in 1 .. Len(A) /\ page[i] = A[token + i]
                                     /\ i <= size
        /\ \A j \in 1 .. Len(A) : token < j /\ j <= token + size => j - token \in 1 .. Len(page)
    BY <1>1, <2>3, <2>6, PageFacts
  <2> HIDE DEF page, next
  <2>8. PageOf(K, page, token, size)
    BY <1>1, <2>3, <2>5, <2>6, <2>7, PageIsSlice
  <2>9. page \in Seq(Int) /\ out \in Seq(Int) /\ out' \in Seq(Int)
    <3>1. page \in Seq(Int)
      BY <2>5, <2>7, SeqMonotonic
    <3>2. out \in Seq(Int)
      BY <2>1 DEF ScanSent
    <3> QED BY <2>2, <3>1, <3>2, ConcatProperties
  <2>10. token' = token + size \/ (token' = 0 /\ \A k \in K : Below(K, k) < token + size)
    <3>1. CASE token + size < Len(A)
      BY <2>2, <2>7, <3>1
    <3>2. CASE ~(token + size < Len(A))
      <4>1. ASSUME NEW k \in K
            PROVE  Below(K, k) < token + size
        <5>1. Below(K, k) + 1 \in 1 .. Len(A) /\ Below(K, k) \in Nat
          BY <2>5, <2>6
        <5> QED BY <1>1, <2>3, <2>6, <3>2, <5>1
      <4> QED BY <2>2, <2>7, <3>2, <4>1
    <3> QED BY <3>1, <3>2
  <2>11. ASSUME deleted = {}, query.limit = 0, NEW k \in K, Found(req.docs, k)
         PROVE  k \in Range(out') \/ (pc' = "page" /\ Below(K, k) >= token')
    <3>1. k \in Range(out) \/ Below(K, k) >= token
      BY <1>1, <2>1, <2>11 DEF ScanSent, K
    <3>2. k \in Range(out \o page) \/ Below(K, k) >= token + size
      BY <1>1, <2>3, <2>5, <2>8, <2>9, <3>1, NothingPassed
    <3>3. CASE token' = token + size
      <4>1. pc' = "page"
        BY <2>2, <2>7, <2>11, <3>3
      <4> QED BY <2>2, <3>2, <3>3, <4>1
    <3>4. CASE token' = 0 /\ \A r \in K : Below(K, r) < token + size
      <4>1. Below(K, k) \in Nat /\ Below(K, k) < token + size /\ token + size \in Nat
        BY <2>5, <2>7, <3>4
      <4> QED BY <2>2, <3>2, <4>1
    <3> QED BY <2>10, <3>3, <3>4
  <2>12. ASSUME created = {}
         PROVE  /\ \A i, j \in DOMAIN out' : out'[i] = out'[j] => i = j
                /\ pc' = "page" => \A i \in DOMAIN out' : out'[i] \in K => Below(K, out'[i]) < token'
    <3>1. /\ \A i, j \in DOMAIN out : out[i] = out[j] => i = j
          /\ \A i \in DOMAIN out : out[i] \in K => Below(K, out[i]) < token
      BY <1>1, <2>1, <2>12 DEF ScanSent, K
    <3>2. /\ \A i, j \in DOMAIN out' : out'[i] = out'[j] => i = j
          /\ \A i \in DOMAIN out' : out'[i] \in K => Below(K, out'[i]) < token + size
      <4>1. size \in Nat
        BY <2>3
      <4>2. page \in Seq(K) /\ page \in Seq(Int) /\ out \in Seq(Int)
        BY <2>7, <2>9
      <4> DEFINE all == out \o page
      <4>3. /\ \A i, j \in DOMAIN all : all[i] = all[j] => i = j
            /\ \A i \in DOMAIN all : all[i] \in K => Below(K, all[i]) < token + size
        BY <1>1, <2>5, <2>8, <3>1, <4>1, <4>2, NothingAgain
      <4>4. out' = all
        BY <2>2
      <4> HIDE DEF all
      <4> QED BY <4>3, <4>4
    <3>3. pc' = "page" => token' = token + size
      BY <2>2, <2>10
    <3> QED BY <3>2, <3>3
  <2>13. \A p \in DOMAIN docs : deleted = {} /\ Found(req.docs, p) => docs[p] = req.docs[p]
    BY <2>1 DEF ScanSent
  <2> QED BY <1>1, <2>4, <2>9, <2>11, <2>12, <2>13 DEF ScanSent, K
<1> QED BY <1>1, <1>2 DEF ScanInv

LEMMA ScanStays ==
  ASSUME req.type = "query", QueryInv, ScanInv, UNCHANGED vars
  PROVE  ScanInv'
<1>1. /\ req' = req /\ query' = query /\ docs' = docs /\ pc' = pc /\ token' = token
      /\ out' = out /\ created' = created /\ deleted' = deleted
  BY DEF vars
<1>2. Selected' = Selected /\ ByPath' = ByPath
  BY <1>1 DEF Selected, Between, Clause, Row, ByPath, HasCursor
<1> QED BY <1>1, <1>2 DEF ScanInv, ScanSent

LEMMA ScanStepKeeps == QueryInv /\ ScanInv /\ [Next]_vars => ScanInv'
<1> SUFFICES ASSUME QueryInv, ScanInv, [Next]_vars
             PROVE  ScanInv'
  OBVIOUS
<1>1. CASE req.type # "query"
  BY <1>1, RequestStays DEF ScanInv
<1>2. CASE req.type = "query" /\ UNCHANGED vars
  BY <1>2, ScanStays
<1>3. CASE req.type = "query" /\ Next
  <2>1. \/ Decode \/ QueryDocuments
        \/ \E p \in DOMAIN docs : OtherCreates(p) \/ OtherDeletes(p)
    BY <1>3 DEF Next, QueryStep, ListDocuments, ListCollectionIds, ListPage, RunAggregationQuery,
                Commit, CommitInTransaction, BatchWriteRpc, UpdateDocumentRpc, Rest, Sweep
  <2> QED BY <1>3, <2>1, ScanDecode, ScanPage, ScanCreate, ScanDelete
<1> QED BY <1>1, <1>2, <1>3

LEMMA InitScan == RequestsInit => ScanInv
BY DEF RequestsInit, ScanInv

\* What was there all along, and is asked for, is selected.
LEMMA OldIsSelected ==
  ASSUME QueryInv, ScanInv, req.type = "query", pc = "done", ByPath, WellKinded, deleted = {},
         NEW p \in Reference, Found(req.docs, p)
  PROVE  p \in Selected
<1>1. /\ p \in DOMAIN docs /\ Found(docs, p) /\ MatchesFilter(docs[p].fields, query.filters)
      /\ DOMAIN docs = DOMAIN req.docs /\ docs[p] = req.docs[p] /\ query.orderBy = <<>>
  BY DEF Reference, ScanInv, ScanSent, ByPath
<1>2. ASSUME NEW i \in DOMAIN query.filters
      PROVE  Clause(docs[p].fields, query.filters[i])
  <2>1. /\ query.filters[i].op \in protoFilterOp /\ IsOperand(query.filters[i])
        /\ IsValue(lookupNestedField(docs[p].fields, query.filters[i].field))
    BY <1>1, QueryTypes DEF QueryInv
  <2>2. Comparable(lookupNestedField(docs[p].fields, query.filters[i].field), query.filters[i])
    BY <1>1 DEF WellKinded
  <2>3. matchFieldFilter(docs[p].fields, query.filters[i])
    BY <1>1 DEF MatchesFilter
  <2> QED BY <2>1, <2>2, <2>3, FiltersAgree
<1> QED BY <1>1, <1>2 DEF Selected, Between

(***************************************************************************)
(* The pages of a RunQuery that is read by path, without order or cursor:  *)
(* whatever others write between two pages, a query that has come to its   *)
(* end has passed over no matching document, if nothing was deleted        *)
(* meanwhile, and sent none twice, if nothing was created meanwhile.       *)
(***************************************************************************)
THEOREM ScansComplete ==
  Spec => [](req.type = "query" /\ query.orderBy = <<>> /\ ~HasCursor => PagesComplete)
<1>1. RequestsInit => QueryInv /\ ScanInv
  BY InitQuery, InitScan
<1>2. QueryInv /\ ScanInv /\ [Next]_vars => (QueryInv /\ ScanInv)'
  BY QueryStepKeeps, ScanStepKeeps
<1>3. QueryInv /\ ScanInv =>
        (req.type = "query" /\ query.orderBy = <<>> /\ ~HasCursor => PagesComplete)
  <2> SUFFICES ASSUME QueryInv, ScanInv, req.type = "query", ByPath, pc = "done", WellKinded
               PROVE  /\ deleted = {} /\ query.limit = 0 =>
                           {p \in Reference : Found(req.docs, p)} \subseteq Range(out)
                      /\ created = {} => \A i, j \in DOMAIN out : out[i] = out[j] => i = j
    BY DEF PagesComplete, ByPath
  <2>1. ScanSent
    BY DEF ScanInv
  <2>2. created = {} => \A i, j \in DOMAIN out : out[i] = out[j] => i = j
    BY <2>1 DEF ScanSent
  <2>3. ASSUME deleted = {}, query.limit = 0, NEW p \in Reference, Found(req.docs, p)
        PROVE  p \in Range(out)
    BY <2>1, <2>3, OldIsSelected DEF ScanSent
  <2> QED BY <2>2, <2>3
<1> QED BY <1>1, <1>2, <1>3, PTL DEF Spec

-----------------------------------------------------------------------------
(***************************************************************************)
(* Aggregations: counts.                                                   *)
(***************************************************************************)

\* The page size plays no part in what is refused, or in the filters.
LEMMA BaseShape ==
  ASSUME NEW sq, sq.from \in Nat
  PROVE  LET base == QueryFromStructuredQuery(sq, 0)
             q == QueryFromStructuredQuery(sq, PageSize)
         IN \/ IsRefused(base) /\ q = base
            \/ ~IsRefused(base) /\ ~IsRefused(q) /\ base.filters = q.filters
<1> DEFINE filter == protoCompositeFilter(sq.where)
           base == QueryFromStructuredQuery(sq, 0)
           q == QueryFromStructuredQuery(sq, PageSize)
           Decoded0(n) ==
             [filters  |-> filter.filters,
              orderBy  |-> protoOrderBys(sq.orderBy),
              limit    |-> IF sq.limit > 0 THEN sq.limit ELSE 0,
              pageSize |-> IF sq.limit > 0 THEN sq.limit ELSE IF n > 0 THEN n ELSE 300,
              start    |-> [i \in DOMAIN sq.startAt |-> protoCursor(sq.startAt[i], FALSE)],
              end      |-> [i \in DOMAIN sq.endAt |-> protoCursor(sq.endAt[i], TRUE)]]
<1>1. \A n : ~IsRefused(Decoded0(n)) /\ Decoded0(n).filters = filter.filters
  BY DEF IsRefused
<1>2. IsRefused(Refused("InvalidArgument")) /\ IsRefused(Refused("Unimplemented"))
  BY DEF IsRefused, Refused
<1>3. \/ base = Refused("InvalidArgument") /\ q = base
      \/ base = Refused("Unimplemented") /\ q = base
      \/ IsRefused(filter) /\ base = filter /\ q = filter
      \/ base = Decoded0(0) /\ q = Decoded0(PageSize)
  <2>1. CASE sq.from = 0
    BY <2>1 DEF QueryFromStructuredQuery
  <2>2. CASE sq.from > 1
    <3>1. ~(sq.from = 0) /\ ~(sq.from = 1) /\ (sq.from > 1) = TRUE
      BY <2>2
    <3>2. base = Refused("Unimplemented")
      BY <2>2, <3>1 DEF QueryFromStructuredQuery
    <3>3. q = Refused("Unimplemented")
      BY <2>2, <3>1 DEF QueryFromStructuredQuery
    <3> QED BY <3>2, <3>3
  <2>3. CASE sq.from = 1 /\ IsRefused(filter)
    BY <2>3 DEF QueryFromStructuredQuery
  <2>4. CASE sq.from = 1 /\ ~IsRefused(filter)
    <3>1. base = Decoded0(0)
      BY <2>4 DEF QueryFromStructuredQuery
    <3>2. q = Decoded0(PageSize)
      BY <2>4 DEF QueryFromStructuredQuery
    <3> QED BY <3>1, <3>2
  <2>5. sq.from = 0 \/ sq.from > 1 \/ sq.from = 1
    OBVIOUS
  <2> HIDE DEF base, q, Decoded0, filter
  <2> QED BY <2>1, <2>2, <2>3, <2>4, <2>5
<1> HIDE DEF filter, base, q, Decoded0
<1> QED BY <1>1, <1>2, <1>3 DEF base, q

\* A refusal, or operations as they were asked for on the rows of a query.
LEMMA AggregateShape ==
  ASSUME NEW r \in Inputs, r.type = "aggregate"
  PROVE  LET q == AggregationQueryFromProto(r.saq)
             base == QueryFromStructuredQuery(r.saq.query, PageSize)
         IN \/ IsRefused(q) /\ q.refused \in {"InvalidArgument", "Unimplemented"}
            \/ /\ ~IsRefused(q) /\ ~IsRefused(base) /\ q.base.filters = base.filters
               /\ q.ops = r.saq.ops /\ DOMAIN q.aliases = DOMAIN r.saq.aliases
<1> DEFINE saq == r.saq
           sq == saq.query
           q == AggregationQueryFromProto(saq)
           base == QueryFromStructuredQuery(sq, PageSize)
           base0 == QueryFromStructuredQuery(sq, 0)
           filter == protoCompositeFilter(sq.where)
           good == [base |-> base0, ops |-> saq.ops, aliases |-> Aliases(saq.aliases)]
<1>1. Readable(sq, r.docs)
  BY InputsAssumption
<1>2. IsRefused(filter) => filter.refused \in {"InvalidArgument", "Unimplemented"}
  BY <1>1, CompositeRefused DEF Readable
<1>3. /\ Refused("InvalidArgument").refused = "InvalidArgument"
      /\ Refused("Unimplemented").refused = "Unimplemented"
      /\ IsRefused(Refused("InvalidArgument")) /\ IsRefused(Refused("Unimplemented"))
  BY DEF Refused, IsRefused
<1>4. IsRefused(base) => base.refused \in {"InvalidArgument", "Unimplemented"}
  <2>1. \/ base = Refused("InvalidArgument") \/ base = Refused("Unimplemented")
        \/ IsRefused(filter) /\ base = filter
        \/ ~IsRefused(base)
    BY QueryShape
  <2> QED BY <1>2, <1>3, <2>1
<1>5. \/ IsRefused(base0) /\ base = base0
      \/ ~IsRefused(base0) /\ ~IsRefused(base) /\ base0.filters = base.filters
  BY <1>1, BaseShape DEF Readable
<1>6. \/ IsRefused(base0) /\ q = base0
      \/ q = Refused("InvalidArgument") \/ q = Refused("Unimplemented")
      \/ ~IsRefused(base0) /\ q = good
  BY DEF AggregationQueryFromProto
<1>7. ~IsRefused(good) /\ DOMAIN Aliases(saq.aliases) = DOMAIN saq.aliases
  BY DEF IsRefused, Aliases
<1>8. good.base = base0 /\ good.ops = saq.ops /\ good.aliases = Aliases(saq.aliases)
  OBVIOUS
<1> HIDE DEF base, base0, q, filter, good
<1>9. \/ IsRefused(q) /\ q.refused \in {"InvalidArgument", "Unimplemented"}
      \/ /\ ~IsRefused(q) /\ ~IsRefused(base) /\ q.base.filters = base.filters
         /\ q.ops = saq.ops /\ DOMAIN q.aliases = DOMAIN saq.aliases
  BY <1>3, <1>4, <1>5, <1>6, <1>7, <1>8
<1> QED BY <1>9 DEF q, base

\* The rows that the aggregation's statement reads.
AggregatedRows ==
  LET filters == AggregationQueryFromProto(req.saq).base.filters
  IN {p \in DOMAIN docs :
        Found(docs, p) /\ \A i \in DOMAIN filters : Clause(docs[p].fields, filters[i])}

\* The alias is no other's, and is for a count.
CountsUnder(q, i) ==
  q.ops[i] = "count" /\ \A j \in DOMAIN q.aliases : q.aliases[j] = q.aliases[i] => j = i

CountInv ==
  req.type = "aggregate" =>
    /\ req \in Inputs /\ pc # "page" /\ docs = req.docs
    /\ pc = "done" =>
         LET q == AggregationQueryFromProto(req.saq)
         IN /\ ~IsRefused(q)
            /\ \A i \in DOMAIN q.aliases : CountsUnder(q, i) =>
                 out[q.aliases[i]] = Val("int", Cardinality(AggregatedRows))

LEMMA Counted ==
  ASSUME NEW column, NEW n \in Nat, NEW f, column = [i \in 1 .. n |-> f[i]]
  PROVE  /\ sqliteAggregate("count", column) = Val("int", n)
         /\ pgAggregate("count", column) = Val("int", n)
<1>1. Len(column) = n
  OBVIOUS
<1>2. sqliteAggregate("count", column) = Val("int", Len(column))
  BY DEF sqliteAggregate
<1> QED BY <1>1, <1>2 DEF pgAggregate

LEMMA CountIsRows ==
  ASSUME req.type = "aggregate", CountInv
  PROVE  LET filters == AggregationQueryFromProto(req.saq).base.filters
             column == Column(filters, req.field)
             n == Cardinality(AggregatedRows)
         IN /\ sqliteAggregate("count", column) = Val("int", n)
            /\ pgAggregate("count", column) = Val("int", n)
<1> DEFINE filters == AggregationQueryFromProto(req.saq).base.filters
           column == Column(filters, req.field)
           rows == AggregatedRows
           n == Cardinality(rows)
           f == [i \in 1 .. n |-> lookupNestedField(docs[Ascending(rows)[i]].fields, req.field)]
<1>1. n \in Nat
  <2>1. IsFiniteSet(DOMAIN docs)
    BY InputsAssumption DEF CountInv
  <2>2. rows \in SUBSET (DOMAIN docs)
    BY DEF AggregatedRows
  <2> QED BY <2>1, <2>2, FS_Subset, FS_CardinalityType
<1>2. column = f
  BY DEF Column, AggregatedRows
<1> HIDE DEF n, column, rows
<1>3. column = [i \in 1 .. n |-> f[i]]
  BY <1>2
<1> HIDE DEF f
<1>4. /\ sqliteAggregate("count", column) = Val("int", n)
      /\ pgAggregate("count", column) = Val("int", n)
  BY <1>1, <1>3, Counted
<1> QED BY <1>4 DEF n, column, rows

LEMMA CountAnswers ==
  ASSUME req.type = "aggregate", CountInv, RunAggregationQuery
  PROVE  CountInv'
<1> DEFINE q == AggregationQueryFromProto(req.saq)
<1>1. /\ req' = req /\ docs' = docs /\ req \in Inputs /\ docs = req.docs
      /\ \/ IsRefused(q) /\ pc' = q.refused
         \/ ~IsRefused(q) /\ pc' = "Unknown"
         \/ ~IsRefused(q) /\ pc' = "done" /\ out' = Aggregates(q)
  <2>1. \/ IsRefused(q) /\ Reply(q.refused, <<>>, docs)
        \/ ~IsRefused(q) /\ Reply("Unknown", <<>>, docs)
        \/ ~IsRefused(q) /\ Reply("OK", Aggregates(q), docs)
    BY DEF RunAggregationQuery
  <2>2. IsRefused(q) => q.refused # "OK"
    BY AggregateShape DEF CountInv
  <2> QED BY <2>1, <2>2 DEF Reply, CountInv
<1>2. CASE IsRefused(q) /\ pc' = q.refused
  BY <1>1, <1>2, AggregateShape DEF CountInv
<1>3. CASE ~IsRefused(q) /\ pc' = "Unknown"
  BY <1>1, <1>3 DEF CountInv
<1>4. CASE ~IsRefused(q) /\ pc' = "done" /\ out' = Aggregates(q)
  <2>1. AggregatedRows' = AggregatedRows
    BY <1>1 DEF AggregatedRows, Clause
  <2>2. ASSUME NEW i \in DOMAIN q.aliases, CountsUnder(q, i)
        PROVE  out'[q.aliases[i]] = Val("int", Cardinality(AggregatedRows))
    <3> DEFINE column == Column(q.base.filters, req.field)
               Value(op) == IF req.adapter = "sqlite" THEN sqliteAggregate(op, column)
                            ELSE pgAggregate(op, column)
               Named(a) == {k \in DOMAIN q.aliases : q.aliases[k] = a}
               Latest(a) == CHOOSE k \in Named(a) : \A j \in Named(a) : j <= k
               a == q.aliases[i]
    <3>1. i \in Nat
      <4>1. DOMAIN q.aliases = DOMAIN req.saq.aliases
        BY <1>1, <1>4, AggregateShape
      <4>2. IsList(req.saq.aliases)
        BY <1>1, InputsAssumption
      <4> QED BY <4>1, <4>2 DEF IsList
    <3>2. Named(a) = {i} /\ q.ops[i] = "count"
      BY <2>2 DEF CountsUnder
    <3>3. Latest(a) = i
      <4>1. \A j \in {i} : j <= i
        BY <3>1
      <4> HIDE DEF Named
      <4> QED BY <3>2, <4>1
    <3>4. a \in Range(q.aliases)
      BY DEF Range
    <3>5. Aggregates(q) = [b \in Range(q.aliases) |-> Value(q.ops[Latest(b)])]
      BY DEF Aggregates
    <3>6. Value("count") = Val("int", Cardinality(AggregatedRows))
      BY CountIsRows
    <3> HIDE DEF Latest, Value, a
    <3>7. Aggregates(q)[a] = Value(q.ops[Latest(a)])
      BY <3>4, <3>5
    <3> QED BY <1>4, <3>2, <3>3, <3>6, <3>7 DEF a
  <2> QED BY <1>1, <1>4, <2>1, <2>2 DEF CountInv
<1> QED BY <1>1, <1>2, <1>3, <1>4

LEMMA CountStepKeeps == CountInv /\ [Next]_vars => CountInv'
<1> SUFFICES ASSUME CountInv, [Next]_vars
             PROVE  CountInv'
  OBVIOUS
<1>1. CASE req.type # "aggregate"
  BY <1>1, RequestStays DEF CountInv
<1>2. CASE req.type = "aggregate" /\ UNCHANGED vars
  <2>1. req' = req /\ docs' = docs /\ pc' = pc /\ out' = out
    BY <1>2 DEF vars
  <2>2. AggregatedRows' = AggregatedRows
    BY <2>1 DEF AggregatedRows, Clause
  <2> QED BY <2>1, <2>2 DEF CountInv
<1>3. CASE req.type = "aggregate" /\ Next
  <2>1. pc # "page"
    BY <1>3 DEF CountInv
  <2>2. RunAggregationQuery
    BY <1>3, <2>1 DEF Next, QueryStep, Decode, QueryDocuments, ListDocuments, ListCollectionIds,
         ListPage, OtherCreates, OtherDeletes, Commit, CommitInTransaction, BatchWriteRpc,
         UpdateDocumentRpc, Rest, Sweep
  <2> QED BY <1>3, <2>2, CountAnswers
<1> QED BY <1>1, <1>2, <1>3

\* A request that asks for nothing but counts.
CountsOnly == req.type = "aggregate" /\ \A i \in DOMAIN req.saq.ops : req.saq.ops[i] = "count"

LEMMA CountsHold ==
  ASSUME CountInv, CountsOnly
  PROVE  AggregatesRight
<1> DEFINE q == AggregationQueryFromProto(req.saq)
           base == QueryFromStructuredQuery(req.saq.query, PageSize)
           rows == {p \in DOMAIN docs :
                      Found(docs, p) /\ MatchesFilter(docs[p].fields, q.base.filters)}
<1> SUFFICES
      ASSUME pc = "done",
             \A p \in DOMAIN docs : \A i \in DOMAIN q.base.filters :
               Found(docs, p) => Comparable(lookupNestedField(docs[p].fields, q.base.filters[i].field),
                                            q.base.filters[i]),
             NEW i \in DOMAIN q.aliases,
             \A j \in DOMAIN q.aliases : q.aliases[j] = q.aliases[i] => j = i
      PROVE  q.ops[i] = "count" /\ out[q.aliases[i]] = Val("int", Cardinality(rows))
  BY DEF AggregatesRight
<1>0. req.type = "aggregate" /\ \A k \in DOMAIN req.saq.ops : req.saq.ops[k] = "count"
  BY DEF CountsOnly
<1>1. /\ req \in Inputs /\ docs = req.docs /\ ~IsRefused(q)
      /\ CountsUnder(q, i) => out[q.aliases[i]] = Val("int", Cardinality(AggregatedRows))
  BY <1>0 DEF CountInv
<1>2. /\ ~IsRefused(base) /\ q.base.filters = base.filters
      /\ q.ops = req.saq.ops /\ DOMAIN q.aliases = DOMAIN req.saq.aliases
  BY <1>0, <1>1, AggregateShape
<1>3. DOMAIN req.saq.aliases = DOMAIN req.saq.ops /\ Readable(req.saq.query, docs)
  BY <1>0, <1>1, InputsAssumption
<1>4. q.ops[i] = "count"
  BY <1>0, <1>2, <1>3
<1>5. ASSUME NEW p \in DOMAIN docs, Found(docs, p)
      PROVE  (\A k \in DOMAIN q.base.filters : Clause(docs[p].fields, q.base.filters[k]))
               <=> MatchesFilter(docs[p].fields, q.base.filters)
  <2>1. ASSUME NEW k \in DOMAIN q.base.filters
        PROVE  Clause(docs[p].fields, q.base.filters[k])
                 <=> matchFieldFilter(docs[p].fields, q.base.filters[k])
    <3> DEFINE f == q.base.filters[k]
    <3>1. /\ f.op \in protoFilterOp /\ IsOperand(f)
          /\ IsValue(lookupNestedField(docs[p].fields, f.field))
      BY <1>2, <1>3 DEF Readable
    <3>2. Comparable(lookupNestedField(docs[p].fields, f.field), f)
      BY <1>5
    <3> HIDE DEF f
    <3>3. Clause(docs[p].fields, f) <=> matchFieldFilter(docs[p].fields, f)
      BY <3>1, <3>2, FiltersAgree
    <3> QED BY <3>3 DEF f
  <2> QED BY <2>1 DEF MatchesFilter
<1>6. AggregatedRows = rows
  BY <1>5 DEF AggregatedRows
<1> QED BY <1>1, <1>4, <1>6 DEF CountsUnder

(***************************************************************************)
(* Counts of RunAggregationQuery: the answer under an alias of its own is  *)
(* the number of documents that match the filters in memory, in both       *)
(* databases and for every table and filters whose values compare.         *)
(***************************************************************************)
THEOREM CountsRight == Spec => [](CountsOnly => AggregatesRight)
<1>1. RequestsInit => CountInv
  BY DEF RequestsInit, CountInv
<1>2. CountInv /\ [Next]_vars => CountInv'
  BY CountStepKeeps
<1>3. CountInv => (CountsOnly => AggregatesRight)
  BY CountsHold
<1> QED BY <1>1, <1>2, <1>3, PTL DEF Spec

=============================================================================
