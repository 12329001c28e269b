----------------------------- MODULE ReaderProofs -----------------------------
(***************************************************************************)
(* Theorems of Formats about what the reader of json_spirit builds: the    *)
(* container each pointer names while a text is read.                      *)
(***************************************************************************)
EXTENDS FormatsProperties, SequenceLemmas

-----------------------------------------------------------------------------
\* Containers.

IsContainer(c) ==
    \/ \E V : \E vs \in Seq(V) : c = Arr(vs)
    \/ \E V : \E ms \in Seq(V \X V) : c = Obj(ms)

\* What is between the brackets is a sequence of values.
LEMMA ContainerChildren ==
    ASSUME NEW c, IsContainer(c)
    PROVE  /\ \E V : Children(c) \in Seq(V)
           /\ Len(Children(c)) \in Nat
           /\ DOMAIN Children(c) = 1..Len(Children(c))
           /\ Type(c) \in {"obj", "arr"}
  <1>1. ASSUME NEW V, NEW vs \in Seq(V), c = Arr(vs)
        PROVE  Children(c) \in Seq(V) /\ Type(c) = "arr"
    BY <1>1 DEF Children, Arr, Type, IsUint64
  <1>2. ASSUME NEW V, NEW ms \in Seq(V \X V), c = Obj(ms)
        PROVE  Children(c) \in Seq(V) /\ Type(c) = "obj"
    <2>1. c[1] = "obj" /\ c[2] = ms
      BY <1>2 DEF Obj
    <2>2. Children(c) = [i \in DOMAIN ms |-> ms[i][2]]
      BY <2>1 DEF Children
    <2>3. DOMAIN ms = 1..Len(ms) /\ Len(ms) \in Nat
      OBVIOUS
    <2>4. \A i \in 1..Len(ms) : ms[i][2] \in V
      <3> TAKE i \in 1..Len(ms)
      <3>1. ms[i] \in V \X V
        BY ElementOfSeq
      <3> QED
        BY <3>1
    <2>5. Children(c) \in Seq(V)
      BY <2>2, <2>3, <2>4
    <2> QED
      BY <2>1, <2>5 DEF Type, IsUint64
  <1>3. \E V : Children(c) \in Seq(V)
    BY <1>1, <1>2 DEF IsContainer
  <1>4. Type(c) \in {"obj", "arr"}
    BY <1>1, <1>2 DEF IsContainer
  <1> QED
    BY <1>3, <1>4, LenProperties

\* The empty ones.
LEMMA EmptyContainers ==
    /\ IsContainer(Obj(<<>>)) /\ Type(Obj(<<>>)) = "obj" /\ Children(Obj(<<>>)) = <<>>
    /\ IsContainer(Arr(<<>>)) /\ Type(Arr(<<>>)) = "arr" /\ Children(Arr(<<>>)) = <<>>
  <1>1. <<>> \in Seq({} \X {}) /\ <<>> \in Seq({}) /\ DOMAIN <<>> = {}
    BY EmptySeq
  <1>2. Obj(<<>>)[1] = "obj" /\ Obj(<<>>)[2] = <<>> /\ Arr(<<>>)[1] = "arr" /\ Arr(<<>>)[2] = <<>>
    BY DEF Obj, Arr
  <1>3. Children(Obj(<<>>)) = <<>>
    <2>1. Children(Obj(<<>>)) = [i \in DOMAIN <<>> |-> <<>>[i][2]]
      BY <1>2 DEF Children
    <2> QED
      BY <2>1, <1>1
  <1>4. Children(Arr(<<>>)) = <<>>
    BY <1>2 DEF Children
  <1>5. IsContainer(Obj(<<>>)) /\ IsContainer(Arr(<<>>))
    BY <1>1 DEF IsContainer
  <1> QED
    BY <1>2, <1>3, <1>4, <1>5 DEF Type, IsUint64

More(c, nm, x) == IF Type(c) = "arr" THEN AddElement(c, x) ELSE AddMember(c, nm, x)

\* A value is added behind those that are there.
LEMMA MoreChildren ==
    ASSUME NEW c, IsContainer(c), NEW nm, NEW x
    PROVE  /\ IsContainer(More(c, nm, x))
           /\ Type(More(c, nm, x)) = Type(c)
           /\ Children(More(c, nm, x)) = Append(Children(c), x)
  <1>1. ASSUME NEW V, NEW vs \in Seq(V), c = Arr(vs)
        PROVE  /\ IsContainer(More(c, nm, x))
               /\ Type(More(c, nm, x)) = Type(c)
               /\ Children(More(c, nm, x)) = Append(Children(c), x)
    <2>1. c[1] = "arr" /\ c[2] = vs /\ Type(c) = "arr" /\ Children(c) = vs
      BY <1>1 DEF Arr, Type, IsUint64, Children
    <2>2. More(c, nm, x) = Arr(Append(vs, x))
      BY <2>1 DEF More, AddElement
    <2>3. Append(vs, x) \in Seq(V \cup {x})
      OBVIOUS
    <2>4. Arr(Append(vs, x))[1] = "arr" /\ Arr(Append(vs, x))[2] = Append(vs, x)
      BY DEF Arr
    <2>5. IsContainer(Arr(Append(vs, x)))
      BY <2>3 DEF IsContainer
    <2> QED
      BY <2>1, <2>2, <2>4, <2>5 DEF Type, IsUint64, Children
  <1>2. ASSUME NEW V, NEW ms \in Seq(V \X V), c = Obj(ms)
        PROVE  /\ IsContainer(More(c, nm, x))
               /\ Type(More(c, nm, x)) = Type(c)
               /\ Children(More(c, nm, x)) = Append(Children(c), x)
    <2> DEFINE new == Append(ms, <<nm, x>>)
               U == V \cup {nm, x}
    <2>1. c[1] = "obj" /\ c[2] = ms /\ Type(c) = "obj" /\ Children(c) = [i \in DOMAIN ms |-> ms[i][2]]
      BY <1>2 DEF Obj, Type, IsUint64, Children
    <2>2. More(c, nm, x) = Obj(new)
      BY <2>1 DEF More, AddMember
    <2>3. new \in Seq(U \X U) /\ Len(new) = Len(ms) + 1 /\ Len(ms) \in Nat
      <3>1. ms \in Seq(U \X U) /\ <<nm, x>> \in U \X U
        OBVIOUS
      <3> QED
        BY <3>1, AppendProperties
    <2>4. Obj(new)[1] = "obj" /\ Obj(new)[2] = new
      BY DEF Obj
    <2>5. IsContainer(Obj(new))
      BY <2>3 DEF IsContainer
    <2>6. Children(Obj(new)) = [i \in DOMAIN new |-> new[i][2]]
      BY <2>4 DEF Children
    <2>7. /\ DOMAIN new = 1..(Len(ms) + 1) /\ DOMAIN ms = 1..Len(ms)
          /\ \A i \in 1..Len(ms) : new[i] = ms[i]
          /\ new[Len(ms) + 1] = <<nm, x>>
      BY AppendProperties
    <2> DEFINE cs == [i \in DOMAIN ms |-> ms[i][2]]
    <2>8. cs \in Seq({ms[i][2] : i \in DOMAIN ms}) /\ Len(cs) = Len(ms)
      BY <2>7, <2>3
    <2>9. [i \in DOMAIN new |-> new[i][2]] = Append(cs, x)
      <3> HIDE DEF new, U
      <3>1. \A i \in 1..Len(ms) : new[i][2] = cs[i]
        BY <2>7
      <3>2. new[Len(ms) + 1][2] = x
        BY <2>7
      <3> HIDE DEF cs
      <3>3. /\ DOMAIN Append(cs, x) = 1..(Len(ms) + 1)
            /\ \A i \in 1..Len(ms) : Append(cs, x)[i] = cs[i]
            /\ Append(cs, x)[Len(ms) + 1] = x
        BY <2>8, <2>3
      <3> DEFINE ds == Append(cs, x)
      <3>4. ds = [i \in 1..(Len(ms) + 1) |-> ds[i]]
        <4>1. PICK T : cs \in Seq(T)
          BY <2>8
        <4>2. ds \in Seq(T \cup {x}) /\ Len(ds) = Len(ms) + 1
          BY <4>1, <2>8
        <4> HIDE DEF ds
        <4> QED
          BY <4>2, <2>3
      <3>5. \A i \in 1..(Len(ms) + 1) : new[i][2] = ds[i]
        BY <2>3, <3>1, <3>2, <3>3
      <3> HIDE DEF ds
      <3>6. [i \in DOMAIN new |-> new[i][2]] = ds
        BY <2>7, <3>4, <3>5
      <3> QED
        BY <3>6 DEF ds
    <2> QED
      BY <2>1, <2>2, <2>4, <2>5, <2>6, <2>9 DEF Type, IsUint64
  <1> QED
    BY <1>1, <1>2 DEF IsContainer

\* A value in a container is replaced, and no other.
LEMMA ReplacedChildren ==
    ASSUME NEW c, IsContainer(c), NEW k \in DOMAIN Children(c), NEW x
    PROVE  /\ IsContainer(Replaced(c, k, x))
           /\ Type(Replaced(c, k, x)) = Type(c)
           /\ Children(Replaced(c, k, x)) = [Children(c) EXCEPT ![k] = x]
  <1>1. ASSUME NEW V, NEW vs \in Seq(V), c = Arr(vs)
        PROVE  /\ IsContainer(Replaced(c, k, x))
               /\ Type(Replaced(c, k, x)) = Type(c)
               /\ Children(Replaced(c, k, x)) = [Children(c) EXCEPT ![k] = x]
    <2> DEFINE new == [vs EXCEPT ![k] = x]
    <2>1. c[1] = "arr" /\ c[2] = vs /\ Type(c) = "arr" /\ Children(c) = vs
      BY <1>1 DEF Arr, Type, IsUint64, Children
    <2>2. Replaced(c, k, x) = Arr(new)
      BY <2>1 DEF Replaced
    <2>3. new \in Seq(V \cup {x})
      BY <2>1
    <2>4. Arr(new)[1] = "arr" /\ Arr(new)[2] = new
      BY DEF Arr
    <2>5. IsContainer(Arr(new))
      BY <2>3 DEF IsContainer
    <2> HIDE DEF new
    <2>6. Children(Arr(new)) = new /\ Type(Arr(new)) = "arr"
      BY <2>4 DEF Type, IsUint64, Children
    <2> QED
      BY <2>1, <2>2, <2>5, <2>6 DEF new
  <1>2. ASSUME NEW V, NEW ms \in Seq(V \X V), c = Obj(ms)
        PROVE  /\ IsContainer(Replaced(c, k, x))
               /\ Type(Replaced(c, k, x)) = Type(c)
               /\ Children(Replaced(c, k, x)) = [Children(c) EXCEPT ![k] = x]
    <2> DEFINE new == [ms EXCEPT ![k][2] = x]
               U == V \cup {x}
               cs == [i \in DOMAIN ms |-> ms[i][2]]
    <2>1. c[1] = "obj" /\ c[2] = ms /\ Type(c) = "obj" /\ Children(c) = cs
      BY <1>2 DEF Obj, Type, IsUint64, Children
    <2>2. k \in 1..Len(ms) /\ DOMAIN ms = 1..Len(ms) /\ DOMAIN cs = 1..Len(ms)
      BY <2>1
    <2>3. Replaced(c, k, x) = Obj(new)
      BY <2>1 DEF Replaced
    <2>4. /\ DOMAIN new = 1..Len(ms)
          /\ \A i \in 1..Len(ms) : new[i] = IF i = k THEN [ms[k] EXCEPT ![2] = x] ELSE ms[i]
          /\ \A i \in 1..Len(ms) : ms[i] \in V \X V
      BY <2>2
    <2>5. [ms[k] EXCEPT ![2] = x] = <<ms[k][1], x>> /\ ms[k][1] \in V
      BY <2>2, <2>4
    <2>6. \A i \in 1..Len(ms) : new[i] \in U \X U
      BY <2>4, <2>5
    <2>7. new = [i \in 1..Len(ms) |-> new[i]]
      BY <2>2
    <2> HIDE DEF new
    <2>8. new \in Seq(U \X U)
      BY <2>6, <2>7
    <2>9. Obj(new)[1] = "obj" /\ Obj(new)[2] = new
      BY DEF Obj
    <2>10. Children(Obj(new)) = [i \in 1..Len(ms) |-> new[i][2]]
      BY <2>4, <2>9 DEF Children
    <2>11. \A i \in 1..Len(ms) : new[i][2] = IF i = k THEN x ELSE cs[i]
      <3> TAKE i \in 1..Len(ms)
      <3>1. CASE i = k
        BY <2>4, <2>5, <3>1
      <3>2. CASE i # k
        BY <2>4, <3>2
      <3> QED
        BY <3>1, <3>2
    <2>12. IsContainer(Obj(new))
      BY <2>8 DEF IsContainer
    <2>13. Type(Obj(new)) = "obj"
      BY <2>9 DEF Type, IsUint64
    <2> HIDE DEF cs
    <2>14. [i \in 1..Len(ms) |-> new[i][2]] = [cs EXCEPT ![k] = x]
      <3>1. [cs EXCEPT ![k] = x] = [i \in 1..Len(ms) |-> IF i = k THEN x ELSE cs[i]]
        BY <2>2
      <3> QED
        BY <2>11, <3>1
    <2> QED
      BY <2>1, <2>3, <2>10, <2>12, <2>13, <2>14
  <1> QED
    BY <1>1, <1>2 DEF IsContainer

-----------------------------------------------------------------------------
\* Paths.

\* The i-th value in a container, as a name the provers need not look into.
Child(c, i) == Children(c)[i]

\* g is the function by which At is defined.
IsAt(g, v, p, n) == g = [k \in 0..n |-> IF k = 0 THEN v ELSE Children(g[k - 1])[p[k]]]

\* One step of it.
LEMMA AtUnfold ==
    ASSUME NEW v, NEW p, NEW n, NEW g, n \in Nat, IsAt(g, v, p, n), NEW k \in 1..n
    PROVE  g[k] = Child(g[k - 1], p[k])
  BY DEF IsAt, Child

\* Its beginning.
LEMMA AtBegin ==
    ASSUME NEW v, NEW p, NEW n, NEW g, IsAt(g, v, p, n), 0 \in 0..n
    PROVE  g[0] = v
  BY DEF IsAt

\* It exists.
LEMMA AtExists == \A v, p : \A n \in Nat : \E g : IsAt(g, v, p, n)
  <1> TAKE v, p
  <1> DEFINE T == {n \in Nat : \E g : IsAt(g, v, p, n)}
  <1>1. 0 \in T
    <2> DEFINE h == [k \in 0..0 |-> v]
    <2>1. h = [k \in 0..0 |-> IF k = 0 THEN v ELSE Children(h[k - 1])[p[k]]]
      OBVIOUS
    <2> HIDE DEF h
    <2>2. IsAt(h, v, p, 0)
      BY <2>1 DEF IsAt
    <2> QED
      BY <2>2
  <1>2. ASSUME NEW n \in Nat, n \in T
        PROVE  n + 1 \in T
    <2>1. PICK g : IsAt(g, v, p, n)
      BY <1>2
    <2> DEFINE h == [k \in 0..(n + 1) |-> IF k = n + 1 THEN Children(g[n])[p[n + 1]] ELSE g[k]]
    <2>2. ASSUME NEW k \in 0..(n + 1)
          PROVE  h[k] = IF k = 0 THEN v ELSE Children(h[k - 1])[p[k]]
      <3>1. CASE k = n + 1
        <4>1. h[k - 1] = g[n] /\ k # 0
          BY <3>1
        <4> QED
          BY <3>1, <4>1
      <3>2. CASE k # n + 1
        <4>1. k \in 0..n
          BY <3>2
        <4>2. g[k] = IF k = 0 THEN v ELSE Children(g[k - 1])[p[k]]
          BY <2>1, <4>1 DEF IsAt
        <4>3. h[k] = g[k] /\ (k # 0 => h[k - 1] = g[k - 1])
          BY <4>1
        <4> QED
          BY <4>2, <4>3
      <3> QED
        BY <3>1, <3>2
    <2>3. h = [k \in 0..(n + 1) |-> h[k]]
      OBVIOUS
    <2> HIDE DEF h
    <2>4. IsAt(h, v, p, n + 1)
      BY <2>2, <2>3 DEF IsAt
    <2> QED
      BY <2>4
  <1> HIDE DEF T
  <1>3. Nat \subseteq T
    BY <1>1, <1>2, SetInduction
  <1> QED
    BY <1>3 DEF T

\* What is at the end of the first steps depends on them alone.
LEMMA AtSame ==
    ASSUME NEW v, NEW p, NEW q, NEW n \in Nat, NEW m \in Nat, n <= m, \A k \in 1..n : p[k] = q[k],
           NEW g, IsAt(g, v, p, n), NEW h, IsAt(h, v, q, m)
    PROVE  \A k \in 0..n : g[k] = h[k]
  <1> DEFINE T == {k \in Nat : k \in 0..n => g[k] = h[k]}
  <1>1. 0 \in T
    <2>1. 0 \in 0..n /\ 0 \in 0..m
      OBVIOUS
    <2>2. g[0] = v /\ h[0] = v
      BY <2>1, AtBegin
    <2> QED
      BY <2>2
  <1>2. ASSUME NEW k \in Nat, k \in T
        PROVE  k + 1 \in T
    <2> SUFFICES ASSUME k + 1 \in 0..n
                 PROVE  g[k + 1] = h[k + 1]
      OBVIOUS
    <2>1. k + 1 \in 1..n /\ k + 1 \in 1..m /\ (k + 1) - 1 = k /\ p[k + 1] = q[k + 1]
      OBVIOUS
    <2>2. g[k + 1] = Child(g[(k + 1) - 1], p[k + 1]) /\ h[k + 1] = Child(h[(k + 1) - 1], q[k + 1])
      BY <2>1, AtUnfold
    <2>3. g[k] = h[k]
      BY <1>2
    <2> QED
      BY <2>1, <2>2, <2>3
  <1> HIDE DEF T
  <1>3. Nat \subseteq T
    BY <1>1, <1>2, SetInduction
  <1> QED
    BY <1>3 DEF T

\* It is the one At chooses.
LEMMA AtChosen ==
    ASSUME NEW v, NEW p, Len(p) \in Nat
    PROVE  \E g : IsAt(g, v, p, Len(p)) /\ At(v, p) = g[Len(p)]
  <1> DEFINE f == CHOOSE g : g = [k \in 0..Len(p) |-> IF k = 0 THEN v ELSE Children(g[k - 1])[p[k]]]
  <1>1. \E g : g = [k \in 0..Len(p) |-> IF k = 0 THEN v ELSE Children(g[k - 1])[p[k]]]
    <2>1. \E g : IsAt(g, v, p, Len(p))
      BY AtExists
    <2> QED
      BY <2>1 DEF IsAt
  <1>2. f = [k \in 0..Len(p) |-> IF k = 0 THEN v ELSE Children(f[k - 1])[p[k]]]
    BY <1>1
  <1>3. At(v, p) = f[Len(p)]
    BY DEF At
  <1> HIDE DEF f
  <1>4. IsAt(f, v, p, Len(p))
    BY <1>2 DEF IsAt
  <1> QED
    BY <1>3, <1>4

\* The value at the empty path is the whole.
LEMMA AtEmpty == \A v : At(v, <<>>) = v
  <1> TAKE v
  <1>1. PICK g : IsAt(g, v, <<>>, 0) /\ At(v, <<>>) = g[0]
    BY AtChosen, EmptySeq
  <1>2. 0 \in 0..0
    OBVIOUS
  <1> QED
    BY <1>1, <1>2, AtBegin

\* One step more.
LEMMA AtNext ==
    ASSUME NEW v, NEW n \in Nat, NEW p, NEW q, Len(p) = n, Len(q) = n + 1, \A k \in 1..n : p[k] = q[k]
    PROVE  At(v, q) = Child(At(v, p), q[n + 1])
  <1>1. PICK m \in Nat : m = n + 1
    OBVIOUS
  <1>2. n <= m /\ m \in 1..m /\ n \in 0..n /\ m - 1 = n
    BY <1>1
  <1>3. PICK h : IsAt(h, v, q, m) /\ At(v, q) = h[m]
    BY <1>1, AtChosen
  <1>4. PICK g : IsAt(g, v, p, n) /\ At(v, p) = g[n]
    BY AtChosen
  <1>5. \A k \in 0..n : g[k] = h[k]
    <2>1. \A k \in 1..n : p[k] = q[k]
      OBVIOUS
    <2> QED
      BY ONLY <1>2, <1>3, <1>4, <2>1, AtSame
  <1>6. h[m] = Child(h[m - 1], q[m])
    BY <1>2, <1>3, AtUnfold
  <1> QED
    BY <1>1, <1>2, <1>3, <1>4, <1>5, <1>6

-----------------------------------------------------------------------------
\* What stands n steps down the path, with y as the next on the way.
Above(v, p, n, y) == Replaced(At(v, SubSeq(p, 1, n)), p[n + 1], y)

\* g is the function by which Put is defined.
IsPut(g, v, p, x, n) ==
    g = [k \in 0..n |-> IF k = 0 THEN x
                        ELSE Replaced(At(v, SubSeq(p, 1, Len(p) - k)), p[Len(p) - k + 1], g[k - 1])]

\* One step of it.
LEMMA PutUnfold ==
    ASSUME NEW v, NEW p, NEW x, NEW n, NEW g, n \in Nat, Len(p) = n, IsPut(g, v, p, x, n), NEW k \in 1..n
    PROVE  g[k] = Above(v, p, n - k, g[k - 1])
  BY DEF IsPut, Above

\* Its beginning.
LEMMA PutBegin ==
    ASSUME NEW v, NEW p, NEW x, NEW n, NEW g, IsPut(g, v, p, x, n), 0 \in 0..n
    PROVE  g[0] = x
  BY DEF IsPut

\* It exists.
LEMMA PutExists == \A v, p, x : \A n \in Nat : \E g : IsPut(g, v, p, x, n)
  <1> TAKE v, p, x
  <1> DEFINE T == {n \in Nat : \E g : IsPut(g, v, p, x, n)}
             F(k, y) == IF k = 0 THEN x
                        ELSE Replaced(At(v, SubSeq(p, 1, Len(p) - k)), p[Len(p) - k + 1], y)
  <1>1. 0 \in T
    <2> DEFINE h == [k \in 0..0 |-> x]
    <2>1. h = [k \in 0..0 |-> F(k, h[k - 1])]
      OBVIOUS
    <2> HIDE DEF h
    <2>2. IsPut(h, v, p, x, 0)
      BY <2>1 DEF IsPut
    <2> QED
      BY <2>2
  <1>2. ASSUME NEW n \in Nat, n \in T
        PROVE  n + 1 \in T
    <2>1. PICK g : IsPut(g, v, p, x, n)
      BY <1>2
    <2>2. \A k \in 0..n : g[k] = F(k, g[k - 1])
      BY <2>1 DEF IsPut
    <2>3. \A y, z : F(0, y) = F(0, z)
      OBVIOUS
    <2> HIDE DEF F
    <2> DEFINE h == [k \in 0..(n + 1) |-> IF k = n + 1 THEN F(n + 1, g[n]) ELSE g[k]]
    <2>4. ASSUME NEW k \in 0..(n + 1)
          PROVE  h[k] = F(k, h[k - 1])
      <3>1. CASE k = n + 1
        <4>1. h[k - 1] = g[n]
          BY <3>1
        <4> QED
          BY <3>1, <4>1
      <3>2. CASE k = 0
        BY <2>2, <2>3, <3>2
      <3>3. CASE k \in 1..n
        <4>1. h[k - 1] = g[k - 1] /\ h[k] = g[k]
          BY <3>3
        <4> QED
          BY <2>2, <3>3, <4>1
      <3> QED
        BY <3>1, <3>2, <3>3
    <2>5. h = [k \in 0..(n + 1) |-> h[k]]
      OBVIOUS
    <2> HIDE DEF h
    <2>6. h = [k \in 0..(n + 1) |-> F(k, h[k - 1])]
      BY <2>4, <2>5
    <2>7. IsPut(h, v, p, x, n + 1)
      BY <2>6 DEF IsPut, F
    <2> QED
      BY <2>7
  <1> HIDE DEF T
  <1>3. Nat \subseteq T
    BY <1>1, <1>2, SetInduction
  <1> QED
    BY <1>3 DEF T

\* It is the one Put chooses.
LEMMA PutChosen ==
    ASSUME NEW v, NEW p, NEW x, Len(p) \in Nat
    PROVE  \E g : IsPut(g, v, p, x, Len(p)) /\ Put(v, p, x) = g[Len(p)]
  <1> DEFINE f == CHOOSE g : g = [k \in 0..Len(p) |->
                     IF k = 0 THEN x
                     ELSE Replaced(At(v, SubSeq(p, 1, Len(p) - k)), p[Len(p) - k + 1], g[k - 1])]
  <1>1. \E g : g = [k \in 0..Len(p) |->
                     IF k = 0 THEN x
                     ELSE Replaced(At(v, SubSeq(p, 1, Len(p) - k)), p[Len(p) - k + 1], g[k - 1])]
    <2>1. \E g : IsPut(g, v, p, x, Len(p))
      BY PutExists
    <2> QED
      BY <2>1 DEF IsPut
  <1>2. f = [k \in 0..Len(p) |->
                     IF k = 0 THEN x
                     ELSE Replaced(At(v, SubSeq(p, 1, Len(p) - k)), p[Len(p) - k + 1], f[k - 1])]
    BY <1>1
  <1>3. Put(v, p, x) = f[Len(p)]
    BY DEF Put
  <1> HIDE DEF f
  <1>4. IsPut(f, v, p, x, Len(p))
    BY <1>2 DEF IsPut
  <1> QED
    BY <1>3, <1>4

\* At the empty path the whole value is replaced.
LEMMA PutEmpty == \A v, x : Put(v, <<>>, x) = x
  <1> TAKE v, x
  <1>1. PICK g : IsPut(g, v, <<>>, x, 0) /\ Put(v, <<>>, x) = g[0]
    BY PutChosen, EmptySeq
  <1>2. 0 \in 0..0
    OBVIOUS
  <1> QED
    BY <1>1, <1>2, PutBegin

\* Replacing a value in a container is replacing the container.
LEMMA PutNext ==
    ASSUME NEW v, NEW n \in Nat, NEW q \in Seq(Nat), Len(q) = n + 1, NEW x
    PROVE  LET p == SubSeq(q, 1, n)
           IN  Put(v, q, x) = Put(v, p, Replaced(At(v, p), q[n + 1], x))
  <1> DEFINE p == SubSeq(q, 1, n)
             y == Replaced(At(v, p), q[n + 1], x)
  <1>1. /\ p \in Seq(Nat) /\ Len(p) = n
        /\ \A k \in 1..n : p[k] = q[k]
        /\ \A k \in 0..n : SubSeq(p, 1, k) = SubSeq(q, 1, k)
    OBVIOUS
  <1>2. Above(v, q, n, x) = y
    BY DEF Above
  <1>3. \A j \in 0..(n - 1) : \A z : Above(v, p, j, z) = Above(v, q, j, z)
    <2> TAKE j \in 0..(n - 1)
    <2>1. j + 1 \in 1..n /\ j \in 0..n
      OBVIOUS
    <2> HIDE DEF p
    <2> QED
      BY <1>1, <2>1 DEF Above
  <1> HIDE DEF p, y
  <1>4. PICK m \in Nat : m = n + 1
    OBVIOUS
  <1>5. PICK h : IsPut(h, v, q, x, m) /\ Put(v, q, x) = h[m]
    BY <1>4, PutChosen
  <1>6. PICK g : IsPut(g, v, p, y, n) /\ Put(v, p, y) = g[n]
    BY <1>1, PutChosen
  <1>7. /\ h[0] = x /\ \A k \in 1..m : h[k] = Above(v, q, m - k, h[k - 1])
        /\ g[0] = y /\ \A k \in 1..n : g[k] = Above(v, p, n - k, g[k - 1])
    <2>1. Len(q) = m /\ Len(p) = n
      BY <1>1, <1>4
    <2>2. \A k \in 1..m : h[k] = Above(v, q, m - k, h[k - 1])
      <3> TAKE k \in 1..m
      <3>1. m \in Nat /\ k \in 1..m
        OBVIOUS
      <3>2. IsPut(h, v, q, x, m) /\ Len(q) = m
        BY <1>5, <2>1
      <3> QED
        BY ONLY <3>1, <3>2, PutUnfold
    <2>3. \A k \in 1..n : g[k] = Above(v, p, n - k, g[k - 1])
      <3> TAKE k \in 1..n
      <3>1. n \in Nat /\ k \in 1..n
        OBVIOUS
      <3> QED
        BY ONLY <1>6, <2>1, <3>1, PutUnfold
    <2>4. 0 \in 0..n /\ 0 \in 0..m
      OBVIOUS
    <2>5. h[0] = x /\ g[0] = y
      BY <1>5, <1>6, <2>4, PutBegin
    <2> QED
      BY <2>1, <2>2, <2>3, <2>5
  <1> DEFINE T == {k \in Nat : k \in 0..n => g[k] = h[k + 1]}
  <1>8. 0 \in T
    <2>1. 1 \in 1..m /\ m - 1 = n /\ 1 - 1 = 0
      BY <1>4
    <2>2. h[1] = Above(v, q, m - 1, h[1 - 1])
      BY <1>7, <2>1
    <2> QED
      BY <1>2, <1>7, <2>1, <2>2
  <1>9. ASSUME NEW k \in Nat, k \in T
        PROVE  k + 1 \in T
    <2> SUFFICES ASSUME k + 1 \in 0..n
                 PROVE  g[k + 1] = h[k + 2]
      OBVIOUS
    <2>1. PICK i \in 1..n, j \in 1..m, l \in 0..(n - 1) :
              i = k + 1 /\ j = k + 2 /\ l = n - i /\ l = m - j /\ i - 1 = k /\ j - 1 = i
      BY <1>4
    <2>2. g[i] = Above(v, p, l, g[k]) /\ h[j] = Above(v, q, l, h[i])
      BY <1>7, <2>1
    <2>3. g[k] = h[i]
      BY <1>9, <2>1
    <2> QED
      BY <1>3, <2>1, <2>2, <2>3
  <1> HIDE DEF T
  <1>10. Nat \subseteq T
    BY <1>8, <1>9, SetInduction
  <1>11. g[n] = h[m]
    BY <1>4, <1>10 DEF T
  <1> QED
    BY <1>5, <1>6, <1>11 DEF p, y

\* The value k steps down the path.
Holder(v, p, k) == At(v, SubSeq(p, 1, k))

\* Each step of the path is one to a value inside a container.
ValidPath(v, p) ==
    \A k \in 1..Len(p) : /\ IsContainer(Holder(v, p, k - 1))
                         /\ p[k] \in DOMAIN Children(Holder(v, p, k - 1))

\* The value is where it was put, and the containers above it are containers
\* of the same type and size.
PutThere(v, p, x) ==
    LET u == Put(v, p, x)
    IN  /\ At(u, p) = x
        /\ \A k \in 0..(Len(p) - 1) :
              /\ IsContainer(Holder(u, p, k))
              /\ Type(Holder(u, p, k)) = Type(Holder(v, p, k))
              /\ Len(Children(Holder(u, p, k))) = Len(Children(Holder(v, p, k)))

LEMMA HolderLast ==
    ASSUME NEW v, NEW p \in Seq(Nat)
    PROVE  Holder(v, p, Len(p)) = At(v, p)
  <1>1. SubSeq(p, 1, Len(p)) = p
    OBVIOUS
  <1> QED
    BY <1>1 DEF Holder

LEMMA HolderPrefix ==
    ASSUME NEW v, NEW p \in Seq(Nat), NEW n \in 0..Len(p), NEW k \in 0..n
    PROVE  Holder(v, SubSeq(p, 1, n), k) = Holder(v, p, k)
  <1>1. SubSeq(SubSeq(p, 1, n), 1, k) = SubSeq(p, 1, k)
    OBVIOUS
  <1> QED
    BY <1>1 DEF Holder

LEMMA HolderNext ==
    ASSUME NEW v, NEW p \in Seq(Nat), NEW k \in 1..Len(p)
    PROVE  Holder(v, p, k) = Child(Holder(v, p, k - 1), p[k])
  <1> DEFINE q == SubSeq(p, 1, k)  r == SubSeq(p, 1, k - 1)
  <1>1. PICK n \in Nat : n = k - 1
    OBVIOUS
  <1>2. Len(r) = n /\ Len(q) = n + 1 /\ (\A i \in 1..n : r[i] = q[i]) /\ q[n + 1] = p[k]
    BY <1>1
  <1> HIDE DEF q, r
  <1>3. At(v, q) = Child(At(v, r), q[n + 1])
    BY <1>2, AtNext
  <1> QED
    BY <1>2, <1>3 DEF q, r, Holder

LEMMA PutValid == \A p \in Seq(Nat) : \A v, x : ValidPath(v, p) => PutThere(v, p, x)
  <1> DEFINE T == {n \in Nat : \A p \in Seq(Nat) : \A v, x : Len(p) = n /\ ValidPath(v, p) => PutThere(v, p, x)}
  <1>1. 0 \in T
    <2> SUFFICES ASSUME NEW p \in Seq(Nat), NEW v, NEW x, Len(p) = 0
                 PROVE  PutThere(v, p, x)
      OBVIOUS
    <2>1. p = <<>>
      OBVIOUS
    <2>2. At(Put(v, <<>>, x), <<>>) = x
      BY PutEmpty, AtEmpty
    <2>3. Len(<<>>) = 0 /\ 0..(0 - 1) = {}
      OBVIOUS
    <2> QED
      BY <2>1, <2>2, <2>3 DEF PutThere
  <1>2. ASSUME NEW n \in Nat, n \in T
        PROVE  n + 1 \in T
    <2> SUFFICES ASSUME NEW q \in Seq(Nat), NEW v, NEW x, Len(q) = n + 1, ValidPath(v, q)
                 PROVE  PutThere(v, q, x)
      OBVIOUS
    <2> DEFINE p == SubSeq(q, 1, n)
               c == At(v, p)
               y == Replaced(c, q[n + 1], x)
               u == Put(v, p, y)
    <2>1. p \in Seq(Nat) /\ Len(p) = n /\ n \in 0..Len(q)
      OBVIOUS
    <2>2. \A w : \A k \in 0..n : Holder(w, q, k) = Holder(w, p, k)
      BY <2>1, HolderPrefix
    <2>3. ValidPath(v, p)
      <3>1. \A k \in 1..n : p[k] = q[k] /\ k \in 1..Len(q) /\ k - 1 \in 0..n
        OBVIOUS
      <3> HIDE DEF p
      <3> QED
        BY <2>1, <2>2, <3>1 DEF ValidPath
    <2>4. Put(v, q, x) = u
      BY PutNext
    <2>5. \A w : Holder(w, q, n) = At(w, p)
      BY DEF Holder
    <2>6. IsContainer(c) /\ q[n + 1] \in DOMAIN Children(c)
      <3>1. n + 1 \in 1..Len(q) /\ (n + 1) - 1 = n
        OBVIOUS
      <3>2. Holder(v, q, n) = c
        BY <2>5
      <3> HIDE DEF c
      <3> QED
        BY <3>1, <3>2 DEF ValidPath
    <2> HIDE DEF p, c
    <2>7. PutThere(v, p, y)
      BY <1>2, <2>1, <2>3
    <2>8. /\ IsContainer(y) /\ Type(y) = Type(c)
          /\ Children(y) = [Children(c) EXCEPT ![q[n + 1]] = x]
      BY <2>6, ReplacedChildren
    <2>9. /\ DOMAIN Children(c) = 1..Len(Children(c)) /\ Len(Children(c)) \in Nat
          /\ \E V : Children(c) \in Seq(V)
      BY <2>6, ContainerChildren
    <2>10. Children(y)[q[n + 1]] = x /\ Len(Children(y)) = Len(Children(c))
      <3>1. PICK i : i = q[n + 1]
        OBVIOUS
      <3>2. PICK a : a = Children(c)
        OBVIOUS
      <3>3. DOMAIN a = 1..Len(a) /\ i \in DOMAIN a /\ Len(a) \in Nat
        BY <2>6, <2>9, <3>1, <3>2
      <3>4. [a EXCEPT ![i] = x][i] = x
        BY <3>3
      <3>5. PICK V : a \in Seq(V)
        BY <2>9, <3>2
      <3>6. Len([a EXCEPT ![i] = x]) = Len(a)
        BY <3>5
      <3> QED
        BY <2>8, <3>1, <3>2, <3>4, <3>6
    <2> HIDE DEF y
    <2>11. At(u, p) = y
      BY <2>7 DEF PutThere
    <2>12. At(u, q) = x
      <3>1. Holder(u, q, n + 1) = At(u, q)
        BY HolderLast
      <3>2. n + 1 \in 1..Len(q) /\ (n + 1) - 1 = n
        OBVIOUS
      <3>3. Holder(u, q, n + 1) = Child(Holder(u, q, (n + 1) - 1), q[n + 1])
        BY <3>2, HolderNext
      <3>4. Holder(u, q, n) = y
        BY <2>5, <2>11
      <3> QED
        BY <2>10, <3>1, <3>2, <3>3, <3>4 DEF Child
    <2>13. ASSUME NEW k \in 0..n
           PROVE  /\ IsContainer(Holder(u, q, k))
                  /\ Type(Holder(u, q, k)) = Type(Holder(v, q, k))
                  /\ Len(Children(Holder(u, q, k))) = Len(Children(Holder(v, q, k)))
      <3>1. CASE k = n
        <4>1. Holder(u, q, k) = y /\ Holder(v, q, k) = c
          BY <2>5, <2>11, <3>1 DEF c
        <4> QED
          BY <2>8, <2>10, <4>1
      <3>2. CASE k # n
        <4>1. k \in 0..(n - 1)
          BY <3>2
        <4>2. Holder(u, q, k) = Holder(u, p, k) /\ Holder(v, q, k) = Holder(v, p, k)
          BY <2>2
        <4>3. /\ IsContainer(Holder(u, p, k))
              /\ Type(Holder(u, p, k)) = Type(Holder(v, p, k))
              /\ Len(Children(Holder(u, p, k))) = Len(Children(Holder(v, p, k)))
          BY <2>1, <2>7, <4>1 DEF PutThere
        <4> QED
          BY <4>2, <4>3
      <3> QED
        BY <3>1, <3>2
    <2> HIDE DEF u
    <2>14. Len(q) - 1 = n
      OBVIOUS
    <2> QED
      BY <2>4, <2>12, <2>13, <2>14 DEF PutThere
  <1> HIDE DEF T
  <1>3. Nat \subseteq T
    BY <1>1, <1>2, SetInduction
  <1> QED
    BY <1>3 DEF T

-----------------------------------------------------------------------------
\* The pointers.

ArrFrames == {"first_element", "next_element", "after_element"}
ObjFrames == {"first_pair", "next_pair", "colon", "pair_value", "after_pair"}
Frames    == ArrFrames \cup ObjFrames

\* The type of the container that is open where the grammar expects this.
OpenType(f) == IF f \in ArrFrames THEN "arr" ELSE "obj"

\* The spine of the value v: the containers on the way to c, each the last
\* value of the one before, and each of the type the grammar expects.
Spine(v, c, f) ==
    /\ \A k \in 0..Len(c) : /\ IsContainer(Holder(v, c, k))
                            /\ Type(Holder(v, c, k)) = OpenType(f[k + 2])
    /\ \A k \in 1..Len(c) : c[k] = Len(Children(Holder(v, c, k - 1))) /\ c[k] > 0

\* With containers open, s holds the way to c.
Building(v, c, s, f) ==
    /\ f \in Seq(Frames \cup {"end"})
    /\ Len(f) > 1
    /\ f[1] = "end"
    /\ \A i \in 2..Len(f) : f[i] \in Frames
    /\ c \in Seq(Nat) /\ Len(c) = Len(f) - 2
    /\ s \in Seq(Seq(Nat)) /\ Len(s) = Len(c)
    /\ \A i \in 1..Len(s) : s[i] = SubSeq(c, 1, i - 1)
    /\ Spine(v, c, f)

ReaderInv ==
    \/ frames = <<"json">> /\ current = NullPointer /\ stack = <<>>
    \/ frames = <<"end">> /\ current = <<>> /\ stack = <<>>
    \/ Building(value, current, stack, frames)

\* With another expectation on top.
LEMMA TopReplaced ==
    ASSUME NEW f \in Seq(Frames \cup {"end"}), Len(f) > 1, NEW w \in Frames
    PROVE  LET g == Append(Front(f), w)
           IN  /\ g \in Seq(Frames \cup {"end"}) /\ Len(g) = Len(f) /\ g[Len(f)] = w
               /\ \A i \in 1..(Len(f) - 1) : g[i] = f[i]
  <1>1. /\ Front(f) \in Seq(Frames \cup {"end"}) /\ Len(Front(f)) = Len(f) - 1
        /\ \A i \in 1..(Len(f) - 1) : Front(f)[i] = f[i]
    BY DEF Front
  <1> HIDE DEF Frames
  <1> QED
    BY <1>1

\* The path of a value that is being built is valid.
LEMMA SpineValid ==
    ASSUME NEW v, NEW c \in Seq(Nat), NEW f, Spine(v, c, f)
    PROVE  ValidPath(v, c)
  <1> SUFFICES ASSUME NEW k \in 1..Len(c)
               PROVE  /\ IsContainer(Holder(v, c, k - 1))
                      /\ c[k] \in DOMAIN Children(Holder(v, c, k - 1))
    BY DEF ValidPath
  <1>1. k - 1 \in 0..Len(c)
    OBVIOUS
  <1>2. IsContainer(Holder(v, c, k - 1))
    BY <1>1 DEF Spine
  <1>3. /\ DOMAIN Children(Holder(v, c, k - 1)) = 1..Len(Children(Holder(v, c, k - 1)))
        /\ Len(Children(Holder(v, c, k - 1))) \in Nat
    BY <1>2, ContainerChildren
  <1>4. c[k] = Len(Children(Holder(v, c, k - 1))) /\ c[k] > 0
    BY DEF Spine
  <1> QED
    BY <1>2, <1>3, <1>4

\* The grammar goes on in the same container.
LEMMA GoOn ==
    ASSUME NEW v, NEW c, NEW s, NEW f, Building(v, c, s, f),
           NEW w \in Frames, OpenType(w) = OpenType(f[Len(f)])
    PROVE  Building(v, c, s, Append(Front(f), w))
  <1>1. f \in Seq(Frames \cup {"end"}) /\ Len(f) > 1
    BY DEF Building
  <1>2. PICK g : g = Append(Front(f), w)
    OBVIOUS
  <1>3. /\ g \in Seq(Frames \cup {"end"}) /\ Len(g) = Len(f) /\ g[Len(f)] = w
        /\ \A i \in 1..(Len(f) - 1) : g[i] = f[i]
    BY <1>1, <1>2, TopReplaced
  <1>4. g[1] = "end" /\ \A i \in 2..Len(g) : g[i] \in Frames
    <2>1. f[1] = "end" /\ \A i \in 2..Len(f) : f[i] \in Frames
      BY DEF Building
    <2>2. g[1] = f[1] /\ Len(f) \in Nat
      BY <1>1, <1>3
    <2>3. ASSUME NEW i \in 2..Len(g)
          PROVE  g[i] \in Frames
      <3>1. i = Len(f) \/ i \in 1..(Len(f) - 1)
        BY <1>3, <2>2
      <3>2. i \in 2..Len(f)
        BY <1>3
      <3> QED
        BY <1>3, <2>1, <3>1, <3>2
    <2> QED
      BY <2>1, <2>2, <2>3
  <1>5. Spine(v, c, g)
    <2>1. Len(c) = Len(f) - 2 /\ Spine(v, c, f) /\ c \in Seq(Nat)
      BY DEF Building
    <2>2. ASSUME NEW k \in 0..Len(c)
          PROVE  OpenType(g[k + 2]) = OpenType(f[k + 2])
      BY <2>1, <1>1, <1>3
    <2> QED
      BY <2>1, <2>2 DEF Spine
  <1> QED
    BY <1>2, <1>3, <1>4, <1>5 DEF Building

\* A value is added to the container that is open.
LEMMA AddOne ==
    ASSUME NEW v, NEW c, NEW s, NEW f, Building(v, c, s, f), NEW nm, NEW x
    PROVE  LET m == More(At(v, c), nm, x)
               u == Put(v, c, m)
           IN  /\ Building(u, c, s, f)
               /\ At(u, c) = m
               /\ Children(m) = Append(Children(At(v, c)), x)
  <1> DEFINE m == More(At(v, c), nm, x)
             u == Put(v, c, m)
  <1>1. c \in Seq(Nat) /\ Spine(v, c, f)
    BY DEF Building
  <1>2. ValidPath(v, c)
    BY <1>1, SpineValid
  <1>3. Holder(v, c, Len(c)) = At(v, c) /\ Holder(u, c, Len(c)) = At(u, c)
    BY <1>1, HolderLast
  <1>4. Len(c) \in Nat /\ Len(c) \in 0..Len(c)
    BY <1>1
  <1>5. IsContainer(At(v, c)) /\ Type(At(v, c)) = OpenType(f[Len(c) + 2])
    BY <1>1, <1>3, <1>4 DEF Spine
  <1>6. IsContainer(m) /\ Type(m) = Type(At(v, c)) /\ Children(m) = Append(Children(At(v, c)), x)
    BY <1>5, MoreChildren
  <1> HIDE DEF m
  <1>7. PutThere(v, c, m)
    BY <1>1, <1>2, PutValid
  <1>8. /\ At(u, c) = m
        /\ \A k \in 0..(Len(c) - 1) :
              /\ IsContainer(Holder(u, c, k))
              /\ Type(Holder(u, c, k)) = Type(Holder(v, c, k))
              /\ Len(Children(Holder(u, c, k))) = Len(Children(Holder(v, c, k)))
    BY <1>7 DEF PutThere
  <1> HIDE DEF u
  <1>9. Spine(u, c, f)
    <2>1. ASSUME NEW k \in 0..Len(c)
          PROVE  IsContainer(Holder(u, c, k)) /\ Type(Holder(u, c, k)) = OpenType(f[k + 2])
      <3>1. CASE k = Len(c)
        BY <1>3, <1>5, <1>6, <1>8, <3>1
      <3>2. CASE k # Len(c)
        <4>1. k \in 0..(Len(c) - 1)
          BY <1>4, <3>2
        <4> QED
          BY <1>1, <1>8, <4>1 DEF Spine
      <3> QED
        BY <3>1, <3>2
    <2>2. ASSUME NEW k \in 1..Len(c)
          PROVE  c[k] = Len(Children(Holder(u, c, k - 1))) /\ c[k] > 0
      <3>1. k - 1 \in 0..(Len(c) - 1)
        BY <1>4
      <3>2. c[k] = Len(Children(Holder(v, c, k - 1))) /\ c[k] > 0
        BY <1>1 DEF Spine
      <3> QED
        BY <1>8, <3>1, <3>2
    <2> QED
      BY <2>1, <2>2 DEF Spine
  <1>10. Building(u, c, s, f)
    BY <1>9 DEF Building
  <1> QED
    BY <1>6, <1>8, <1>10 DEF m, u

\* A container that has been added is opened.
LEMMA OpenLast ==
    ASSUME NEW v, NEW c, NEW s, NEW f, Building(v, c, s, f), NEW i \in Nat, i > 0,
           i = Len(Children(At(v, c))), NEW x, Child(At(v, c), i) = x, IsContainer(x),
           NEW w \in Frames, OpenType(w) = Type(x)
    PROVE  Building(v, Append(c, i), Append(s, c), Append(f, w))
  <1>1. /\ c \in Seq(Nat) /\ Spine(v, c, f) /\ f \in Seq(Frames \cup {"end"}) /\ Len(f) > 1
        /\ s \in Seq(Seq(Nat)) /\ Len(s) = Len(c) /\ Len(c) = Len(f) - 2 /\ Len(c) \in Nat
    BY DEF Building
  <1>2. PICK d : d = Append(c, i)
    OBVIOUS
  <1>3. PICK g : g = Append(f, w)
    OBVIOUS
  <1>4. /\ d \in Seq(Nat) /\ Len(d) = Len(c) + 1 /\ d[Len(d)] = i
        /\ \A k \in 1..Len(c) : d[k] = c[k]
        /\ \A k \in 0..Len(c) : SubSeq(d, 1, k) = SubSeq(c, 1, k)
    <2>1. \A k \in 0..Len(c) : SubSeq(Append(c, i), 1, k) = SubSeq(c, 1, k)
      BY <1>1
    <2> QED
      BY <1>1, <1>2, <2>1
  <1>5. /\ g \in Seq(Frames \cup {"end"}) /\ Len(g) = Len(f) + 1 /\ g[Len(g)] = w
        /\ \A k \in 1..Len(f) : g[k] = f[k]
    <2> HIDE DEF Frames
    <2> QED
      BY <1>1, <1>3
  <1>6. Spine(v, d, g)
    <2>1. \A k \in 0..Len(c) : Holder(v, d, k) = Holder(v, c, k)
      BY <1>4 DEF Holder
    <2>2. Holder(v, d, Len(d)) = x
      <3>1. Len(d) \in 1..Len(d) /\ Len(d) - 1 = Len(c) /\ Len(c) \in 0..Len(c)
        BY <1>1, <1>4
      <3>2. Holder(v, d, Len(d)) = Child(Holder(v, d, Len(d) - 1), d[Len(d)])
        BY <1>4, <3>1, HolderNext
      <3>3. Holder(v, d, Len(c)) = At(v, c)
        BY <1>1, <2>1, <3>1, HolderLast
      <3> QED
        BY <1>4, <3>1, <3>2, <3>3
    <2>3. ASSUME NEW k \in 0..Len(d)
          PROVE  IsContainer(Holder(v, d, k)) /\ Type(Holder(v, d, k)) = OpenType(g[k + 2])
      <3>1. CASE k = Len(d)
        <4>1. k + 2 = Len(g)
          BY <1>1, <1>4, <1>5, <3>1
        <4> QED
          BY <1>5, <2>2, <3>1, <4>1
      <3>2. CASE k # Len(d)
        <4>1. k \in 0..Len(c) /\ k + 2 \in 1..Len(f)
          BY <1>1, <1>4, <3>2
        <4>2. IsContainer(Holder(v, c, k)) /\ Type(Holder(v, c, k)) = OpenType(f[k + 2])
          BY <1>1, <4>1 DEF Spine
        <4>3. g[k + 2] = f[k + 2]
          BY <1>5, <4>1
        <4> QED
          BY <2>1, <4>1, <4>2, <4>3
      <3> QED
        BY <3>1, <3>2
    <2>4. ASSUME NEW k \in 1..Len(d)
          PROVE  d[k] = Len(Children(Holder(v, d, k - 1))) /\ d[k] > 0
      <3>1. CASE k = Len(d)
        <4>1. k - 1 = Len(c) /\ Len(c) \in 0..Len(c)
          BY <1>1, <1>4, <3>1
        <4>2. Holder(v, d, k - 1) = At(v, c)
          BY <1>1, <2>1, <4>1, HolderLast
        <4> QED
          BY <1>4, <3>1, <4>2
      <3>2. CASE k # Len(d)
        <4>1. k \in 1..Len(c) /\ k - 1 \in 0..Len(c)
          BY <1>1, <1>4, <3>2
        <4>2. c[k] = Len(Children(Holder(v, c, k - 1))) /\ c[k] > 0
          BY <1>1, <4>1 DEF Spine
        <4> QED
          BY <1>4, <2>1, <4>1, <4>2
      <3> QED
        BY <3>1, <3>2
    <2> QED
      BY <2>3, <2>4 DEF Spine
  <1>7. PICK r : r = Append(s, c)
    OBVIOUS
  <1>8. /\ r \in Seq(Seq(Nat)) /\ Len(r) = Len(s) + 1 /\ r[Len(r)] = c
        /\ \A k \in 1..Len(s) : r[k] = s[k]
    BY <1>1, <1>7
  <1>9. \A k \in 1..Len(r) : r[k] = SubSeq(d, 1, k - 1)
    <2> TAKE k \in 1..Len(r)
    <2>1. CASE k = Len(r)
      <3>1. k - 1 = Len(c) /\ SubSeq(c, 1, Len(c)) = c
        BY <1>1, <1>8, <2>1
      <3>2. SubSeq(d, 1, Len(c)) = SubSeq(c, 1, Len(c))
        BY <1>1, <1>4
      <3> QED
        BY <1>8, <2>1, <3>1, <3>2
    <2>2. CASE k # Len(r)
      <3>1. k \in 1..Len(s) /\ k - 1 \in 0..Len(c)
        BY <1>1, <1>8, <2>2
      <3>2. s[k] = SubSeq(c, 1, k - 1)
        BY <3>1 DEF Building
      <3>3. SubSeq(d, 1, k - 1) = SubSeq(c, 1, k - 1)
        BY <1>4, <3>1
      <3> QED
        BY <1>8, <3>1, <3>2, <3>3
    <2> QED
      BY <2>1, <2>2
  <1>10. g[1] = "end" /\ \A k \in 2..Len(g) : g[k] \in Frames
    <2>1. f[1] = "end" /\ \A k \in 2..Len(f) : f[k] \in Frames
      BY DEF Building
    <2>2. g[1] = f[1]
      BY <1>1, <1>5
    <2>3. ASSUME NEW k \in 2..Len(g)
          PROVE  g[k] \in Frames
      <3>1. k = Len(g) \/ k \in 2..Len(f)
        BY <1>1, <1>5
      <3> QED
        BY <1>1, <1>5, <2>1, <3>1
    <2> QED
      BY <2>1, <2>2, <2>3
  <1>11. Len(g) > 1 /\ Len(d) = Len(g) - 2 /\ Len(r) = Len(d)
    BY <1>1, <1>4, <1>5, <1>8
  <1>12. Building(v, d, r, g)
    BY <1>4, <1>5, <1>6, <1>8, <1>9, <1>10, <1>11 DEF Building
  <1> QED
    BY <1>2, <1>3, <1>7, <1>12

\* The container that is open is closed, and another is around it.
LEMMA CloseLast ==
    ASSUME NEW v, NEW c, NEW s, NEW f, Building(v, c, s, f), c # <<>>
    PROVE  Building(v, Last(s), Front(s), Front(f))
  <1>1. /\ c \in Seq(Nat) /\ Spine(v, c, f) /\ f \in Seq(Frames \cup {"end"}) /\ Len(f) > 1
        /\ s \in Seq(Seq(Nat)) /\ Len(s) = Len(c) /\ Len(c) = Len(f) - 2 /\ Len(c) \in Nat
        /\ f[1] = "end" /\ \A k \in 2..Len(f) : f[k] \in Frames
    BY DEF Building
  <1>2. Len(c) > 0
    BY <1>1
  <1>3. PICK n \in Nat : n = Len(c) - 1
    <2>1. Len(c) - 1 \in Nat
      BY <1>1, <1>2
    <2> QED
      BY <2>1
  <1>4. PICK d : d = Last(s)
    OBVIOUS
  <1>5. d = SubSeq(c, 1, n)
    <2>1. Len(s) \in 1..Len(s)
      BY <1>1, <1>2
    <2>2. d = s[Len(s)]
      BY <1>4 DEF Last
    <2>3. s[Len(s)] = SubSeq(c, 1, Len(s) - 1)
      BY <2>1 DEF Building
    <2> QED
      BY <1>1, <1>3, <2>2, <2>3
  <1>6. /\ d \in Seq(Nat) /\ Len(d) = n
        /\ \A k \in 1..n : d[k] = c[k]
        /\ \A k \in 0..n : SubSeq(d, 1, k) = SubSeq(c, 1, k)
    <2>1. n <= Len(c) /\ c \in Seq(Nat)
      BY <1>1, <1>3
    <2>2. SubSeq(c, 1, n) \in Seq(Nat) /\ Len(SubSeq(c, 1, n)) = n
      BY <2>1
    <2>3. \A k \in 1..n : SubSeq(c, 1, n)[k] = c[k]
      BY <2>1
    <2>4. \A k \in 0..n : SubSeq(SubSeq(c, 1, n), 1, k) = SubSeq(c, 1, k)
      BY <2>1
    <2> QED
      BY <1>5, <2>2, <2>3, <2>4
  <1>7. PICK g : g = Front(f)
    OBVIOUS
  <1>8. /\ g \in Seq(Frames \cup {"end"}) /\ Len(g) = Len(f) - 1
        /\ \A k \in 1..Len(g) : g[k] = f[k]
    <2> HIDE DEF Frames
    <2> QED
      BY <1>1, <1>7 DEF Front
  <1>9. PICK r : r = Front(s)
    OBVIOUS
  <1>10. /\ r \in Seq(Seq(Nat)) /\ Len(r) = n
         /\ \A k \in 1..n : r[k] = s[k]
    <2>1. n <= Len(s) /\ s \in Seq(Seq(Nat)) /\ n = Len(s) - 1
      BY <1>1, <1>3
    <2>2. r = SubSeq(s, 1, n)
      BY <1>9, <2>1 DEF Front
    <2> QED
      BY <2>1, <2>2
  <1>11. Spine(v, d, g)
    <2>1. \A k \in 0..n : Holder(v, d, k) = Holder(v, c, k)
      BY <1>6 DEF Holder
    <2>2. \A k \in 0..n : k \in 0..Len(c) /\ k + 2 \in 1..Len(g) /\ g[k + 2] = f[k + 2]
      BY <1>1, <1>3, <1>8
    <2>3. \A k \in 1..n : k \in 1..Len(c) /\ k - 1 \in 0..n
      BY <1>1, <1>3
    <2> QED
      BY <1>1, <1>6, <2>1, <2>2, <2>3 DEF Spine
  <1>12. \A k \in 1..Len(r) : r[k] = SubSeq(d, 1, k - 1)
    <2> TAKE k \in 1..Len(r)
    <2>1. k \in 1..n /\ k - 1 \in 0..n /\ k \in 1..Len(s)
      BY <1>1, <1>3, <1>10
    <2>2. s[k] = SubSeq(c, 1, k - 1)
      BY <2>1 DEF Building
    <2> QED
      BY <1>6, <1>10, <2>1, <2>2
  <1>13. Len(g) > 1 /\ Len(d) = Len(g) - 2 /\ Len(r) = Len(d) /\ g[1] = "end" /\ \A k \in 2..Len(g) : g[k] \in Frames
    BY <1>1, <1>2, <1>3, <1>6, <1>8, <1>10
  <1>14. Building(v, d, r, g)
    BY <1>6, <1>8, <1>10, <1>11, <1>12, <1>13 DEF Building
  <1> QED
    BY <1>4, <1>7, <1>9, <1>14

\* A pointer into a container is not null.
LEMMA BuildingNotNull ==
    ASSUME NEW v, NEW c, NEW s, NEW f, Building(v, c, s, f)
    PROVE  c # NullPointer
  <1> SUFFICES ASSUME c = NullPointer
               PROVE  FALSE
    OBVIOUS
  <1>1. Len(c) = 1 /\ c[1] = 0
    BY DEF NullPointer
  <1>2. \A k \in 1..Len(c) : c[k] > 0
    BY DEF Building, Spine
  <1> QED
    BY <1>1, <1>2

\* The outermost container is opened.
LEMMA FirstOpened ==
    ASSUME NEW x, IsContainer(x), NEW w \in Frames, OpenType(w) = Type(x)
    PROVE  Building(x, <<>>, <<>>, <<"end", w>>)
  <1> DEFINE f == <<"end", w>>
  <1>1. f \in Seq(Frames \cup {"end"}) /\ Len(f) = 2 /\ f[1] = "end" /\ f[2] = w
    OBVIOUS
  <1>2. <<>> \in Seq(Nat) /\ <<>> \in Seq(Seq(Nat)) /\ Len(<<>>) = 0
    BY EmptySeq
  <1>3. Holder(x, <<>>, 0) = x
    BY <1>2, AtEmpty, HolderLast
  <1> HIDE DEF f
  <1>4. Spine(x, <<>>, f)
    <2>1. \A k \in 0..0 : k = 0
      OBVIOUS
    <2>2. 1..0 = {}
      OBVIOUS
    <2> QED
      BY <1>1, <1>2, <1>3, <2>1, <2>2 DEF Spine
  <1>5. /\ \A i \in 2..Len(f) : f[i] \in Frames
        /\ 0 = Len(f) - 2 /\ Len(f) > 1
    BY <1>1
  <1>6. Building(x, <<>>, <<>>, f)
    BY <1>1, <1>2, <1>4, <1>5 DEF Building
  <1> QED
    BY <1>6 DEF f

\* Front and what comes on top of it.
LEMMA TwoOnTop ==
    ASSUME NEW S, NEW f \in Seq(S), Len(f) > 0, NEW a, NEW b
    PROVE  Front(f) \o <<a, b>> = Append(Append(Front(f), a), b)
  <1>1. PICK g : g = Front(f)
    OBVIOUS
  <1>2. g \in Seq(S)
    BY <1>1 DEF Front
  <1>3. g \in Seq(S \cup {a, b}) /\ <<a, b>> = Append(Append(<<>>, a), b)
    BY <1>2
  <1>4. g \o <<a, b>> = Append(Append(g, a), b)
    BY <1>3
  <1> QED
    BY <1>1, <1>4

\* With nothing read yet, or all.
LEMMA TopOfOne ==
    ASSUME NEW x, NEW y, NEW z
    PROVE  /\ Last(<<x>>) = x /\ Append(Front(<<x>>), y) = <<y>>
           /\ Front(<<x>>) \o <<y, z>> = <<y, z>> /\ Tail(<<x>>) = <<>>
  <1>1. Len(<<x>>) = 1 /\ <<x>>[1] = x /\ <<x>> \in Seq({x})
    OBVIOUS
  <1>2. SubSeq(<<x>>, 1, 0) = <<>>
    BY <1>1
  <1>3. Last(<<x>>) = x /\ Front(<<x>>) = <<>>
    BY <1>1, <1>2 DEF Last, Front
  <1>4. Append(<<>>, y) = <<y>> /\ <<y, z>> \in Seq({y, z})
    OBVIOUS
  <1>5. <<>> \o <<y, z>> = <<y, z>>
    BY <1>4, ConcatEmptySeq
  <1>6. Tail(<<x>>) = <<>>
    OBVIOUS
  <1> QED
    BY <1>3, <1>4, <1>5, <1>6

\* A container is begun in a container.
LEMMA OpenInside ==
    ASSUME NEW v, NEW c, NEW s, NEW f, Building(v, c, s, f), NEW nm, NEW x, IsContainer(x),
           NEW w \in Frames, OpenType(w) = OpenType(f[Len(f)]),
           NEW w2 \in Frames, OpenType(w2) = Type(x)
    PROVE  Building(Put(v, c, More(At(v, c), nm, x)), Append(c, Len(Children(At(v, c))) + 1),
                    Append(s, c), Append(Append(Front(f), w), w2))
  <1>1. PICK u, m : m = More(At(v, c), nm, x) /\ u = Put(v, c, m)
    OBVIOUS
  <1>2. /\ Building(u, c, s, f) /\ At(u, c) = m
        /\ Children(m) = Append(Children(At(v, c)), x)
    BY <1>1, AddOne
  <1>3. PICK g : g = Append(Front(f), w)
    OBVIOUS
  <1>4. Building(u, c, s, g)
    BY <1>2, <1>3, GoOn
  <1>5. IsContainer(At(v, c))
    <2>1. /\ c \in Seq(Nat) /\ Len(c) \in 0..Len(c)
          /\ \A k \in 0..Len(c) : IsContainer(Holder(v, c, k))
      BY DEF Building, Spine
    <2> QED
      BY <2>1, HolderLast
  <1>6. PICK V : Children(At(v, c)) \in Seq(V)
    BY <1>5, ContainerChildren
  <1>7. PICK i \in Nat : i = Len(Children(At(v, c))) + 1
    BY <1>6
  <1>8. /\ i > 0 /\ i = Len(Children(At(u, c)))
        /\ Child(At(u, c), i) = x
    BY <1>2, <1>6, <1>7 DEF Child
  <1>9. Building(u, Append(c, i), Append(s, c), Append(g, w2))
    BY <1>4, <1>8, OpenLast
  <1> QED
    BY <1>1, <1>3, <1>7, <1>9

\* The last expectation is the one on top.
LEMMA BuildingTop ==
    ASSUME NEW v, NEW c, NEW s, NEW f, Building(v, c, s, f)
    PROVE  /\ Last(f) = f[Len(f)] /\ Last(f) \in Frames
           /\ f \in Seq(Frames \cup {"end"}) /\ Len(f) > 1
           /\ c = <<>> => Front(f) = <<"end">> /\ s = <<>>
  <1>1. /\ f \in Seq(Frames \cup {"end"}) /\ Len(f) > 1 /\ f[1] = "end"
        /\ c \in Seq(Nat) /\ Len(c) = Len(f) - 2
        /\ s \in Seq(Seq(Nat)) /\ Len(s) = Len(c)
        /\ \A i \in 2..Len(f) : f[i] \in Frames
    BY DEF Building
  <1>2. Last(f) = f[Len(f)] /\ Len(f) \in 2..Len(f)
    BY <1>1 DEF Last
  <1>3. ASSUME c = <<>>
        PROVE  Front(f) = <<"end">> /\ s = <<>>
    <2>1. Len(f) = 2 /\ Len(s) = 0
      BY <1>1, <1>3
    <2>2. Front(f) = SubSeq(f, 1, 1)
      BY <2>1 DEF Front
    <2>3. s = <<>>
      BY <1>1, <2>1
    <2>4. SubSeq(f, 1, 1) = <<f[1]>>
      <3>1. PICK g : g = SubSeq(f, 1, 1)
        OBVIOUS
      <3>2. g \in Seq(Frames \cup {"end"}) /\ Len(g) = 1 /\ g[1] = f[1]
        BY <1>1, <3>1
      <3>3. g = <<g[1]>>
        BY <3>2
      <3> QED
        BY <3>1, <3>2, <3>3
    <2> QED
      BY <1>1, <2>2, <2>3, <2>4
  <1> QED
    BY <1>1, <1>2, <1>3

-----------------------------------------------------------------------------
\* One token keeps it.
LEMMA ReadKeepsReaderInv ==
    ASSUME ReaderInv, NEW t, Read(t)
    PROVE  ReaderInv'
  <1>1. CASE UNCHANGED <<value, current, stack, name, frames>>
    BY <1>1 DEF ReaderInv, Building, Spine, Holder
  <1>2. CASE Accept(t) /\ frames = <<"json">> /\ current = NullPointer /\ stack = <<>>
    <2>1. Expects = "json"
      BY <1>2, TopOfOne DEF Expects
    <2>2. AfterValue = "end"
      BY <2>1 DEF AfterValue
    <2>3. CASE ReadScalar(t)
      <3>1. frames' = <<"end">>
        BY <1>2, <2>2, <2>3, TopOfOne DEF ReadScalar, Expect
      <3>2. current' = <<>> /\ stack' = <<>>
        BY <1>2, <2>3 DEF ReadScalar, NewScalar
      <3> QED
        BY <3>1, <3>2 DEF ReaderInv
    <2>4. ASSUME NEW x, IsContainer(x), NEW w \in Frames, OpenType(w) = Type(x),
                 BeginCompound(x), frames' = Front(frames) \o <<AfterValue, w>>
          PROVE  ReaderInv'
      <3>1. value' = x /\ current' = <<>> /\ stack' = <<>>
        BY <1>2, <2>4 DEF BeginCompound, Added, AddedAt
      <3>2. frames' = <<"end", w>>
        BY <1>2, <2>2, <2>4, TopOfOne
      <3>3. Building(x, <<>>, <<>>, <<"end", w>>)
        BY <2>4, FirstOpened
      <3>4. Building(value, current, stack, frames)'
        BY <3>1, <3>2, <3>3 DEF Building, Spine, Holder
      <3> QED
        BY <3>4 DEF ReaderInv
    <2>5. CASE BeginObj(t)
      BY <2>4, <2>5, EmptyContainers DEF BeginObj, Frames, ObjFrames, ArrFrames, OpenType
    <2>6. CASE BeginArray(t)
      BY <2>4, <2>6, EmptyContainers DEF BeginArray, Frames, ObjFrames, ArrFrames, OpenType
    <2>7. CASE Skip(t)
      BY <1>1, <2>7 DEF Skip
    <2>8. ~ReadEnd(t) /\ ~NewName(t) /\ ~ReadMark(t)
      BY <2>1 DEF ReadEnd, Ends, ObjEnds, ArrEnds, NewName, BeforePair, ReadMark
    <2> QED
      BY <1>2, <2>3, <2>5, <2>6, <2>7, <2>8 DEF Accept
  <1>3. CASE Accept(t) /\ frames = <<"end">> /\ current = <<>> /\ stack = <<>>
    <2>1. Expects = "end"
      BY <1>3, TopOfOne DEF Expects
    <2>2. CASE Skip(t)
      BY <1>1, <2>2 DEF Skip
    <2>3. /\ ~ReadScalar(t) /\ ~BeginObj(t) /\ ~BeginArray(t)
          /\ ~ReadEnd(t) /\ ~NewName(t) /\ ~ReadMark(t)
      BY <2>1 DEF ReadScalar, BeginObj, BeginArray, BeforeValue, ReadEnd, Ends, ObjEnds, ArrEnds,
                  NewName, BeforePair, ReadMark
    <2> QED
      BY <1>3, <2>2, <2>3 DEF Accept
  <1>4. CASE Accept(t) /\ Building(value, current, stack, frames)
    <2>1. /\ Expects = frames[Len(frames)] /\ Expects \in Frames
          /\ frames \in Seq(Frames \cup {"end"}) /\ Len(frames) > 1
          /\ current = <<>> => Front(frames) = <<"end">> /\ stack = <<>>
      BY <1>4, BuildingTop DEF Expects
    <2>2. current # NullPointer
      BY <1>4, BuildingNotNull
    <2> DEFINE more(x) == More(At(value, current), name, x)
    <2>3. \A x : Added(x) = Put(value, current, more(x))
      BY <2>2 DEF Added, More
    <2>4. ASSUME Expects \in BeforeValue
          PROVE  AfterValue \in Frames /\ OpenType(AfterValue) = OpenType(frames[Len(frames)])
      BY <2>1, <2>4 DEF BeforeValue, AfterValue, Frames, ObjFrames, ArrFrames, OpenType
    <2>5. CASE ReadScalar(t)
      <3>1. PICK x : NewScalar(x) /\ Expects \in BeforeValue /\ Expect(AfterValue)
        BY <2>5 DEF ReadScalar
      <3>2. /\ value' = Put(value, current, more(x)) /\ current' = current /\ stack' = stack
            /\ frames' = Append(Front(frames), AfterValue)
        BY <2>2, <2>3, <3>1 DEF NewScalar, Expect
      <3> HIDE DEF more
      <3>3. PICK u : u = Put(value, current, more(x))
        OBVIOUS
      <3>4. Building(u, current, stack, frames)
        BY <1>4, <3>3, AddOne DEF more
      <3>5. Building(u, current, stack, Append(Front(frames), AfterValue))
        BY <2>4, <3>1, <3>4, GoOn
      <3>6. Building(value, current, stack, frames)'
        BY <3>2, <3>3, <3>5 DEF Building, Spine, Holder
      <3> QED
        BY <3>6 DEF ReaderInv
    <2>6. ASSUME NEW x, IsContainer(x), NEW w \in Frames, OpenType(w) = Type(x), Expects \in BeforeValue,
                 BeginCompound(x), frames' = Front(frames) \o <<AfterValue, w>>
          PROVE  ReaderInv'
      <3>1. /\ value' = Put(value, current, more(x))
            /\ current' = Append(current, Len(Children(At(value, current))) + 1)
            /\ stack' = Append(stack, current)
        BY <2>2, <2>3, <2>6 DEF BeginCompound, AddedAt
      <3>2. frames' = Append(Append(Front(frames), AfterValue), w)
        BY <2>1, <2>6, TwoOnTop
      <3>3. Building(Put(value, current, more(x)), Append(current, Len(Children(At(value, current))) + 1),
                     Append(stack, current), Append(Append(Front(frames), AfterValue), w))
        BY <1>4, <2>4, <2>6, OpenInside
      <3> HIDE DEF more
      <3>4. Building(value, current, stack, frames)'
        BY <3>1, <3>2, <3>3 DEF Building, Spine, Holder
      <3> QED
        BY <3>4 DEF ReaderInv
    <2>7. CASE BeginObj(t)
      BY <2>6, <2>7, EmptyContainers DEF BeginObj, Frames, ObjFrames, ArrFrames, OpenType
    <2>8. CASE BeginArray(t)
      BY <2>6, <2>8, EmptyContainers DEF BeginArray, Frames, ObjFrames, ArrFrames, OpenType
    <2>9. CASE ReadEnd(t)
      <3>1. value' = value /\ frames' = Front(frames) /\ EndCompound
        BY <2>9 DEF ReadEnd
      <3>2. CASE current = <<>>
        BY <2>1, <3>1, <3>2 DEF EndCompound, ReaderInv
      <3>3. CASE current # <<>>
        <4>1. Building(value, Last(stack), Front(stack), Front(frames))
          BY <1>4, <3>3, CloseLast
        <4>2. current' = Last(stack) /\ stack' = Front(stack)
          BY <3>1, <3>3 DEF EndCompound
        <4>3. Building(value, current, stack, frames)'
          BY <3>1, <4>1, <4>2 DEF Building, Spine, Holder
        <4> QED
          BY <4>3 DEF ReaderInv
      <3> QED
        BY <3>2, <3>3
    <2>10. ASSUME NEW w \in Frames, OpenType(w) = OpenType(frames[Len(frames)]),
                  Expect(w), UNCHANGED <<value, current, stack>>
           PROVE  ReaderInv'
      <3>1. Building(value, current, stack, Append(Front(frames), w))
        BY <1>4, <2>10, GoOn
      <3>2. Building(value, current, stack, frames)'
        BY <2>10, <3>1 DEF Expect, Building, Spine, Holder
      <3> QED
        BY <3>2 DEF ReaderInv
    <2>11. CASE NewName(t)
      <3>1. "colon" \in Frames /\ OpenType("colon") = OpenType(frames[Len(frames)])
        BY <2>1, <2>11 DEF NewName, BeforePair, Frames, ObjFrames, ArrFrames, OpenType
      <3> QED
        BY <2>10, <2>11, <3>1 DEF NewName
    <2>12. CASE ReadMark(t)
      <3>1. PICK w \in {"pair_value", "next_pair", "next_element"} :
              /\ Expect(w) /\ UNCHANGED <<value, current, stack>>
              /\ (w = "pair_value" /\ Expects = "colon") \/ (w = "next_pair" /\ Expects = "after_pair")
                   \/ (w = "next_element" /\ Expects = "after_element")
        BY <2>12 DEF ReadMark
      <3>2. w \in Frames /\ OpenType(w) = OpenType(frames[Len(frames)])
        BY <2>1, <3>1 DEF Frames, ObjFrames, ArrFrames, OpenType
      <3> QED
        BY <2>10, <3>1, <3>2
    <2>13. CASE Skip(t)
      BY <1>1, <2>13 DEF Skip
    <2> QED
      BY <1>4, <2>5, <2>7, <2>8, <2>9, <2>11, <2>12, <2>13 DEF Accept
  <1> QED
    BY <1>1, <1>2, <1>3, <1>4 DEF Read, ReaderInv

\* The invariant holds of every behaviour.
THEOREM ReaderInvariant == Spec => []ReaderInv
  <1>1. Init => ReaderInv
    BY DEF Init, TextInit, TextAtRest, ReaderInit, ReaderInv
  <1>2. ReaderInv /\ [Next]_formatVars => ReaderInv'
    <2> SUFFICES ASSUME ReaderInv, [Next]_formatVars
                 PROVE  ReaderInv'
      OBVIOUS
    <2>1. CASE UNCHANGED readerVars
      BY <2>1 DEF readerVars, ReaderInv, Building, Spine, Holder
    <2>2. CASE \E t : Read(t)
      BY <2>2, ReadKeepsReaderInv
    <2>3. [Next]_formatVars => UNCHANGED readerVars \/ \E t : Read(t)
      BY DEF formatVars, textVars, Next, TextNext, ReadDocument, ReadAnything
    <2> QED
      BY <2>1, <2>2, <2>3
  <1> QED
    BY <1>1, <1>2, PTL DEF Spec

\* The pointers are the ways to the open containers.
LEMMA BuildingPointers ==
    ASSUME NEW v, NEW c, NEW s, NEW f, Building(v, c, s, f)
    PROVE  LET p == Append(s, c)
           IN  /\ DOMAIN p = 1..(Len(f) - 1) /\ Len(p) = Len(f) - 1 /\ Len(c) = Len(f) - 2
               /\ \A i \in 1..(Len(f) - 1) : p[i] = SubSeq(c, 1, i - 1) /\ Len(p[i]) = i - 1
  <1>1. /\ f \in Seq(Frames \cup {"end"}) /\ Len(f) > 1
        /\ c \in Seq(Nat) /\ Len(c) = Len(f) - 2
        /\ s \in Seq(Seq(Nat)) /\ Len(s) = Len(c)
        /\ \A i \in 1..Len(s) : s[i] = SubSeq(c, 1, i - 1)
    BY DEF Building
  <1>2. PICK p : p = Append(s, c)
    OBVIOUS
  <1>3. /\ p \in Seq(Seq(Nat)) /\ Len(p) = Len(c) + 1 /\ p[Len(c) + 1] = c
        /\ \A i \in 1..Len(c) : p[i] = s[i]
    BY <1>1, <1>2
  <1>4. ASSUME NEW i \in 1..(Len(f) - 1)
        PROVE  p[i] = SubSeq(c, 1, i - 1) /\ Len(SubSeq(c, 1, i - 1)) = i - 1
    <2>1. Len(SubSeq(c, 1, i - 1)) = i - 1
      BY <1>1
    <2>2. CASE i = Len(c) + 1
      <3>1. SubSeq(c, 1, Len(c)) = c /\ i - 1 = Len(c)
        BY <1>1, <2>2
      <3> QED
        BY <1>3, <2>1, <2>2, <3>1
    <2>3. CASE i # Len(c) + 1
      <3>1. i \in 1..Len(c)
        BY <1>1, <2>3
      <3> QED
        BY <1>1, <1>3, <2>1, <3>1
    <2> QED
      BY <2>2, <2>3
  <1> QED
    BY <1>1, <1>2, <1>3, <1>4

\* GrammarAndPointersAgree, for every text: the semantic actions build where
\* the grammar is (add_to_current, begin_compound and end_compound).
THEOREM PointersFollowGrammar == Spec => []GrammarAndPointersAgree
  <1>1. ReaderInv => GrammarAndPointersAgree
    <2>1. CASE (frames = <<"json">> /\ current = NullPointer /\ stack = <<>>)
                 \/ (frames = <<"end">> /\ current = <<>> /\ stack = <<>>)
      <3>1. Open = <<>>
        BY <2>1, TopOfOne DEF Open
      <3> QED
        BY <2>1, <3>1 DEF GrammarAndPointersAgree
    <2>2. CASE Building(value, current, stack, frames)
      <3>1. /\ Len(Pointers) = Len(frames) - 1
            /\ \A i \in 1..(Len(frames) - 1) : Pointers[i] = SubSeq(current, 1, i - 1) /\ Len(Pointers[i]) = i - 1
        BY <2>2, BuildingPointers DEF Pointers
      <3>2. /\ frames \in Seq(Frames \cup {"end"}) /\ Len(frames) > 1 /\ Len(current) = Len(frames) - 2
            /\ current \in Seq(Nat) /\ \A i \in 2..Len(frames) : frames[i] \in Frames
            /\ \A k \in 0..Len(current) : Type(Holder(value, current, k)) = OpenType(frames[k + 2])
        BY <2>2 DEF Building, Spine
      <3>3. /\ Open # <<>> /\ Len(Open) = Len(frames) - 1 /\ DOMAIN Open = 1..(Len(frames) - 1)
            /\ \A i \in 1..(Len(frames) - 1) : Open[i] = frames[i + 1]
        <4>1. /\ Tail(frames) \in Seq(Frames \cup {"end"}) /\ Len(Tail(frames)) = Len(frames) - 1
              /\ \A i \in 1..(Len(frames) - 1) : Tail(frames)[i] = frames[i + 1]
          BY <3>2, HeadTailProperties
        <4>2. Len(frames) \in Nat /\ Len(<<>>) = 0
          BY <3>2
        <4>3. DOMAIN Tail(frames) = 1..Len(Tail(frames))
          BY <4>1, LenProperties
        <4>4. Tail(frames) # <<>>
          <5>1. Len(Tail(frames)) # 0
            BY <3>2, <4>1, <4>2
          <5> QED
            BY <5>1, <4>2
        <4>5. Open = Tail(frames)
          BY DEF Open
        <4> QED
          BY ONLY <4>1, <4>3, <4>4, <4>5
      <3>4. Pointers[1] = <<>>
        <4>1. 1 \in 1..(Len(frames) - 1)
          BY <3>2
        <4>2. Pointers[1] = SubSeq(current, 1, 0)
          BY <3>1, <4>1
        <4> QED
          BY <3>2, <4>2
      <3>5. ASSUME NEW i \in DOMAIN Open
            PROVE  /\ Len(Pointers[i]) = i - 1
                   /\ Type(At(value, Pointers[i])) =
                        IF Open[i] \in {"first_element", "next_element", "after_element"} THEN "arr" ELSE "obj"
        <4>1. i \in 1..(Len(frames) - 1)
          BY <3>3
        <4>2. i - 1 \in 0..Len(current) /\ (i - 1) + 2 = i + 1
          BY <3>2, <4>1
        <4>3. Type(Holder(value, current, i - 1)) = OpenType(frames[(i - 1) + 2])
          BY <3>2, <4>2
        <4>4. At(value, Pointers[i]) = Holder(value, current, i - 1)
          BY <3>1, <4>1 DEF Holder
        <4>5. OpenType(frames[(i - 1) + 2]) = OpenType(Open[i])
          BY <3>3, <4>1, <4>2
        <4> QED
          BY <3>1, <4>1, <4>3, <4>4, <4>5 DEF OpenType, ArrFrames
      <3> QED
        BY <3>1, <3>3, <3>4, <3>5 DEF GrammarAndPointersAgree
    <2> QED
      BY <2>1, <2>2 DEF ReaderInv
  <1> QED
    BY <1>1, ReaderInvariant, PTL

\* NoDanglingPointer, for every text: nothing was added to a vector that a
\* pointer goes through (current_p_ and stack_).
THEOREM PointersStayValid == Spec => []NoDanglingPointer
  <1>1. ReaderInv => NoDanglingPointer
    <2>1. CASE (frames = <<"json">> /\ current = NullPointer /\ stack = <<>>)
                 \/ (frames = <<"end">> /\ current = <<>> /\ stack = <<>>)
      <3>1. \A i \in DOMAIN Pointers : Pointers[i] \in {NullPointer, <<>>}
        BY <2>1 DEF Pointers
      <3>2. DOMAIN <<>> = {}
        BY EmptySeq
      <3> QED
        BY <3>1, <3>2 DEF NoDanglingPointer
    <2>2. CASE Building(value, current, stack, frames)
      <3>1. /\ DOMAIN Pointers = 1..(Len(frames) - 1) /\ Len(current) = Len(frames) - 2
            /\ \A i \in 1..(Len(frames) - 1) : Pointers[i] = SubSeq(current, 1, i - 1)
        BY <2>2, BuildingPointers DEF Pointers
      <3>2. /\ current \in Seq(Nat) /\ Len(frames) \in Nat
            /\ \A k \in 1..Len(current) : current[k] = Len(Children(Holder(value, current, k - 1)))
        BY <2>2 DEF Building, Spine
      <3>3. ASSUME NEW i \in DOMAIN Pointers, NEW k \in DOMAIN Pointers[i]
            PROVE  Pointers[i][k] = Len(Children(At(value, SubSeq(Pointers[i], 1, k - 1))))
        <4>1. i \in 1..(Len(frames) - 1) /\ Pointers[i] = SubSeq(current, 1, i - 1) /\ i - 1 \in 0..Len(current)
          <5>1. i \in 1..(Len(frames) - 1)
            BY <3>1
          <5>2. i - 1 \in 0..Len(current)
            BY <3>1, <3>2, <5>1
          <5> QED
            BY <3>1, <5>1, <5>2
        <4>2. PICK n \in 0..Len(current) : n = i - 1
          BY <4>1
        <4>3. PICK q : q = SubSeq(current, 1, n)
          OBVIOUS
        <4>4. q = Pointers[i] /\ Len(q) = n /\ DOMAIN q = 1..n /\ \A j \in 1..n : q[j] = current[j]
          BY <3>2, <4>1, <4>2, <4>3
        <4>5. k \in 1..n /\ k - 1 \in 0..n /\ k \in 1..Len(current)
          BY <4>4
        <4>6. Holder(value, q, k - 1) = Holder(value, current, k - 1)
          BY <3>2, <4>3, <4>5, HolderPrefix
        <4> QED
          BY <3>2, <4>4, <4>5, <4>6 DEF Holder
      <3> QED
        BY <3>3 DEF NoDanglingPointer
    <2> QED
      BY <2>1, <2>2 DEF ReaderInv
  <1> QED
    BY <1>1, ReaderInvariant, PTL
=============================================================================
