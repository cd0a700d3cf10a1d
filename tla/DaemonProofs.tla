---------------------------- MODULE DaemonProofs ----------------------------
(***************************************************************************)
(* Proofs about Daemon, for every installation, any number of GPIOs,       *)
(* devices, timers and clients: what is read of the files of the GPIOs,    *)
(* that all of it is in force once the daemon is in its loop, and that the *)
(* daemon watches every descriptor it has.                                 *)
(***************************************************************************)
EXTENDS Daemon, WellFoundedInduction, TLAPS

(* Every nonempty set of natural numbers has a least element: the          *)
(* induction over the lines of a file.                                     *)
LEMMA NatMin ==
    ASSUME NEW T, T \subseteq Nat, T # {}
    PROVE  \E m \in T : \A n \in T : m <= n
<1> DEFINE R == OpToRel(<, Nat)
<1>1. IsWellFoundedOn(R, Nat)
  BY NatLessThanWellFounded
<1>2. \A x, y \in Nat : (<<y, x>> \in R) <=> y < x
  BY DEF OpToRel
<1> HIDE DEF R
<1>3. \E x \in T : \A y \in T : ~(<<y, x>> \in R)
  BY <1>1, WFMin
<1>4. \E x \in T : \A y \in T : ~(y < x)
  BY <1>2, <1>3, Zenon
<1> QED
  BY <1>4

-----------------------------------------------------------------------------
(* Folds: the operators that are folded over lines, directories and lists  *)
(* of descriptors.                                                         *)
Step(t, x, y) ==
    CASE t = "open" -> AddOpen(x, y)
      [] t = "dir" -> ReadGpioFile(x, y)
      [] t = "in" -> parse_gpio_config_file_in_kv(x, y)
      [] t = "out" -> parse_gpio_config_file_out_kv(x, y)
      [] t = "line" -> ReadLine(x, y)

(* f folds one of them over the elements of kv with a number in a subset   *)
(* of 1..n: the equation of FoldLeft.                                      *)
Folds(f, t, base, kv, n) ==
    f = [s \in SUBSET (1..n) |-> IF s = {} THEN base
                                 ELSE Step(t, f[s \ {Max(s)}], kv[Max(s)])]

(* The largest element of a set of numbers up to n that n is in.           *)
LEMMA MaxIs ==
    ASSUME NEW n \in Nat, NEW s \in SUBSET (1..n), n \in s
    PROVE  Max(s) = n
<1>1. \A x \in s : n >= x
  OBVIOUS
<1>2. PICK m \in s : m = Max(s) /\ \A y \in s : m >= y
  BY <1>1 DEF Max
<1>3. m \in 1..n /\ n >= m /\ m >= n
  BY <1>1, <1>2
<1> QED
  BY <1>2, <1>3

(* There is such a function, whatever the operator does: it can be extended    *)
(* from the first lines to one line more.                                  *)
LEMMA FoldExists ==
    ASSUME NEW t, NEW base, NEW kv, NEW n \in Nat
    PROVE  \E f : Folds(f, t, base, kv, n)
<1> DEFINE T == {k \in Nat : ~\E f : Folds(f, t, base, kv, k)}
<1>1. SUFFICES ASSUME T # {} PROVE FALSE
  OBVIOUS
<1>2. PICK m \in T : \A k \in T : m <= k
  <2>1. T \subseteq Nat
    OBVIOUS
  <2> HIDE DEF T
  <2> QED
    BY <1>1, <2>1, NatMin
<1>3. m \in Nat /\ ~\E f : Folds(f, t, base, kv, m)
  OBVIOUS
<1>4. CASE m = 0
  <2> DEFINE g == [s \in SUBSET (1..m) |-> base]
  <2>1. \A s \in SUBSET (1..m) : s = {}
    BY <1>4
  <2>2. g = [s \in SUBSET (1..m) |-> IF s = {} THEN base
                                 ELSE Step(t, g[s \ {Max(s)}], kv[Max(s)])]
    BY <2>1
  <2>3. Folds(g, t, base, kv, m)
    BY <2>2, Zenon DEF Folds
  <2> QED
    BY <1>3, <2>3
<1>5. CASE m > 0
  <2>1. m - 1 \in Nat /\ m - 1 < m
    BY <1>3, <1>5
  <2>2. PICK f : Folds(f, t, base, kv, m - 1)
    <3>1. m - 1 \notin T
      <4> HIDE DEF T
      <4> QED
        BY <1>2, <1>3, <2>1
    <3> QED
      BY <2>1, <3>1
  <2> DEFINE g == [s \in SUBSET (1..m) |-> IF m \in s THEN Step(t, f[s \ {m}], kv[m]) ELSE f[s]]
  <2>3. ASSUME NEW s \in SUBSET (1..m)
        PROVE  g[s] = IF s = {} THEN base ELSE Step(t, g[s \ {Max(s)}], kv[Max(s)])
    <3>1. CASE m \in s
      <4>1. Max(s) = m
        BY <1>3, <3>1, MaxIs
      <4>2. s \ {m} \in SUBSET (1..m) /\ m \notin s \ {m}
        OBVIOUS
      <4>3. g[s \ {m}] = f[s \ {m}]
        BY <4>2
      <4>4. g[s] = Step(t, f[s \ {m}], kv[m])
        BY <3>1
      <4> HIDE DEF g
      <4> QED
        BY <3>1, <4>1, <4>3, <4>4
    <3>2. CASE m \notin s
      <4>1. s \in SUBSET (1..(m - 1))
        BY <1>3, <3>2
      <4>2. g[s] = f[s]
        BY <3>2
      <4>3. f[s] = IF s = {} THEN base ELSE Step(t, f[s \ {Max(s)}], kv[Max(s)])
        BY <2>2, <4>1, Zenon DEF Folds
      <4>4. s \ {Max(s)} \in SUBSET (1..m) /\ m \notin s \ {Max(s)}
        BY <3>2
      <4>5. g[s \ {Max(s)}] = f[s \ {Max(s)}]
        BY <4>4
      <4> HIDE DEF g
      <4> QED
        BY <4>2, <4>3, <4>5
    <3> QED
      BY <3>1, <3>2
  <2>4. Folds(g, t, base, kv, m)
    <3>1. g = [s \in SUBSET (1..m) |-> g[s]]
      OBVIOUS
    <3> HIDE DEF g
    <3>2. g = [s \in SUBSET (1..m) |-> IF s = {} THEN base
                                 ELSE Step(t, g[s \ {Max(s)}], kv[Max(s)])]
      BY <2>3, <3>1, Zenon
    <3> QED
      BY <3>2, Zenon DEF Folds
  <2> QED
    BY <1>3, <2>4
<1> QED
  BY <1>3, <1>4, <1>5

(* r comes of a fold over all of kv, one step for each element.            *)
Runs(t, base, kv, r) ==
    \E v : /\ v[0] = base /\ r = v[Len(kv)]
           /\ \A k \in 1..Len(kv) : v[k] = Step(t, v[k - 1], kv[k])

(* Its values for the first elements.                                      *)
LEMMA FoldSteps ==
    ASSUME NEW t, NEW base, NEW kv, NEW n \in Nat, NEW f, Folds(f, t, base, kv, n)
    PROVE  \E v : /\ v[0] = base /\ v[n] = f[1..n]
                  /\ \A k \in 1..n : v[k] = Step(t, v[k - 1], kv[k])
<1> DEFINE v == [k \in 0..n |-> f[1..k]]
<1>1. \A s \in SUBSET (1..n) :
         f[s] = IF s = {} THEN base ELSE Step(t, f[s \ {Max(s)}], kv[Max(s)])
  BY Zenon DEF Folds
<1>2. v[0] = base
  <2>1. 1..0 = {} /\ 1..0 \in SUBSET (1..n)
    OBVIOUS
  <2>2. f[1..0] = base
    BY <1>1, <2>1, Zenon
  <2> QED
    BY <2>2
<1>3. v[n] = f[1..n]
  OBVIOUS
<1>4. ASSUME NEW m \in 1..n PROVE v[m] = Step(t, v[m - 1], kv[m])
  <2>1. m \in Nat /\ m \in 0..n /\ m - 1 \in 0..n
    OBVIOUS
  <2>2. 1..m \in SUBSET (1..n) /\ 1..m # {} /\ m \in 1..m /\ (1..m) \ {m} = 1..(m - 1)
    BY <2>1
  <2>3. Max(1..m) = m
    <3>1. 1..m \in SUBSET (1..m)
      OBVIOUS
    <3> QED
      BY <2>1, <2>2, <3>1, MaxIs
  <2>4. f[1..m] = Step(t, f[1..(m - 1)], kv[m])
    <3> DEFINE s == 1..m
    <3>1. f[s] = Step(t, f[s \ {Max(s)}], kv[Max(s)])
      <4> HIDE DEF s
      <4>1. s \in SUBSET (1..n) /\ s # {}
        BY <2>2 DEF s
      <4> QED
        BY <1>1, <4>1
    <3> QED
      BY <2>2, <2>3, <3>1
  <2>5. v[m] = f[1..m] /\ v[m - 1] = f[1..(m - 1)]
    BY <2>1
  <2> QED
    BY <2>4, <2>5, Zenon
<1> HIDE DEF v
<1> QED
  BY <1>2, <1>3, <1>4, Zenon

(* The poll set.                                                           *)
LEMMA FoldOpen ==
    ASSUME NEW S, NEW kv \in Seq(S), NEW base
    PROVE  Runs("open", base, kv, FoldLeft(AddOpen, base, kv))
<1> DEFINE g == CHOOSE f : f = [s \in SUBSET (1..Len(kv)) |->
                                  IF s = {} THEN base
                                  ELSE AddOpen(f[s \ {Max(s)}], kv[Max(s)])]
<1>1. \A x, y : Step("open", x, y) = AddOpen(x, y)
  BY DEF Step
<1>2. Len(kv) \in Nat /\ DOMAIN kv = 1..Len(kv)
  OBVIOUS
<1>3. ASSUME NEW f
      PROVE  Folds(f, "open", base, kv, Len(kv)) <=>
               f = [s \in SUBSET (1..Len(kv)) |-> IF s = {} THEN base
                                                  ELSE AddOpen(f[s \ {Max(s)}], kv[Max(s)])]
  <2>1. \A s : Step("open", f[s \ {Max(s)}], kv[Max(s)]) = AddOpen(f[s \ {Max(s)}], kv[Max(s)])
    BY <1>1, Zenon
  <2>2. [s \in SUBSET (1..Len(kv)) |-> IF s = {} THEN base
                                      ELSE Step("open", f[s \ {Max(s)}], kv[Max(s)])]
        = [s \in SUBSET (1..Len(kv)) |-> IF s = {} THEN base
                                        ELSE AddOpen(f[s \ {Max(s)}], kv[Max(s)])]
    BY <2>1, Zenon
  <2> QED
    BY <2>2, Zenon DEF Folds
<1>4. PICK f : Folds(f, "open", base, kv, Len(kv))
  BY <1>2, FoldExists
<1>5. Folds(g, "open", base, kv, Len(kv))
  BY <1>3, <1>4, Zenon
<1>6. FoldLeft(AddOpen, base, kv) = g[1..Len(kv)]
  BY <1>2, Zenon DEF FoldLeft, MapThenFoldSet
<1> HIDE DEF g
<1>7. PICK v : /\ v[0] = base /\ v[Len(kv)] = g[1..Len(kv)]
               /\ \A k \in 1..Len(kv) : v[k] = Step("open", v[k - 1], kv[k])
  BY <1>2, <1>5, FoldSteps
<1>8. v[Len(kv)] = FoldLeft(AddOpen, base, kv)
  BY <1>6, <1>7, Zenon
<1> QED
  BY <1>7, <1>8, Zenon DEF Runs

(* The GPIO directory.                                                     *)
LEMMA FoldDir ==
    ASSUME NEW S, NEW kv \in Seq(S), NEW base
    PROVE  Runs("dir", base, kv, FoldLeft(ReadGpioFile, base, kv))
<1> DEFINE g == CHOOSE f : f = [s \in SUBSET (1..Len(kv)) |->
                                  IF s = {} THEN base
                                  ELSE ReadGpioFile(f[s \ {Max(s)}], kv[Max(s)])]
<1>1. \A x, y : Step("dir", x, y) = ReadGpioFile(x, y)
  BY DEF Step
<1>2. Len(kv) \in Nat /\ DOMAIN kv = 1..Len(kv)
  OBVIOUS
<1>3. ASSUME NEW f
      PROVE  Folds(f, "dir", base, kv, Len(kv)) <=>
               f = [s \in SUBSET (1..Len(kv)) |-> IF s = {} THEN base
                                                  ELSE ReadGpioFile(f[s \ {Max(s)}], kv[Max(s)])]
  <2>1. \A s : Step("dir", f[s \ {Max(s)}], kv[Max(s)]) = ReadGpioFile(f[s \ {Max(s)}], kv[Max(s)])
    BY <1>1, Zenon
  <2>2. [s \in SUBSET (1..Len(kv)) |-> IF s = {} THEN base
                                      ELSE Step("dir", f[s \ {Max(s)}], kv[Max(s)])]
        = [s \in SUBSET (1..Len(kv)) |-> IF s = {} THEN base
                                        ELSE ReadGpioFile(f[s \ {Max(s)}], kv[Max(s)])]
    BY <2>1, Zenon
  <2> QED
    BY <2>2, Zenon DEF Folds
<1>4. PICK f : Folds(f, "dir", base, kv, Len(kv))
  BY <1>2, FoldExists
<1>5. Folds(g, "dir", base, kv, Len(kv))
  BY <1>3, <1>4, Zenon
<1>6. FoldLeft(ReadGpioFile, base, kv) = g[1..Len(kv)]
  BY <1>2, Zenon DEF FoldLeft, MapThenFoldSet
<1> HIDE DEF g
<1>7. PICK v : /\ v[0] = base /\ v[Len(kv)] = g[1..Len(kv)]
               /\ \A k \in 1..Len(kv) : v[k] = Step("dir", v[k - 1], kv[k])
  BY <1>2, <1>5, FoldSteps
<1>8. v[Len(kv)] = FoldLeft(ReadGpioFile, base, kv)
  BY <1>6, <1>7, Zenon
<1> QED
  BY <1>7, <1>8, Zenon DEF Runs

(* A file of an input.                                                     *)
LEMMA FoldIn ==
    ASSUME NEW S, NEW kv \in Seq(S), NEW base
    PROVE  Runs("in", base, kv, FoldLeft(parse_gpio_config_file_in_kv, base, kv))
<1> DEFINE g == CHOOSE f : f = [s \in SUBSET (1..Len(kv)) |->
                                  IF s = {} THEN base
                                  ELSE parse_gpio_config_file_in_kv(f[s \ {Max(s)}], kv[Max(s)])]
<1>1. \A x, y : Step("in", x, y) = parse_gpio_config_file_in_kv(x, y)
  BY DEF Step
<1>2. Len(kv) \in Nat /\ DOMAIN kv = 1..Len(kv)
  OBVIOUS
<1>3. ASSUME NEW f
      PROVE  Folds(f, "in", base, kv, Len(kv)) <=>
               f = [s \in SUBSET (1..Len(kv)) |-> IF s = {} THEN base
                                                  ELSE parse_gpio_config_file_in_kv(f[s \ {Max(s)}], kv[Max(s)])]
  <2>1. \A s : Step("in", f[s \ {Max(s)}], kv[Max(s)]) = parse_gpio_config_file_in_kv(f[s \ {Max(s)}], kv[Max(s)])
    BY <1>1, Zenon
  <2>2. [s \in SUBSET (1..Len(kv)) |-> IF s = {} THEN base
                                      ELSE Step("in", f[s \ {Max(s)}], kv[Max(s)])]
        = [s \in SUBSET (1..Len(kv)) |-> IF s = {} THEN base
                                        ELSE parse_gpio_config_file_in_kv(f[s \ {Max(s)}], kv[Max(s)])]
    BY <2>1, Zenon
  <2> QED
    BY <2>2, Zenon DEF Folds
<1>4. PICK f : Folds(f, "in", base, kv, Len(kv))
  BY <1>2, FoldExists
<1>5. Folds(g, "in", base, kv, Len(kv))
  BY <1>3, <1>4, Zenon
<1>6. FoldLeft(parse_gpio_config_file_in_kv, base, kv) = g[1..Len(kv)]
  BY <1>2, Zenon DEF FoldLeft, MapThenFoldSet
<1> HIDE DEF g
<1>7. PICK v : /\ v[0] = base /\ v[Len(kv)] = g[1..Len(kv)]
               /\ \A k \in 1..Len(kv) : v[k] = Step("in", v[k - 1], kv[k])
  BY <1>2, <1>5, FoldSteps
<1>8. v[Len(kv)] = FoldLeft(parse_gpio_config_file_in_kv, base, kv)
  BY <1>6, <1>7, Zenon
<1> QED
  BY <1>7, <1>8, Zenon DEF Runs

(* A file of an output.                                                    *)
LEMMA FoldOut ==
    ASSUME NEW S, NEW kv \in Seq(S), NEW base
    PROVE  Runs("out", base, kv, FoldLeft(parse_gpio_config_file_out_kv, base, kv))
<1> DEFINE g == CHOOSE f : f = [s \in SUBSET (1..Len(kv)) |->
                                  IF s = {} THEN base
                                  ELSE parse_gpio_config_file_out_kv(f[s \ {Max(s)}], kv[Max(s)])]
<1>1. \A x, y : Step("out", x, y) = parse_gpio_config_file_out_kv(x, y)
  BY DEF Step
<1>2. Len(kv) \in Nat /\ DOMAIN kv = 1..Len(kv)
  OBVIOUS
<1>3. ASSUME NEW f
      PROVE  Folds(f, "out", base, kv, Len(kv)) <=>
               f = [s \in SUBSET (1..Len(kv)) |-> IF s = {} THEN base
                                                  ELSE parse_gpio_config_file_out_kv(f[s \ {Max(s)}], kv[Max(s)])]
  <2>1. \A s : Step("out", f[s \ {Max(s)}], kv[Max(s)]) = parse_gpio_config_file_out_kv(f[s \ {Max(s)}], kv[Max(s)])
    BY <1>1, Zenon
  <2>2. [s \in SUBSET (1..Len(kv)) |-> IF s = {} THEN base
                                      ELSE Step("out", f[s \ {Max(s)}], kv[Max(s)])]
        = [s \in SUBSET (1..Len(kv)) |-> IF s = {} THEN base
                                        ELSE parse_gpio_config_file_out_kv(f[s \ {Max(s)}], kv[Max(s)])]
    BY <2>1, Zenon
  <2> QED
    BY <2>2, Zenon DEF Folds
<1>4. PICK f : Folds(f, "out", base, kv, Len(kv))
  BY <1>2, FoldExists
<1>5. Folds(g, "out", base, kv, Len(kv))
  BY <1>3, <1>4, Zenon
<1>6. FoldLeft(parse_gpio_config_file_out_kv, base, kv) = g[1..Len(kv)]
  BY <1>2, Zenon DEF FoldLeft, MapThenFoldSet
<1> HIDE DEF g
<1>7. PICK v : /\ v[0] = base /\ v[Len(kv)] = g[1..Len(kv)]
               /\ \A k \in 1..Len(kv) : v[k] = Step("out", v[k - 1], kv[k])
  BY <1>2, <1>5, FoldSteps
<1>8. v[Len(kv)] = FoldLeft(parse_gpio_config_file_out_kv, base, kv)
  BY <1>6, <1>7, Zenon
<1> QED
  BY <1>7, <1>8, Zenon DEF Runs

(* The configuration file.                                                 *)
LEMMA FoldLines ==
    ASSUME NEW S, NEW kv \in Seq(S), NEW base
    PROVE  Runs("line", base, kv, FoldLeft(ReadLine, base, kv))
<1> DEFINE g == CHOOSE f : f = [s \in SUBSET (1..Len(kv)) |->
                                  IF s = {} THEN base
                                  ELSE ReadLine(f[s \ {Max(s)}], kv[Max(s)])]
<1>1. \A x, y : Step("line", x, y) = ReadLine(x, y)
  BY DEF Step
<1>2. Len(kv) \in Nat /\ DOMAIN kv = 1..Len(kv)
  OBVIOUS
<1>3. ASSUME NEW f
      PROVE  Folds(f, "line", base, kv, Len(kv)) <=>
               f = [s \in SUBSET (1..Len(kv)) |-> IF s = {} THEN base
                                                  ELSE ReadLine(f[s \ {Max(s)}], kv[Max(s)])]
  <2>1. \A s : Step("line", f[s \ {Max(s)}], kv[Max(s)]) = ReadLine(f[s \ {Max(s)}], kv[Max(s)])
    BY <1>1, Zenon
  <2>2. [s \in SUBSET (1..Len(kv)) |-> IF s = {} THEN base
                                      ELSE Step("line", f[s \ {Max(s)}], kv[Max(s)])]
        = [s \in SUBSET (1..Len(kv)) |-> IF s = {} THEN base
                                        ELSE ReadLine(f[s \ {Max(s)}], kv[Max(s)])]
    BY <2>1, Zenon
  <2> QED
    BY <2>2, Zenon DEF Folds
<1>4. PICK f : Folds(f, "line", base, kv, Len(kv))
  BY <1>2, FoldExists
<1>5. Folds(g, "line", base, kv, Len(kv))
  BY <1>3, <1>4, Zenon
<1>6. FoldLeft(ReadLine, base, kv) = g[1..Len(kv)]
  BY <1>2, Zenon DEF FoldLeft, MapThenFoldSet
<1> HIDE DEF g
<1>7. PICK v : /\ v[0] = base /\ v[Len(kv)] = g[1..Len(kv)]
               /\ \A k \in 1..Len(kv) : v[k] = Step("line", v[k - 1], kv[k])
  BY <1>2, <1>5, FoldSteps
<1>8. v[Len(kv)] = FoldLeft(ReadLine, base, kv)
  BY <1>6, <1>7, Zenon
<1> QED
  BY <1>7, <1>8, Zenon DEF Runs

(* Induction up to n, over a set of numbers.                               *)
LEMMA UpTo ==
    ASSUME NEW n \in Nat, NEW T, 0 \in T, \A k \in 1..n : k - 1 \in T => k \in T
    PROVE  \A k \in 0..n : k \in T
<1> DEFINE B == {k \in 0..n : k \notin T}
<1>1. SUFFICES ASSUME B # {} PROVE FALSE
  OBVIOUS
<1>2. PICK m \in B : \A k \in B : m <= k
  <2>1. B \subseteq Nat
    OBVIOUS
  <2> HIDE DEF B
  <2> QED
    BY <1>1, <2>1, NatMin
<1>3. m \in 0..n /\ m \notin T
  OBVIOUS
<1>4. m \in 1..n /\ m - 1 \in 0..n /\ m - 1 < m
  BY <1>3
<1>5. m - 1 \in T
  <2>1. m - 1 \notin B
    <3> HIDE DEF B
    <3> QED
      BY <1>2, <1>4
  <2> QED
    BY <1>4, <2>1
<1> QED
  BY <1>3, <1>4, <1>5

-----------------------------------------------------------------------------
(* The files of the GPIOs.                                                 *)

(* When every line sets key to its value or leaves it alone, the last one  *)
(* that sets it wins.                                                      *)
LEMMA LastWins ==
    ASSUME NEW default, NEW lines, NEW n \in Nat, NEW v, NEW key, v[0] = default,
           DOMAIN lines = 1..n,
           \A k \in 1..n : v[k][key] = IF Sets(lines[k], key) THEN SetTo(lines[k], key)
                                       ELSE v[k - 1][key]
    PROVE  SetBy(v[n], default, lines, key)
<1> DEFINE P(m) == \/ (\A k \in 1..m : ~Sets(lines[k], key)) /\ v[m][key] = default[key]
                   \/ \E k \in 1..m :
                        /\ Sets(lines[k], key) /\ \A j \in 1..m : Sets(lines[j], key) => j <= k
                        /\ v[m][key] = SetTo(lines[k], key)
           T == {m \in 0..n : P(m)}
<1>1. 0 \in T
  OBVIOUS
<1>2. ASSUME NEW m \in 1..n, m - 1 \in T PROVE m \in T
  <2>1. m \in Nat /\ m - 1 \in Nat /\ 1..m = (1..(m - 1)) \cup {m} /\ \A j \in 1..(m - 1) : j < m
    OBVIOUS
  <2>2. P(m - 1)
    BY <1>2
  <2>3. CASE Sets(lines[m], key)
    <3>1. v[m][key] = SetTo(lines[m], key)
      BY <2>3
    <3>2. \A j \in 1..m : j <= m
      BY <2>1
    <3>3. P(m)
      BY <2>1, <2>3, <3>1, <3>2
    <3> QED
      BY <3>3
  <2>4. CASE ~Sets(lines[m], key)
    <3>1. v[m][key] = v[m - 1][key]
      BY <2>4
    <3>2. CASE (\A k \in 1..(m - 1) : ~Sets(lines[k], key)) /\ v[m - 1][key] = default[key]
      <4>1. \A k \in 1..m : ~Sets(lines[k], key)
        BY <2>1, <2>4, <3>2
      <4> QED
        BY <3>1, <3>2, <4>1
    <3>3. ASSUME NEW k \in 1..(m - 1), Sets(lines[k], key),
                 \A j \in 1..(m - 1) : Sets(lines[j], key) => j <= k,
                 v[m - 1][key] = SetTo(lines[k], key)
          PROVE  m \in T
      <4>1. k \in 1..m /\ v[m][key] = SetTo(lines[k], key)
        BY <2>1, <3>1, <3>3
      <4>2. \A j \in 1..m : Sets(lines[j], key) => j <= k
        BY <2>1, <2>4, <3>3
      <4> QED
        BY <3>3, <4>1, <4>2
    <3> QED
      BY <2>2, <3>2, <3>3
  <2> QED
    BY <2>3, <2>4
<1>3. n \in T
  <2>1. n \in 0..n
    OBVIOUS
  <2> HIDE DEF T
  <2> QED
    BY <1>1, <1>2, <2>1, UpTo
<1>4. P(n)
  BY <1>3
<1> QED
  BY <1>4, Zenon DEF SetBy

(* What one line does to the data of an input ...                          *)
LEMMA InLine ==
    ASSUME NEW data, NEW l, DOMAIN data = DOMAIN gpio_in_data_new
    PROVE  /\ DOMAIN parse_gpio_config_file_in_kv(data, l) = DOMAIN data
           /\ \A key \in DOMAIN data \ ActionLists :
                parse_gpio_config_file_in_kv(data, l)[key] =
                    IF Sets(l, key) THEN SetTo(l, key) ELSE data[key]
<1> DEFINE new == parse_gpio_config_file_in_kv(data, l)
<1>1. DOMAIN data \subseteq Named \cup Numbers \cup ActionLists
  BY DEF gpio_in_data_new, Named, Numbers, ActionLists
<1>2. Named \cap Numbers = {} /\ Named \cap ActionLists = {} /\ Numbers \cap ActionLists = {}
  BY DEF Named, Numbers, ActionLists
<1>3. CASE l.key \notin DOMAIN data
  <2>1. new = data
    BY <1>3, Zenon DEF parse_gpio_config_file_in_kv
  <2> QED
    BY <1>3, <2>1 DEF Sets
<1>4. CASE l.key \in DOMAIN data /\ l.key \in Named
  <2> DEFINE val == ParseNamed(l.key, l.val)
  <2>1. l.key \notin Numbers /\ l.key \notin ActionLists
    BY <1>2, <1>4
  <2>2. new = [data EXCEPT ![l.key] = val]
    BY <1>4, <2>1 DEF parse_gpio_config_file_in_kv
  <2>3. ASSUME NEW key \in DOMAIN data
        PROVE  new[key] = IF Sets(l, key) THEN SetTo(l, key) ELSE data[key]
    <3>1. CASE key = l.key
      <4>1. Sets(l, key) /\ SetTo(l, key) = val
        BY <2>1, <3>1 DEF Sets, SetTo
      <4> HIDE DEF new, val
      <4> QED
        BY <1>4, <2>2, <3>1, <4>1
    <3>2. CASE key # l.key
      <4>1. ~Sets(l, key)
        BY <3>2 DEF Sets
      <4> HIDE DEF new, val
      <4> QED
        BY <2>2, <3>2, <4>1
    <3> QED
      BY <3>1, <3>2
  <2> HIDE DEF new, val
  <2>4. DOMAIN new = DOMAIN data
    BY <2>2
  <2> QED
    BY <2>3, <2>4 DEF new
<1>5. CASE l.key \in DOMAIN data /\ l.key \in Numbers
  <2>1. l.key \notin Named /\ l.key \notin ActionLists
    BY <1>2, <1>5
  <2>2. new = IF NumberOk(l.key, l.val) THEN [data EXCEPT ![l.key] = l.val] ELSE data
    BY <1>5, <2>1 DEF parse_gpio_config_file_in_kv
  <2>3. ASSUME NEW key \in DOMAIN data
        PROVE  new[key] = IF Sets(l, key) THEN SetTo(l, key) ELSE data[key]
    <3>1. CASE key = l.key
      <4>1. (Sets(l, key) <=> NumberOk(l.key, l.val)) /\ SetTo(l, key) = l.val
        BY <1>5, <3>1 DEF Sets, SetTo
      <4> HIDE DEF new
      <4> QED
        BY <1>5, <2>2, <3>1, <4>1
    <3>2. CASE key # l.key
      <4>1. ~Sets(l, key)
        BY <3>2 DEF Sets
      <4> HIDE DEF new
      <4> QED
        BY <2>2, <3>2, <4>1
    <3> QED
      BY <3>1, <3>2
  <2> HIDE DEF new
  <2>4. DOMAIN new = DOMAIN data
    BY <2>2
  <2> QED
    BY <2>3, <2>4 DEF new
<1>6. CASE l.key \in DOMAIN data /\ l.key \in ActionLists
  <2>1. l.key \notin Named /\ l.key \notin Numbers
    BY <1>2, <1>6
  <2>2. new = [data EXCEPT ![l.key] = AddAction(@, l.val)]
    BY <1>6, <2>1 DEF parse_gpio_config_file_in_kv
  <2> HIDE DEF new
  <2>3. DOMAIN new = DOMAIN data
    BY <2>2
  <2>4. ASSUME NEW key \in DOMAIN data \ ActionLists
        PROVE  new[key] = IF Sets(l, key) THEN SetTo(l, key) ELSE data[key]
    <3>1. key # l.key
      BY <1>6
    <3>2. ~Sets(l, key)
      BY <3>1 DEF Sets
    <3> QED
      BY <2>2, <3>1, <3>2
  <2> QED
    BY <2>3, <2>4 DEF new
<1> QED
  BY <1>1, <1>3, <1>4, <1>5, <1>6

(* ... and of an output.                                                   *)
LEMMA OutLine ==
    ASSUME NEW data, NEW l, DOMAIN data = DOMAIN gpio_out_data_new
    PROVE  /\ DOMAIN parse_gpio_config_file_out_kv(data, l) = DOMAIN data
           /\ \A key \in DOMAIN data \ ActionLists :
                parse_gpio_config_file_out_kv(data, l)[key] =
                    IF Sets(l, key) THEN SetTo(l, key) ELSE data[key]
<1> DEFINE new == parse_gpio_config_file_out_kv(data, l)
           val == ParseNamed(l.key, l.val)
<1>1. DOMAIN data \cap Numbers = {}
  BY DEF gpio_out_data_new, Numbers
<1>2. new = IF l.key \in DOMAIN data THEN [data EXCEPT ![l.key] = val] ELSE data
  BY DEF parse_gpio_config_file_out_kv
<1>3. ASSUME NEW key \in DOMAIN data
      PROVE  new[key] = IF Sets(l, key) THEN SetTo(l, key) ELSE data[key]
  <2>1. CASE key = l.key
    <3>1. Sets(l, key) /\ SetTo(l, key) = val
      BY <1>1, <2>1 DEF Sets, SetTo
    <3> HIDE DEF new, val
    <3> QED
      BY <1>2, <2>1, <3>1
  <2>2. CASE key # l.key
    <3>1. ~Sets(l, key)
      BY <2>2 DEF Sets
    <3> HIDE DEF new, val
    <3> QED
      BY <1>2, <2>2, <3>1
  <2> QED
    BY <2>1, <2>2
<1> HIDE DEF val
<1>4. DOMAIN new = DOMAIN data
  <2> HIDE DEF new
  <2> QED
    BY <1>2
<1> QED
  BY <1>3, <1>4

(* The lines of a file are a sequence.                                     *)
LEMMA KeyValuesSeq ==
    ASSUME NEW S, NEW file, file.lines \in Seq(S)
    PROVE  KeyValues(file) \in Seq(S)
  BY DEF KeyValues, Front

(* A file leaves in the data, for each setting with one value, that of the *)
(* last line for it that is not refused.                                   *)
LEMMA FileRead ==
    ASSUME NEW S, NEW file, file.lines \in Seq(S), NEW ext \in {"in", "out"},
           NEW key \in DOMAIN Default(ext) \ ActionLists
    PROVE  SetBy(parse_gpio_config_file(ext, file), Default(ext), KeyValues(file), key)
<1> DEFINE lines == KeyValues(file)
           n == Len(lines)
<1>1. lines \in Seq(S) /\ n \in Nat /\ DOMAIN lines = 1..n
  BY KeyValuesSeq
<1> HIDE DEF lines
<1>2. \E v : /\ v[0] = Default(ext) /\ parse_gpio_config_file(ext, file) = v[n]
             /\ \A k \in 1..n :
                  DOMAIN v[k - 1] = DOMAIN Default(ext) =>
                     /\ DOMAIN v[k] = DOMAIN Default(ext)
                     /\ v[k][key] = IF Sets(lines[k], key) THEN SetTo(lines[k], key)
                                    ELSE v[k - 1][key]
  <2>1. CASE ext = "in"
    <3>1. Default(ext) = gpio_in_data_new
      BY <2>1 DEF Default
    <3>2. Runs("in", gpio_in_data_new, lines, parse_gpio_config_file(ext, file))
      <4>1. parse_gpio_config_file(ext, file) =
               FoldLeft(parse_gpio_config_file_in_kv, gpio_in_data_new, lines)
        BY <2>1 DEF parse_gpio_config_file, lines
      <4> QED
        BY <1>1, <4>1, FoldIn, Zenon
    <3>3. PICK v : /\ v[0] = gpio_in_data_new /\ parse_gpio_config_file(ext, file) = v[n]
                   /\ \A k \in 1..n : v[k] = Step("in", v[k - 1], lines[k])
      BY <3>2, Zenon DEF Runs
    <3>4. ASSUME NEW k \in 1..n, DOMAIN v[k - 1] = DOMAIN gpio_in_data_new
          PROVE  /\ DOMAIN v[k] = DOMAIN gpio_in_data_new
                 /\ v[k][key] = IF Sets(lines[k], key) THEN SetTo(lines[k], key)
                                ELSE v[k - 1][key]
      <4>1. v[k] = parse_gpio_config_file_in_kv(v[k - 1], lines[k])
        BY <3>3 DEF Step
      <4>2. key \in DOMAIN v[k - 1] \ ActionLists
        BY <3>1, <3>4
      <4> QED
        BY <3>4, <4>1, <4>2, InLine
    <3> QED
      BY <3>1, <3>3, <3>4, Zenon
  <2>2. CASE ext = "out"
    <3>1. Default(ext) = gpio_out_data_new
      BY <2>2 DEF Default
    <3>2. Runs("out", gpio_out_data_new, lines, parse_gpio_config_file(ext, file))
      <4>1. parse_gpio_config_file(ext, file) =
               FoldLeft(parse_gpio_config_file_out_kv, gpio_out_data_new, lines)
        BY <2>2 DEF parse_gpio_config_file, lines
      <4> QED
        BY <1>1, <4>1, FoldOut, Zenon
    <3>3. PICK v : /\ v[0] = gpio_out_data_new /\ parse_gpio_config_file(ext, file) = v[n]
                   /\ \A k \in 1..n : v[k] = Step("out", v[k - 1], lines[k])
      BY <3>2, Zenon DEF Runs
    <3>4. ASSUME NEW k \in 1..n, DOMAIN v[k - 1] = DOMAIN gpio_out_data_new
          PROVE  /\ DOMAIN v[k] = DOMAIN gpio_out_data_new
                 /\ v[k][key] = IF Sets(lines[k], key) THEN SetTo(lines[k], key)
                                ELSE v[k - 1][key]
      <4>1. v[k] = parse_gpio_config_file_out_kv(v[k - 1], lines[k])
        BY <3>3 DEF Step
      <4>2. key \in DOMAIN v[k - 1] \ ActionLists
        BY <3>1, <3>4
      <4> QED
        BY <3>4, <4>1, <4>2, OutLine
    <3> QED
      BY <3>1, <3>3, <3>4, Zenon
  <2> QED
    BY <2>1, <2>2
<1>3. PICK v : /\ v[0] = Default(ext) /\ parse_gpio_config_file(ext, file) = v[n]
               /\ \A k \in 1..n :
                    DOMAIN v[k - 1] = DOMAIN Default(ext) =>
                       /\ DOMAIN v[k] = DOMAIN Default(ext)
                       /\ v[k][key] = IF Sets(lines[k], key) THEN SetTo(lines[k], key)
                                      ELSE v[k - 1][key]
  BY <1>2
<1>4. \A k \in 0..n : DOMAIN v[k] = DOMAIN Default(ext)
  <2> DEFINE T == {k \in 0..n : DOMAIN v[k] = DOMAIN Default(ext)}
  <2>1. 0 \in T
    BY <1>1, <1>3
  <2>2. ASSUME NEW k \in 1..n, k - 1 \in T PROVE k \in T
    BY <1>1, <1>3, <2>2
  <2>3. \A k \in 0..n : k \in T
    <3> HIDE DEF T
    <3> QED
      BY <1>1, <2>1, <2>2, UpTo
  <2> QED
    BY <2>3
<1>5. \A k \in 1..n : v[k][key] = IF Sets(lines[k], key) THEN SetTo(lines[k], key)
                                  ELSE v[k - 1][key]
  <2> TAKE k \in 1..n
  <2>1. k - 1 \in 0..n
    BY <1>1
  <2> QED
    BY <1>3, <1>4, <2>1
<1> HIDE DEF n
<1>6. SetBy(v[n], Default(ext), lines, key)
  BY <1>1, <1>3, <1>5, LastWins
<1> QED
  BY <1>3, <1>6, Zenon DEF lines

(* A finite sequence, of whatever.                                         *)
IsSeq(s) == \E S : s \in Seq(S)

(* Sequences grow by one.                                                  *)
LEMMA SeqFacts ==
    ASSUME NEW s, IsSeq(s)
    PROVE  Len(s) \in Nat /\ DOMAIN s = 1..Len(s)
<1>1. PICK S : s \in Seq(S)
  BY DEF IsSeq
<1> QED
  BY <1>1

LEMMA AppendFacts ==
    ASSUME NEW s, IsSeq(s), NEW x
    PROVE  /\ IsSeq(Append(s, x)) /\ Len(Append(s, x)) = Len(s) + 1
           /\ Append(s, x)[Len(s) + 1] = x
           /\ \A i \in DOMAIN s : Append(s, x)[i] = s[i]
           /\ DOMAIN Append(s, x) = DOMAIN s \cup {Len(s) + 1}
<1>1. PICK S : s \in Seq(S)
  BY DEF IsSeq
<1>2. Append(s, x) \in Seq(S \cup {x})
  BY <1>1
<1> QED
  BY <1>1, <1>2 DEF IsSeq

(* What gpio_read_dir has made of the first n entries of the directory.    *)
DirOk(g, dir, n) ==
    /\ DOMAIN g = {"in", "out", "full"} /\ IsSeq(g["in"]) /\ IsSeq(g["out"])
    /\ g.full => Len(g["in"]) + Len(g["out"]) = GPIOS_MAX
    /\ \A d \in {"in", "out"} : \A i \in DOMAIN g[d] :
          \E e \in Range(dir) : ReadFrom(d, g[d][i], e)
    /\ \A k \in 1..n : \/ ~Readable(dir[k]) \/ g.full
                       \/ \E i \in DOMAIN g[dir[k].ext] : g[dir[k].ext][i].id = dir[k].num

(* One entry more.                                                         *)
LEMMA DirStep ==
    ASSUME NEW dir, NEW k \in Nat \ {0}, dir[k] \in Range(dir), IsSeq(dir[k].file.lines),
           NEW g, DirOk(g, dir, k - 1)
    PROVE  DirOk(ReadGpioFile(g, dir[k]), dir, k)
<1> DEFINE e == dir[k]
           node == [id |-> e.num, data |-> parse_gpio_config_file(e.ext, e.file)]
           more == [g EXCEPT ![e.ext] = Append(@, node)]
           skip == [g EXCEPT !.full = Len(g.in) + Len(g.out) = GPIOS_MAX]
<1>1. 1..k = (1..(k - 1)) \cup {k}
  OBVIOUS
<1>2. CASE g.full \/ ~e.regular
  <2>1. ReadGpioFile(g, e) = g
    BY <1>2 DEF ReadGpioFile
  <2>2. ~Readable(e) \/ g.full
    BY <1>2 DEF Readable
  <2> QED
    BY <1>1, <2>1, <2>2 DEF DirOk
<1>3. CASE ~(g.full \/ ~e.regular) /\ Readable(e)
  <2>1. ReadGpioFile(g, e) = more
    BY <1>3 DEF ReadGpioFile, Readable
  <2>2. e.ext \in {"in", "out"}
    BY <1>3 DEF Readable
  <2>3. ReadFrom(e.ext, node, e)
    <3>1. PICK S : e.file.lines \in Seq(S)
      BY DEF IsSeq
    <3>2. \A key \in DOMAIN Default(e.ext) \ ActionLists :
             SetBy(parse_gpio_config_file(e.ext, e.file), Default(e.ext), KeyValues(e.file), key)
      BY <2>2, <3>1, FileRead
    <3>3. node.id = e.num /\ node.data = parse_gpio_config_file(e.ext, e.file)
      OBVIOUS
    <3> HIDE DEF node, e
    <3> QED
      BY <1>3, <3>2, <3>3, Zenon DEF ReadFrom
  <2> DEFINE old == g[e.ext]
             new == Append(old, node)
             h == more
  <2>4. IsSeq(old)
    BY <2>2 DEF DirOk
  <2> HIDE DEF node
  <2>5. /\ IsSeq(new) /\ new[Len(old) + 1] = node
        /\ \A i \in DOMAIN old : new[i] = old[i]
        /\ DOMAIN new = DOMAIN old \cup {Len(old) + 1}
    BY <2>4, AppendFacts
  <2>6. /\ DOMAIN h = DOMAIN g /\ h[e.ext] = new /\ h.full = g.full
        /\ \A d \in {"in", "out"} : d # e.ext => h[d] = g[d]
    BY <2>2 DEF DirOk
  <2> HIDE DEF h, new, old
  <2>7. IsSeq(h["in"]) /\ IsSeq(h["out"])
    BY <2>2, <2>5, <2>6 DEF DirOk
  <2>8. ASSUME NEW d \in {"in", "out"}, NEW i \in DOMAIN h[d]
        PROVE  \E x \in Range(dir) : ReadFrom(d, h[d][i], x)
    <3>1. CASE d # e.ext
      <4>1. h[d] = g[d]
        BY <2>6, <3>1
      <4> QED
        BY <2>8, <4>1 DEF DirOk
    <3>2. CASE d = e.ext /\ i \in DOMAIN old
      <4>1. h[d][i] = g[d][i] /\ i \in DOMAIN g[d]
        BY <2>5, <2>6, <3>2 DEF old
      <4> QED
        BY <2>8, <4>1 DEF DirOk
    <3>3. CASE d = e.ext /\ i = Len(old) + 1
      <4>1. h[d][i] = node
        BY <2>5, <2>6, <3>3
      <4> QED
        BY <2>3, <3>3, <4>1
    <3> QED
      BY <2>5, <2>6, <2>8, <3>1, <3>2, <3>3
  <2>9. ASSUME NEW j \in 1..k
        PROVE  \/ ~Readable(dir[j]) \/ h.full
               \/ \E i \in DOMAIN h[dir[j].ext] : h[dir[j].ext][i].id = dir[j].num
    <3>1. CASE j = k
      <4>1. node.id = e.num
        BY DEF node
      <4>2. Len(old) + 1 \in DOMAIN h[e.ext] /\ h[e.ext][Len(old) + 1] = node
        BY <2>5, <2>6
      <4> QED
        BY <3>1, <4>1, <4>2
    <3>2. CASE j # k /\ Readable(dir[j])
      <4>1. PICK i \in DOMAIN g[dir[j].ext] : g[dir[j].ext][i].id = dir[j].num
        BY <1>1, <1>3, <2>9, <3>2 DEF DirOk
      <4>2. dir[j].ext \in {"in", "out"}
        BY <3>2 DEF Readable
      <4>3. i \in DOMAIN h[dir[j].ext] /\ h[dir[j].ext][i] = g[dir[j].ext][i]
        <5>1. CASE dir[j].ext = e.ext
          BY <2>5, <2>6, <4>1, <5>1 DEF old
        <5>2. CASE dir[j].ext # e.ext
          BY <2>6, <4>1, <4>2, <5>2
        <5> QED
          BY <5>1, <5>2
      <4> QED
        BY <4>1, <4>3
    <3> QED
      BY <3>1, <3>2
  <2>10. ~h.full /\ DOMAIN h = {"in", "out", "full"}
    BY <1>3, <2>6 DEF DirOk
  <2>11. ReadGpioFile(g, e) = h
    BY <2>1 DEF h
  <2>12. DirOk(h, dir, k)
    BY <2>7, <2>8, <2>9, <2>10, Zenon DEF DirOk
  <2> QED
    BY <2>11, <2>12, Zenon
<1>4. CASE ~(g.full \/ ~e.regular) /\ ~Readable(e)
  <2>1. ReadGpioFile(g, e) = skip
    BY <1>4 DEF ReadGpioFile, Readable
  <2>2. /\ DOMAIN skip = DOMAIN g /\ skip["in"] = g["in"] /\ skip["out"] = g["out"]
        /\ skip.full <=> Len(g["in"]) + Len(g["out"]) = GPIOS_MAX
    BY DEF DirOk
  <2> DEFINE h == skip
  <2> HIDE DEF h
  <2>3. ASSUME NEW j \in 1..k
        PROVE  \/ ~Readable(dir[j]) \/ h.full
               \/ \E i \in DOMAIN h[dir[j].ext] : h[dir[j].ext][i].id = dir[j].num
    <3>1. CASE j = k
      BY <1>4, <3>1
    <3>2. CASE j # k /\ Readable(dir[j])
      <4>1. PICK i \in DOMAIN g[dir[j].ext] : g[dir[j].ext][i].id = dir[j].num
        BY <1>1, <1>4, <2>3, <3>2 DEF DirOk
      <4>2. dir[j].ext \in {"in", "out"}
        BY <3>2 DEF Readable
      <4>3. h[dir[j].ext] = g[dir[j].ext]
        BY <2>2, <4>2 DEF h
      <4> QED
        BY <4>1, <4>3
    <3> QED
      BY <3>1, <3>2
  <2>4. /\ DOMAIN h = {"in", "out", "full"} /\ IsSeq(h["in"]) /\ IsSeq(h["out"])
        /\ h.full => Len(h["in"]) + Len(h["out"]) = GPIOS_MAX
    BY <2>2 DEF h, DirOk
  <2>5. ASSUME NEW d \in {"in", "out"}, NEW i \in DOMAIN h[d]
        PROVE  \E x \in Range(dir) : ReadFrom(d, h[d][i], x)
    <3>1. h[d] = g[d]
      BY <2>2 DEF h
    <3> QED
      BY <2>5, <3>1 DEF DirOk
  <2>6. DirOk(h, dir, k)
    BY <2>3, <2>4, <2>5, Zenon DEF DirOk
  <2> QED
    BY <2>1, <2>6, Zenon DEF h
<1> QED
  BY <1>2, <1>3, <1>4

(* All of the directory.                                                   *)
LEMMA DirRead ==
    ASSUME NEW dir, dir \in Seq(Range(dir)), \A e \in Range(dir) : IsSeq(e.file.lines)
    PROVE  DirOk(gpio_read_dir(dir), dir, Len(dir))
<1> DEFINE empty == [in |-> <<>>, out |-> <<>>, full |-> FALSE]
           n == Len(dir)
<1>1. n \in Nat /\ DOMAIN dir = 1..n /\ \A k \in 1..n : dir[k] \in Range(dir)
  OBVIOUS
<1>2. Runs("dir", empty, dir, gpio_read_dir(dir))
  <2>1. gpio_read_dir(dir) = FoldLeft(ReadGpioFile, empty, dir)
    BY DEF gpio_read_dir
  <2> HIDE DEF empty
  <2> QED
    BY <2>1, FoldDir, Zenon
<1>3. DirOk(empty, dir, 0)
  <2>1. /\ DOMAIN empty = {"in", "out", "full"} /\ empty["in"] = <<>> /\ empty["out"] = <<>>
        /\ ~empty.full
    OBVIOUS
  <2>2. <<>> \in Seq({}) /\ DOMAIN <<>> = {}
    OBVIOUS
  <2> HIDE DEF empty
  <2> QED
    BY <2>1, <2>2 DEF DirOk, IsSeq
<1> HIDE DEF empty
<1>4. PICK v : /\ v[0] = empty /\ gpio_read_dir(dir) = v[n]
               /\ \A k \in 1..n : v[k] = Step("dir", v[k - 1], dir[k])
  BY <1>2, Zenon DEF Runs
<1> DEFINE T == {k \in 0..n : DirOk(v[k], dir, k)}
<1>5. 0 \in T
  BY <1>1, <1>3, <1>4
<1>6. ASSUME NEW k \in 1..n, k - 1 \in T PROVE k \in T
  <2>1. v[k] = ReadGpioFile(v[k - 1], dir[k])
    BY <1>4 DEF Step
  <2>2. k \in Nat \ {0} /\ k \in 0..n /\ dir[k] \in Range(dir) /\ IsSeq(dir[k].file.lines)
    BY <1>1
  <2>3. DirOk(v[k - 1], dir, k - 1)
    BY <1>6
  <2>4. DirOk(v[k], dir, k)
    BY <2>1, <2>2, <2>3, DirStep
  <2> QED
    BY <2>2, <2>4
<1>7. n \in T
  <2>1. n \in 0..n
    BY <1>1
  <2> HIDE DEF T
  <2> QED
    BY <1>1, <1>5, <1>6, <2>1, UpTo
<1> QED
  BY <1>4, <1>7

-----------------------------------------------------------------------------
(* The configuration file.                                                 *)

(* The lists of a configuration before the GPIOs are read.                 *)
Fields == {"status", "chip", "input_devices", "timer_definitions", "gpios_in", "gpios_out",
           "lua_async_scripts"}
ShapeOk(c) ==
    /\ Fields \subseteq DOMAIN c
    /\ IsSeq(c.input_devices) /\ IsSeq(c.timer_definitions)
    /\ c.gpios_in = <<>> /\ c.gpios_out = <<>>

(* Other settings do not touch them.                                       *)
LEMMA KeepsShape ==
    ASSUME NEW c, ShapeOk(c), NEW x,
           NEW key, key \notin {"input_devices", "timer_definitions", "gpios_in", "gpios_out"}
    PROVE  ShapeOk([c EXCEPT ![key] = x])
  BY DEF ShapeOk, Fields

(* A sequence with one element changed.                                    *)
LEMMA ChangedList ==
    ASSUME NEW s, IsSeq(s), NEW d, NEW x
    PROVE  IsSeq([s EXCEPT ![d] = x])
<1>1. PICK S : s \in Seq(S)
  BY DEF IsSeq
<1> DEFINE t == [s EXCEPT ![d] = x]
<1>2. t \in Seq(S \cup {x})
  <2>1. CASE d \in DOMAIN s
    BY <1>1, <2>1
  <2>2. CASE d \notin DOMAIN s
    <3>1. DOMAIN t = DOMAIN s /\ \A i \in DOMAIN s : t[i] = s[i]
      BY <2>2
    <3>2. t = [i \in DOMAIN s |-> t[i]] /\ s = [i \in DOMAIN s |-> s[i]]
      BY <1>1, <3>1
    <3>3. t = s
      BY <3>1, <3>2, Zenon
    <3>4. s \in Seq(S \cup {x})
      BY <1>1
    <3> QED
      BY <3>3, <3>4, Zenon
  <2> QED
    BY <2>1, <2>2
<1> HIDE DEF t
<1>3. IsSeq(t)
  BY <1>2 DEF IsSeq
<1> QED
  BY <1>3 DEF t

(* A line input_ev makes a sequence of the devices again.                  *)
LEMMA InputShape ==
    ASSUME NEW c, ShapeOk(c), NEW v
    PROVE  ShapeOk(parse_input_ev(c, v))
<1> DEFINE e == NewEntry(v)
           known == input_device_get_by_name(c.input_devices, v.device)
           new == [name |-> v.device, event_actions |-> <<>>]
           devices == IF known # {} THEN c.input_devices ELSE Append(c.input_devices, new)
           d == CHOOSE i \in DOMAIN devices : devices[i].name = v.device
           dev == [devices[d] EXCEPT !.event_actions = Append(@, e)]
           added == [devices EXCEPT ![d].event_actions = Append(@, e)]
<1>1. IsSeq(devices)
  BY AppendFacts DEF ShapeOk
<1>2. added = [devices EXCEPT ![d] = dev]
  OBVIOUS
<1> HIDE DEF devices, d, dev, new, e
<1>3. IsSeq(added)
  <2>1. IsSeq([devices EXCEPT ![d] = dev])
    BY <1>1, ChangedList, Zenon
  <2> HIDE DEF added
  <2> QED
    BY <1>2, <2>1, Zenon
<1> HIDE DEF added
<1>4. \A x : IsSeq(x) => ShapeOk([c EXCEPT !.input_devices = x])
  BY DEF ShapeOk, Fields
<1>5. /\ ShapeOk([c EXCEPT !.input_devices = added])
      /\ ShapeOk(Invalid([c EXCEPT !.input_devices = devices]))
  BY <1>1, <1>3, <1>4, KeepsShape DEF Invalid
<1>6. ShapeOk(Crash(c))
  BY KeepsShape DEF Crash
<1>7. parse_input_ev(c, v) \in {Crash(c), Invalid([c EXCEPT !.input_devices = devices]),
                                [c EXCEPT !.input_devices = added]}
  BY Zenon DEF parse_input_ev, devices, added, e, new, d
<1> QED
  BY <1>5, <1>6, <1>7

(* So does any line.                                                       *)
LEMMA LineShape ==
    ASSUME NEW c, ShapeOk(c), NEW l
    PROVE  ShapeOk(ReadLine(c, l))
<1>1. ShapeOk(parse_input_ev(c, l.val))
  BY InputShape
<1>2. \A x : /\ ShapeOk([c EXCEPT !.status = x]) /\ ShapeOk([c EXCEPT !.hooks = x])
             /\ ShapeOk([c EXCEPT !.loglevel = x]) /\ ShapeOk([c EXCEPT !.syslog = x])
             /\ ShapeOk([c EXCEPT !.lua_file = x])
  BY KeepsShape
<1>3. ShapeOk(Crash(c)) /\ ShapeOk(Invalid(c))
  BY <1>2 DEF Crash, Invalid
<1>4. ShapeOk(parse_hook(c, l.val))
  BY <1>2, <1>3 DEF parse_hook
<1>5. ShapeOk(parse_timer_ev(c, l.val))
  <2>1. IsSeq(Append(c.timer_definitions, l.val))
    BY AppendFacts DEF ShapeOk
  <2>2. ShapeOk([c EXCEPT !.timer_definitions = Append(@, l.val)])
    BY <2>1 DEF ShapeOk, Fields
  <2> QED
    BY <1>3, <2>2, Zenon DEF parse_timer_ev
<1>6. ShapeOk(parse_config_file_kv(c, l))
  <2> DEFINE key == l.key
             kept == Checked(c, l, TRUE)
             loglevel == [c EXCEPT !.loglevel = parse_loglevel(l.val)]
             syslog == IF l.val \in {"true", "1", "false", "0"}
                       THEN [c EXCEPT !.syslog = mygpio_parse_bool(l.val)] ELSE Invalid(c)
             socket == Checked(c, l, l.val # "too long")
             timeout == Checked(c, l, mygpio_parse_int(l.val, 10, 120))
             port == Checked(c, l, mygpio_parse_uint(l.val, 1025, 65535))
             file == [c EXCEPT !.lua_file = @ \o l.val]
             input_ev == parse_input_ev(c, l.val)
             timer_ev == parse_timer_ev(c, l.val)
             hook == parse_hook(c, l.val)
             invalid == Invalid(c)
  <2>1. parse_config_file_kv(c, l) =
           CASE key \in {"chip", "gpio_dir", "http_ip", "lua_async_dir"} -> kept
             [] key = "loglevel" -> loglevel
             [] key = "syslog" -> syslog
             [] key = "socket" -> socket
             [] key = "timeout" -> timeout
             [] key = "http_port" -> port
             [] key = "lua_file" -> file
             [] key = "input_ev" -> input_ev
             [] key = "timer_ev" -> timer_ev
             [] key = "hook" -> hook
             [] OTHER -> invalid
    BY DEF parse_config_file_kv
  <2>2. ASSUME key \notin {"input_devices", "timer_definitions", "gpios_in", "gpios_out"}
        PROVE  ShapeOk(kept) /\ ShapeOk(socket) /\ ShapeOk(timeout) /\ ShapeOk(port)
    <3>1. ShapeOk([c EXCEPT ![l.key] = l.val])
      BY <2>2, KeepsShape
    <3>2. /\ kept \in {[c EXCEPT ![l.key] = l.val], Invalid(c)}
          /\ socket \in {[c EXCEPT ![l.key] = l.val], Invalid(c)}
          /\ timeout \in {[c EXCEPT ![l.key] = l.val], Invalid(c)}
          /\ port \in {[c EXCEPT ![l.key] = l.val], Invalid(c)}
      BY DEF Checked, mygpio_parse_int, mygpio_parse_uint
    <3> HIDE DEF kept, socket, timeout, port
    <3> QED
      BY <1>3, <3>1, <3>2
  <2>3. ShapeOk(loglevel) /\ ShapeOk(syslog) /\ ShapeOk(file) /\ ShapeOk(invalid)
    BY <1>2, <1>3, Zenon
  <2>4. ShapeOk(input_ev) /\ ShapeOk(timer_ev) /\ ShapeOk(hook)
    BY <1>1, <1>4, <1>5
  <2> HIDE DEF key, kept, loglevel, syslog, socket, timeout, port, file, input_ev, timer_ev,
               hook, invalid
  <2> QED
    BY <2>1, <2>2, <2>3, <2>4
<1> QED
  BY <1>6 DEF ReadLine

(* The lists of what config_read returns: sequences, those of the GPIOs    *)
(* what gpio_read_dir returns if nothing was invalid.                      *)
ReadOk(files, r) ==
    /\ Fields \subseteq DOMAIN r
    /\ IsSeq(r.input_devices) /\ IsSeq(r.timer_definitions)
    /\ IsSeq(r.gpios_in) /\ IsSeq(r.gpios_out)
    /\ r.status = "ok" => /\ r.gpios_in = gpio_read_dir(files.gpio_dir).in
                          /\ r.gpios_out = gpio_read_dir(files.gpio_dir).out

LEMMA EmptyList == IsSeq(<<>>) /\ Len(<<>>) = 0 /\ DOMAIN <<>> = {}
<1> DEFINE t == <<>>
<1>1. t \in Seq({}) /\ Len(t) = 0 /\ DOMAIN t = {}
  OBVIOUS
<1> HIDE DEF t
<1>2. IsSeq(t)
  BY <1>1 DEF IsSeq
<1> QED
  BY <1>1, <1>2 DEF t

LEMMA ConfigRead ==
    ASSUME NEW files \in Installations
    PROVE  /\ ReadOk(files, config_read(files))
           /\ DirOk(gpio_read_dir(files.gpio_dir), files.gpio_dir, Len(files.gpio_dir))
<1> DEFINE lines == KeyValues(files.conf)
           n == Len(lines)
           c == FoldLeft(ReadLine, config_new, lines)
           g == gpio_read_dir(files.gpio_dir)
           k == [c EXCEPT !.gpios_in = g.in, !.gpios_out = g.out,
                          !.lua_async_scripts = lua_async_read_scripts(files.lua_async_dir)]
<1>1. PICK S : lines \in Seq(S)
  BY InstallationsAssumption, KeyValuesSeq
<1>2. n \in Nat
  BY <1>1
<1>3. DirOk(g, files.gpio_dir, Len(files.gpio_dir))
  <2>1. files.gpio_dir \in Seq(Range(files.gpio_dir))
    BY InstallationsAssumption
  <2>2. \A e \in Range(files.gpio_dir) : IsSeq(e.file.lines)
    BY InstallationsAssumption DEF IsSeq
  <2> QED
    BY <2>1, <2>2, DirRead
<1>4. ShapeOk(config_new)
  <2>1. /\ Fields \subseteq DOMAIN config_new
        /\ config_new.input_devices = <<>> /\ config_new.timer_definitions = <<>>
        /\ config_new.gpios_in = <<>> /\ config_new.gpios_out = <<>>
    BY DEF config_new, Fields
  <2>2. IsSeq(config_new.input_devices) /\ IsSeq(config_new.timer_definitions)
    BY <2>1, EmptyList, Zenon
  <2> QED
    BY <2>1, <2>2, Zenon DEF ShapeOk
<1>5. ShapeOk(c)
  <2>1. Runs("line", config_new, lines, c)
    <3> HIDE DEF lines
    <3> QED
      BY <1>1, FoldLines, Zenon DEF c
  <2> HIDE DEF c
  <2>2. PICK v : /\ v[0] = config_new /\ c = v[n]
                 /\ \A j \in 1..n : v[j] = Step("line", v[j - 1], lines[j])
    BY <2>1, Zenon DEF Runs
  <2> HIDE DEF lines, n
  <2> DEFINE T == {j \in 0..n : ShapeOk(v[j])}
  <2>3. 0 \in T
    BY <1>2, <1>4, <2>2
  <2>4. ASSUME NEW j \in 1..n, j - 1 \in T PROVE j \in T
    <3>1. v[j] = ReadLine(v[j - 1], lines[j])
      BY <2>2 DEF Step
    <3>2. ShapeOk(v[j])
      BY <2>4, <3>1, LineShape
    <3> QED
      BY <1>2, <3>2
  <2>5. n \in T
    <3>1. n \in 0..n
      BY <1>2
    <3> HIDE DEF T
    <3> QED
      BY <1>2, <2>3, <2>4, <3>1, UpTo
  <2> QED
    BY <2>2, <2>5
<1> HIDE DEF c
<1>6. config_read(files) = IF c.status # "ok" THEN c ELSE IF ~files.opens THEN Invalid(c) ELSE k
  BY Zenon DEF config_read, c
<1> HIDE DEF g
<1>7. ReadOk(files, c) \/ c.status = "ok"
  <2>1. IsSeq(c.gpios_in) /\ IsSeq(c.gpios_out)
    BY <1>5, EmptyList, Zenon DEF ShapeOk
  <2> QED
    BY <1>5, <2>1, Zenon DEF ReadOk, ShapeOk
<1>8. ReadOk(files, Invalid(c))
  <2>1. /\ DOMAIN Invalid(c) = DOMAIN c
        /\ Invalid(c).status = "invalid" /\ Invalid(c).input_devices = c.input_devices
        /\ Invalid(c).timer_definitions = c.timer_definitions
        /\ Invalid(c).gpios_in = <<>> /\ Invalid(c).gpios_out = <<>>
    BY <1>5 DEF ShapeOk, Invalid, Fields
  <2>2. IsSeq(Invalid(c).gpios_in) /\ IsSeq(Invalid(c).gpios_out)
    BY <2>1, EmptyList, Zenon
  <2> QED
    BY <1>5, <2>1, <2>2 DEF ReadOk, ShapeOk
<1>9. ReadOk(files, k)
  <2>1. /\ DOMAIN k = DOMAIN c
        /\ k.input_devices = c.input_devices /\ k.timer_definitions = c.timer_definitions
        /\ k.gpios_in = g.in /\ k.gpios_out = g.out
    BY <1>5 DEF ShapeOk, Fields
  <2>2. IsSeq(g.in) /\ IsSeq(g.out)
    BY <1>3 DEF DirOk
  <2> HIDE DEF k
  <2> QED
    BY <1>5, <2>1, <2>2 DEF ReadOk, ShapeOk, g
<1> HIDE DEF k
<1>10. ReadOk(files, config_read(files))
  BY <1>6, <1>7, <1>8, <1>9, Zenon
<1> QED
  BY <1>3, <1>10, Zenon DEF g

-----------------------------------------------------------------------------
(* The poll set.                                                           *)

(* The descriptors of the poll set, by origin.                             *)
StaticFds == ({"GPIO"} \X DOMAIN config.gpios_in) \cup ({"INPUT", "TIMER_EV"} \X Nat)
             \cup {Signal, LuaAsync, Connection, Httpd}
TimersAll == ({"GPIO_IN_TIMER"} \X DOMAIN config.gpios_in)
             \cup ({"GPIO_OUT_TIMER"} \X DOMAIN config.gpios_out)
ClientsAll == {"CLIENT", "CLIENT_TIMEOUT"} \X (1..CLIENT_CONNECTIONS_MAX)
Nodes == ({"in"} \X DOMAIN config.gpios_in) \cup ({"out"} \X DOMAIN config.gpios_out)

Starting == {"config", "chip", "outputs", "inputs", "devices", "timers", "signal", "lua",
             "socket", "httpd"}
Requested == {"devices", "timers", "signal", "lua", "socket", "httpd", "loop"}

(* The lists of the configuration.                                         *)
ListsOk ==
    /\ inst \in Installations /\ Fields \subseteq DOMAIN config
    /\ IsSeq(config.gpios_in) /\ IsSeq(config.gpios_out)
    /\ IsSeq(config.input_devices) /\ IsSeq(config.timer_definitions)

(* What was read of the GPIO files.                                        *)
GpioList(c, dir) == IF dir = "in" THEN c.gpios_in ELSE c.gpios_out
FilesRead(c, dir) ==
    /\ \A d \in {"in", "out"} : \A i \in DOMAIN GpioList(c, d) :
         \E e \in Range(dir) : ReadFrom(d, GpioList(c, d)[i], e)
    /\ \A e \in Range(dir) :
         \/ ~Readable(e) \/ c.chip = ""
         \/ Len(c.gpios_in) + Len(c.gpios_out) = GPIOS_MAX
         \/ \E i \in DOMAIN GpioList(c, e.ext) : GpioList(c, e.ext)[i].id = e.num

FilesOk == pc \in Starting \cup {"loop"} => FilesRead(config, inst.gpio_dir)

(* The lines requested so far.                                             *)
DistinctLines ==
    /\ requests \subseteq Nodes
    /\ \A r, s \in requests : r # s => Gpios(r[1])[r[2]].id # Gpios(s[1])[s[2]].id

LinesOk ==
    /\ DistinctLines
    /\ pc = "outputs" => {"out"} \X (1..(at - 1)) \subseteq requests
    /\ pc = "inputs" => ({"out"} \X DOMAIN config.gpios_out) \cup ({"in"} \X (1..(at - 1)))
                           \subseteq requests
    /\ pc \in Requested => Nodes \subseteq requests

(* How far main has come, and how many descriptors that makes at most.     *)
InputsMax == Len(config.gpios_in)
DevicesMax == InputsMax + Len(config.input_devices)
TimersMax == DevicesMax + Len(config.timer_definitions)

CountOk ==
    /\ at \in Nat \ {0}
    /\ pc \in {"config", "chip"} => requests = {} /\ opened \subseteq {Signal}
    /\ pc \in {"config", "chip", "outputs"} => poll_fds = <<>>
    /\ pc = "inputs" => at <= Len(config.gpios_in) + 1 /\ Len(poll_fds) <= at - 1
    /\ pc = "devices" => at <= Len(config.input_devices) + 1 /\ Len(poll_fds) <= InputsMax + at - 1
    /\ pc = "timers" => at <= Len(config.timer_definitions) + 1
                        /\ Len(poll_fds) <= DevicesMax + at - 1
    /\ pc = "signal" => Len(poll_fds) <= TimersMax
    /\ pc = "lua" => Len(poll_fds) <= TimersMax + 1
    /\ pc = "socket" => Len(poll_fds) <= TimersMax + 2
    /\ pc = "httpd" => Len(poll_fds) <= TimersMax + 3
    /\ pc = "loop" => pfd_len_init <= TimersMax + 4

(* The poll set.                                                           *)
PollOk ==
    /\ pc \in Starting => timers = {} /\ clients = {} /\ pfd_len_init = 0
                      /\ update_pollfds = TRUE
    /\ timers \subseteq TimersAll /\ clients \subseteq ClientsAll /\ opened \subseteq StaticFds
    /\ poll_fds \in Seq(StaticFds \cup TimersAll \cup ClientsAll)
    /\ Len(poll_fds) <= MAX_FDS /\ pfd_len_init \in 0..Len(poll_fds)
    /\ update_pollfds \in BOOLEAN
    /\ pc \in {"inputs", "devices", "timers", "signal"} =>
          opened \ {Signal} \subseteq Polled \/ Len(poll_fds) = MAX_FDS
    /\ pc \in {"chip", "outputs"} => opened = {Signal}
    /\ pc \in {"lua", "socket", "httpd"} => opened \subseteq Polled
    /\ pc = "loop" =>
          /\ \A fd \in opened : \/ \E i \in 1..pfd_len_init : poll_fds[i] = fd
                                \/ fd = Httpd /\ TimersMax + 4 > MAX_FDS
          /\ update_pollfds = FALSE =>
                                \/ timers \cup clients \subseteq Polled
                                \/ Len(config.gpios_in) + Len(config.gpios_out)
                                   + TimersMax + 4 + 2 * CLIENT_CONNECTIONS_MAX > MAX_FDS
          /\ Httpd \in opened

DaemonInv == ListsOk /\ FilesOk /\ LinesOk /\ CountOk /\ PollOk

LEMMA MaxFds == MAX_FDS \in Nat
  BY ConfigAssumption, DaemonAssumption DEF MAX_FDS

(* r is base with those of the first k elements of kv that are open, all   *)
(* of them if there is room for k.                                         *)
Grown(r, base, kv, F, k) ==
    /\ r \in Seq(F) /\ Len(r) <= MAX_FDS /\ Len(base) <= Len(r) /\ Len(r) <= Len(base) + k
    /\ \A i \in 1..Len(base) : r[i] = base[i]
    /\ Len(base) + k <= MAX_FDS =>
          \A j \in 1..k : kv[j] \in timers \cup clients => \E i \in 1..Len(r) : r[i] = kv[j]

LEMMA GrowStep ==
    ASSUME NEW F, NEW base \in Seq(F), NEW kv \in Seq(F), NEW k \in 1..Len(kv),
           NEW r, Grown(r, base, kv, F, k - 1)
    PROVE  Grown(AddOpen(r, kv[k]), base, kv, F, k)
<1>1. /\ kv[k] \in F /\ r \in Seq(F) /\ Len(r) \in Nat /\ Len(base) \in Nat /\ MAX_FDS \in Nat
      /\ 1..k = (1..(k - 1)) \cup {k} /\ k \in Nat
  BY MaxFds DEF Grown
<1>2. CASE kv[k] \notin timers \cup clients
  <2>1. AddOpen(r, kv[k]) = r
    BY <1>2 DEF AddOpen
  <2> QED
    BY <1>1, <1>2, <2>1 DEF Grown
<1>3. CASE kv[k] \in timers \cup clients /\ Len(r) = MAX_FDS
  <2>1. AddOpen(r, kv[k]) = r
    BY <1>3 DEF AddOpen, event_poll_fd_add
  <2>2. ~(Len(base) + k <= MAX_FDS)
    BY <1>1, <1>3 DEF Grown
  <2> QED
    BY <1>1, <2>1, <2>2 DEF Grown
<1>4. CASE kv[k] \in timers \cup clients /\ Len(r) # MAX_FDS
  <2> DEFINE n == Append(r, kv[k])
  <2>1. AddOpen(r, kv[k]) = n
    BY <1>4 DEF AddOpen, event_poll_fd_add
  <2>2. /\ n \in Seq(F) /\ Len(n) = Len(r) + 1 /\ n[Len(r) + 1] = kv[k]
        /\ \A i \in 1..Len(r) : n[i] = r[i]
    BY <1>1
  <2> HIDE DEF n
  <2>3. Len(n) <= MAX_FDS /\ Len(base) <= Len(n) /\ Len(n) <= Len(base) + k
    BY <1>1, <1>4, <2>2 DEF Grown
  <2>4. \A i \in 1..Len(base) : n[i] = base[i]
    BY <1>1, <2>2 DEF Grown
  <2>5. ASSUME Len(base) + k <= MAX_FDS, NEW j \in 1..k, kv[j] \in timers \cup clients
        PROVE  \E i \in 1..Len(n) : n[i] = kv[j]
    <3>1. CASE j = k
      BY <1>1, <2>2, <3>1
    <3>2. CASE j \in 1..(k - 1)
      <4>1. PICK i \in 1..Len(r) : r[i] = kv[j]
        BY <1>1, <2>5, <3>2 DEF Grown
      <4> QED
        BY <1>1, <2>2, <4>1
    <3> QED
      BY <1>1, <3>1, <3>2
  <2>6. Grown(n, base, kv, F, k)
    BY <2>2, <2>3, <2>4, <2>5 DEF Grown
  <2> QED
    BY <2>1, <2>6
<1> QED
  BY <1>2, <1>3, <1>4

LEMMA GrowAll ==
    ASSUME NEW F, NEW base \in Seq(F), NEW kv \in Seq(F), Len(base) <= MAX_FDS
    PROVE  Grown(FoldLeft(AddOpen, base, kv), base, kv, F, Len(kv))
<1> DEFINE n == Len(kv)
           r == FoldLeft(AddOpen, base, kv)
<1>1. n \in Nat
  OBVIOUS
<1>2. Runs("open", base, kv, r)
  BY FoldOpen, Zenon
<1> HIDE DEF r
<1>3. PICK v : /\ v[0] = base /\ r = v[n]
               /\ \A k \in 1..n : v[k] = Step("open", v[k - 1], kv[k])
  BY <1>2, Zenon DEF Runs
<1> DEFINE T == {k \in 0..n : Grown(v[k], base, kv, F, k)}
<1>4. 0 \in T
  <2>1. Grown(base, base, kv, F, 0)
    BY DEF Grown
  <2> QED
    BY <1>1, <1>3, <2>1
<1>5. ASSUME NEW k \in 1..n, k - 1 \in T PROVE k \in T
  <2>1. v[k] = AddOpen(v[k - 1], kv[k])
    BY <1>3 DEF Step
  <2>2. Grown(v[k], base, kv, F, k)
    BY <1>5, <2>1, GrowStep
  <2> QED
    BY <1>1, <2>2
<1>6. n \in T
  <2>1. n \in 0..n
    BY <1>1
  <2> HIDE DEF T
  <2> QED
    BY <1>1, <1>4, <1>5, <2>1, UpTo
<1> QED
  BY <1>3, <1>6 DEF r

(* The concatenation of two sequences.                                     *)
Joins(r, p, q, F) ==
    /\ r \in Seq(F) /\ Len(r) = Len(p) + Len(q)
    /\ \A i \in 1..Len(p) : r[i] = p[i]
    /\ \A i \in 1..Len(q) : r[Len(p) + i] = q[i]

LEMMA Joined ==
    ASSUME NEW F, NEW p \in Seq(F), NEW q \in Seq(F)
    PROVE  Joins(p \o q, p, q, F)
  BY DEF Joins

(* Dynamic has every descriptor that may be open in the loop, once.        *)
LEMMA DynamicIs ==
    ASSUME ListsOk
    PROVE  /\ Dynamic \in Seq(TimersAll \cup ClientsAll)
           /\ Len(Dynamic) = Len(config.gpios_in) + Len(config.gpios_out)
                             + 2 * CLIENT_CONNECTIONS_MAX
           /\ \A fd \in TimersAll \cup ClientsAll : \E j \in 1..Len(Dynamic) : Dynamic[j] = fd
<1> DEFINE I == Len(config.gpios_in)
           O == Len(config.gpios_out)
           C == CLIENT_CONNECTIONS_MAX
           F == TimersAll \cup ClientsAll
           a == TimerFds("GPIO_IN_TIMER", config.gpios_in)
           b == TimerFds("GPIO_OUT_TIMER", config.gpios_out)
           c == ClientFds
<1>1. /\ I \in Nat /\ O \in Nat /\ C \in Nat
      /\ DOMAIN config.gpios_in = 1..I /\ DOMAIN config.gpios_out = 1..O
  BY SeqFacts, DaemonAssumption DEF ListsOk
<1>2. a \in Seq(F) /\ Len(a) = I /\ \A i \in 1..I : a[i] = <<"GPIO_IN_TIMER", i>>
  BY <1>1 DEF TimerFds, TimersAll
<1>3. b \in Seq(F) /\ Len(b) = O /\ \A i \in 1..O : b[i] = <<"GPIO_OUT_TIMER", i>>
  BY <1>1 DEF TimerFds, TimersAll
<1>4. /\ c \in Seq(F) /\ Len(c) = 2 * C
      /\ \A n \in 1..C : c[2 * n - 1] = <<"CLIENT", n>> /\ c[2 * n] = <<"CLIENT_TIMEOUT", n>>
  <2>1. \A i \in 1..(2 * C) : i % 2 = 1 => (i + 1) \div 2 \in 1..C
    BY <1>1
  <2>2. \A i \in 1..(2 * C) : i % 2 # 1 => i \div 2 \in 1..C
    BY <1>1
  <2>3. \A i \in 1..(2 * C) : c[i] \in F
    BY <2>1, <2>2 DEF ClientFds, ClientsAll
  <2>4. c \in [1..(2 * C) -> F]
    BY <2>3 DEF ClientFds
  <2>5. ASSUME NEW n \in 1..C
        PROVE  c[2 * n - 1] = <<"CLIENT", n>> /\ c[2 * n] = <<"CLIENT_TIMEOUT", n>>
    <3>1. /\ 2 * n - 1 \in 1..(2 * C) /\ 2 * n \in 1..(2 * C)
          /\ (2 * n - 1) % 2 = 1 /\ (2 * n) % 2 = 0
          /\ (2 * n - 1 + 1) \div 2 = n /\ (2 * n) \div 2 = n
      BY <1>1
    <3> QED
      BY <3>1 DEF ClientFds
  <2> HIDE DEF c, C, F
  <2>6. 2 * C \in Nat
    BY <1>1
  <2>7. c \in Seq(F) /\ Len(c) = 2 * C
    BY <2>4, <2>6
  <2> QED
    BY <2>5, <2>7
<1> DEFINE d == a \o b \o c
<1>5. Dynamic = d
  BY Zenon DEF Dynamic
<1> HIDE DEF a, b, c, F, I, O, C
<1> DEFINE ab == a \o b
<1>6. /\ ab \in Seq(F) /\ Len(ab) = I + O
      /\ \A i \in 1..I : ab[i] = a[i]
      /\ \A i \in 1..O : ab[I + i] = b[i]
  <2>1. a \in Seq(F) /\ b \in Seq(F) /\ Len(a) = I /\ Len(b) = O
    BY <1>2, <1>3
  <2>2. Joins(ab, a, b, F)
    BY <2>1, Joined
  <2> HIDE DEF ab
  <2> QED
    BY <2>1, <2>2 DEF Joins
<1> HIDE DEF ab
<1>7. /\ d \in Seq(F) /\ Len(d) = I + O + 2 * C
      /\ \A i \in 1..(I + O) : d[i] = ab[i]
      /\ \A i \in 1..(2 * C) : d[I + O + i] = c[i]
  <2>1. ab \in Seq(F) /\ c \in Seq(F) /\ Len(ab) = I + O /\ Len(c) = 2 * C /\ d = ab \o c
    BY <1>4, <1>6 DEF ab
  <2> HIDE DEF d
  <2>2. Joins(d, ab, c, F)
    BY <2>1, Joined
  <2> QED
    BY <2>1, <2>2 DEF Joins
<1> HIDE DEF d
<1>8. ASSUME NEW fd \in F PROVE \E j \in 1..Len(d) : d[j] = fd
  <2>1. ASSUME NEW i \in 1..I, fd = <<"GPIO_IN_TIMER", i>> PROVE \E j \in 1..Len(d) : d[j] = fd
    <3>1. i \in 1..(I + O) /\ i \in 1..Len(d)
      BY <1>1, <1>7
    <3>2. d[i] = fd
      BY <1>2, <1>6, <1>7, <2>1, <3>1
    <3> QED
      BY <3>1, <3>2
  <2>2. ASSUME NEW i \in 1..O, fd = <<"GPIO_OUT_TIMER", i>> PROVE \E j \in 1..Len(d) : d[j] = fd
    <3>1. I + i \in 1..(I + O) /\ I + i \in 1..Len(d)
      BY <1>1, <1>7
    <3>2. d[I + i] = fd
      BY <1>3, <1>6, <1>7, <2>2, <3>1
    <3> QED
      BY <3>1, <3>2
  <2>3. ASSUME NEW n \in 1..C, fd = <<"CLIENT", n>> PROVE \E j \in 1..Len(d) : d[j] = fd
    <3>1. 2 * n - 1 \in 1..(2 * C) /\ I + O + (2 * n - 1) \in 1..Len(d)
      BY <1>1, <1>7
    <3>2. d[I + O + (2 * n - 1)] = fd
      BY <1>4, <1>7, <2>3, <3>1
    <3> QED
      BY <3>1, <3>2
  <2>4. ASSUME NEW n \in 1..C, fd = <<"CLIENT_TIMEOUT", n>> PROVE \E j \in 1..Len(d) : d[j] = fd
    <3>1. 2 * n \in 1..(2 * C) /\ I + O + 2 * n \in 1..Len(d)
      BY <1>1, <1>7
    <3>2. d[I + O + 2 * n] = fd
      BY <1>4, <1>7, <2>4, <3>1
    <3> QED
      BY <3>1, <3>2
  <2> QED
    BY <1>1, <2>1, <2>2, <2>3, <2>4 DEF F, TimersAll, ClientsAll, I, O, C
<1> QED
  BY <1>5, <1>7, <1>8 DEF F, I, O, C

-----------------------------------------------------------------------------
(* The invariant.                                                          *)

(* At the start there is nothing.                                          *)
LEMMA InvInit == Init => DaemonInv
<1> SUFFICES ASSUME Init PROVE DaemonInv
  OBVIOUS
<1>1. /\ config.input_devices = <<>> /\ config.timer_definitions = <<>>
      /\ config.gpios_in = <<>> /\ config.gpios_out = <<>> /\ config.chip = ""
  BY DEF Init, config_new
<1>2. ListsOk
  <2>1. Fields \subseteq DOMAIN config
    BY DEF Init, config_new, Fields
  <2> QED
    BY <1>1, <2>1, EmptyList, Zenon DEF ListsOk, Init
<1>3. FilesOk
  <2>1. \A d : GpioList(config, d) = <<>>
    BY <1>1 DEF GpioList
  <2>2. DOMAIN <<>> = {}
    OBVIOUS
  <2>3. FilesRead(config, inst.gpio_dir)
    BY <1>1, <2>1, <2>2 DEF FilesRead
  <2> QED
    BY <2>3 DEF FilesOk
<1>4. LinesOk
  BY DEF LinesOk, DistinctLines, Init, Requested
<1>5. CountOk
  BY DEF CountOk, Init
<1>6. PollOk
  BY MaxFds DEF PollOk, Init
<1> QED
  BY <1>2, <1>3, <1>4, <1>5, <1>6 DEF DaemonInv

(* A step that leaves the configuration alone leaves what was read alone.  *)
LEMMA SameConfig ==
    ASSUME DaemonInv, config' = config, inst' = inst, pc \in Starting \cup {"loop"}
    PROVE  /\ ListsOk' /\ FilesOk'
           /\ Nodes' = Nodes /\ StaticFds' = StaticFds /\ TimersAll' = TimersAll
           /\ ClientsAll' = ClientsAll
           /\ InputsMax' = InputsMax /\ DevicesMax' = DevicesMax /\ TimersMax' = TimersMax
           /\ \A d : Gpios(d)' = Gpios(d)
<1>1. ListsOk'
  BY DEF DaemonInv, ListsOk
<1>2. FilesOk'
  BY DEF DaemonInv, FilesOk
<1>3. /\ Nodes' = Nodes /\ StaticFds' = StaticFds /\ TimersAll' = TimersAll
      /\ ClientsAll' = ClientsAll
  BY DEF Nodes, StaticFds, TimersAll, ClientsAll
<1>4. InputsMax' = InputsMax /\ DevicesMax' = DevicesMax /\ TimersMax' = TimersMax
  BY DEF InputsMax, DevicesMax, TimersMax
<1>5. \A d : Gpios(d)' = Gpios(d)
  BY DEF Gpios
<1> QED
  BY <1>1, <1>2, <1>3, <1>4, <1>5

(* get_config.                                                             *)
LEMMA GetConfigInv ==
    ASSUME DaemonInv, GetConfig
    PROVE  DaemonInv'
<1> DEFINE g == gpio_read_dir(inst.gpio_dir)
<1>1. /\ pc = "config" /\ config' = config_read(inst) /\ inst' = inst
      /\ \/ pc' = "chip" /\ at' = 1 /\ opened' = {Signal} /\ config'.status = "ok"
         \/ pc' \in {"crashed", "exited"} /\ at' = at /\ opened' = opened
      /\ UNCHANGED <<requests, pfd_len_init, timers, clients, poll_fds, update_pollfds>>
  BY DEF GetConfig, Goto
<1>2. /\ ReadOk(inst, config')
      /\ DirOk(g, inst.gpio_dir, Len(inst.gpio_dir))
  BY <1>1, ConfigRead DEF DaemonInv, ListsOk
<1> HIDE DEF g
<1>3. ListsOk'
  BY <1>1, <1>2 DEF DaemonInv, ListsOk, ReadOk
<1>4. FilesOk'
  <2> SUFFICES ASSUME config'.status = "ok" PROVE FilesRead(config', inst.gpio_dir)
    BY <1>1 DEF FilesOk, Starting
  <2>1. config'.gpios_in = g["in"] /\ config'.gpios_out = g["out"]
    BY <1>2 DEF ReadOk, g
  <2>2. \A d \in {"in", "out"} : GpioList(config', d) = g[d]
    BY <2>1 DEF GpioList
  <2>3. ASSUME NEW d \in {"in", "out"}, NEW i \in DOMAIN GpioList(config', d)
        PROVE  \E e \in Range(inst.gpio_dir) : ReadFrom(d, GpioList(config', d)[i], e)
    <3>1. i \in DOMAIN g[d] /\ GpioList(config', d)[i] = g[d][i]
      BY <2>2, <2>3
    <3> QED
      BY <1>2, <3>1 DEF DirOk
  <2>4. ASSUME NEW e \in Range(inst.gpio_dir), Readable(e),
               Len(config'.gpios_in) + Len(config'.gpios_out) # GPIOS_MAX
        PROVE  \E i \in DOMAIN GpioList(config', e.ext) : GpioList(config', e.ext)[i].id = e.num
    <3>1. PICK k \in 1..Len(inst.gpio_dir) : e = inst.gpio_dir[k]
      BY <2>4, InstallationsAssumption DEF DaemonInv, ListsOk, Range
    <3>2. ~g.full
      BY <1>2, <2>1, <2>4 DEF DirOk
    <3>3. \E i \in DOMAIN g[e.ext] : g[e.ext][i].id = e.num
      BY <1>2, <2>4, <3>1, <3>2 DEF DirOk
    <3>4. GpioList(config', e.ext) = g[e.ext]
      BY <2>2, <2>4 DEF Readable
    <3> QED
      BY <3>3, <3>4
  <2> QED
    BY <2>3, <2>4 DEF FilesRead
<1>5. /\ requests' = {} /\ opened' \subseteq {Signal} /\ poll_fds' = <<>> /\ pfd_len_init' = 0
      /\ timers' = {} /\ clients' = {} /\ update_pollfds' = TRUE /\ at' \in Nat \ {0}
  BY <1>1 DEF DaemonInv, CountOk, PollOk, Starting
<1>6. LinesOk'
  BY <1>1, <1>5 DEF LinesOk, DistinctLines, Requested
<1>7. CountOk'
  BY <1>1, <1>5 DEF CountOk
<1>8. PollOk'
  <2>1. pc' = "chip" => opened' = {Signal}
    BY <1>1
  <2>2. pc' \in {"chip", "crashed", "exited"}
    BY <1>1
  <2> QED
    BY <1>5, <2>1, <2>2, MaxFds DEF PollOk, StaticFds
<1> QED
  BY <1>3, <1>4, <1>6, <1>7, <1>8 DEF DaemonInv

(* gpio_open_chip.                                                         *)
LEMMA OpenChipInv ==
    ASSUME DaemonInv, OpenChip
    PROVE  DaemonInv'
<1>1. /\ pc = "chip" /\ at' \in {1, at} /\ inst' = inst
      /\ UNCHANGED <<requests, opened, pfd_len_init, timers, clients, poll_fds, update_pollfds>>
      /\ \/ pc' \in {"outputs", "clear"} /\ config' = config
         \/ pc' = "devices" /\ config.chip = ""
            /\ config' = [config EXCEPT !.gpios_in = <<>>, !.gpios_out = <<>>]
      /\ pc' = "devices" => at' = 1
  BY DEF OpenChip, Goto, Fail
<1>2. /\ requests' = {} /\ opened' \subseteq {Signal} /\ poll_fds' = <<>> /\ pfd_len_init' = 0
      /\ timers' = {} /\ clients' = {} /\ update_pollfds' = TRUE /\ at' \in Nat \ {0}
  <2>1. /\ pc = "chip" /\ at' \in {1, at}
        /\ UNCHANGED <<requests, opened, pfd_len_init, timers, clients, poll_fds, update_pollfds>>
    BY <1>1
  <2>2. at' \in Nat \ {0}
    BY <2>1 DEF DaemonInv, CountOk
  <2> QED
    BY <2>1, <2>2 DEF DaemonInv, CountOk, PollOk, Starting
<1>3. CASE pc' = "devices"
  <2>1. config' = [config EXCEPT !.gpios_in = <<>>, !.gpios_out = <<>>] /\ config.chip = ""
    BY <1>1, <1>3
  <2>2. /\ config'.gpios_in = <<>> /\ config'.gpios_out = <<>> /\ config'.chip = ""
        /\ config'.input_devices = config.input_devices /\ DOMAIN config' = DOMAIN config
        /\ config'.timer_definitions = config.timer_definitions
    BY <2>1 DEF DaemonInv, ListsOk, Fields
  <2>3. ListsOk'
    <3>1. IsSeq(config'.gpios_in) /\ IsSeq(config'.gpios_out)
      BY <2>2, EmptyList, Zenon
    <3> QED
      BY <1>1, <2>2, <3>1 DEF DaemonInv, ListsOk
  <2>4. FilesOk'
    <3>1. \A d : GpioList(config', d) = <<>>
      BY <2>2 DEF GpioList
    <3>2. DOMAIN <<>> = {}
      OBVIOUS
    <3>3. FilesRead(config', inst'.gpio_dir)
      BY <2>2, <3>1, <3>2 DEF FilesRead
    <3> QED
      BY <3>3 DEF FilesOk
  <2>5. LinesOk'
    <3>1. Nodes' = {}
      BY <2>2, EmptyList DEF Nodes
    <3> QED
      BY <1>2, <1>3, <3>1 DEF LinesOk, DistinctLines
  <2>6. CountOk'
    <3>1. Len(config'.gpios_in) = 0 /\ Len(poll_fds') = 0 /\ at' = 1
          /\ Len(config'.input_devices) \in Nat
      BY <1>1, <1>2, <1>3, <2>2, EmptyList, SeqFacts DEF DaemonInv, ListsOk
    <3> QED
      BY <1>3, <3>1 DEF CountOk, InputsMax
  <2>7. PollOk'
    BY <1>2, <1>3, MaxFds DEF PollOk, StaticFds
  <2> QED
    BY <2>3, <2>4, <2>5, <2>6, <2>7 DEF DaemonInv
<1>4. CASE pc' # "devices"
  <2>1. config' = config /\ pc' \in {"outputs", "clear"}
    BY <1>1, <1>4
  <2>2. ListsOk' /\ FilesOk'
    BY <1>1, <2>1, SameConfig DEF Starting
  <2>3. LinesOk'
    <3>1. pc' = "outputs" => at' = 1
      BY <1>1, <1>4 DEF OpenChip, Goto, Fail
    <3>2. {"out"} \X (1..(1 - 1)) = {}
      OBVIOUS
    <3> QED
      BY <1>2, <2>1, <3>1, <3>2 DEF LinesOk, DistinctLines, Requested
  <2>4. CountOk'
    BY <1>2, <2>1 DEF CountOk
  <2>5. PollOk'
    <3>1. pc' = "outputs" => opened' = {Signal}
      BY <1>1 DEF DaemonInv, PollOk
    <3> QED
      BY <1>2, <2>1, <3>1, MaxFds DEF PollOk, StaticFds
  <2> QED
    BY <2>2, <2>3, <2>4, <2>5 DEF DaemonInv
<1> QED
  BY <1>3, <1>4

(* A line that the kernel gives away is not held yet.                      *)
LEMMA RequestInv ==
    ASSUME DaemonInv, config' = config, NEW dir \in {"in", "out"}, RequestLine(dir)
    PROVE  /\ DistinctLines'
           /\ \/ /\ at' = at + 1 /\ pc' = pc /\ at <= Len(Gpios(dir))
                 /\ requests' = requests \cup {<<dir, at>>}
              \/ at' = at /\ pc' = "clear"
<1>1. /\ at <= Len(Gpios(dir))
      /\ \/ /\ at' = at + 1 /\ pc' = pc
            /\ requests' = requests \cup {<<dir, at>>} /\ Requestable(dir, Gpios(dir)[at])
         \/ /\ at' = at /\ pc' = "clear"
            /\ \/ requests' = requests \cup {<<dir, at>>} /\ Requestable(dir, Gpios(dir)[at])
               \/ requests' = requests
  BY DEF RequestLine, Fail
<1>2. Nodes' = Nodes /\ \A d : Gpios(d)' = Gpios(d)
  BY DEF Nodes, Gpios
<1>3. DistinctLines
  BY DEF DaemonInv, LinesOk
<1>4. DistinctLines'
  <2>1. CASE requests' = requests
    BY <1>2, <1>3, <2>1 DEF DistinctLines, Gpios
  <2>2. CASE requests' = requests \cup {<<dir, at>>} /\ Requestable(dir, Gpios(dir)[at])
    <3> DEFINE new == <<dir, at>>
               id(r) == Gpios(r[1])[r[2]].id
    <3>1. new \in Nodes
      <4>1. /\ Len(config.gpios_in) \in Nat /\ DOMAIN config.gpios_in = 1..Len(config.gpios_in)
            /\ Len(config.gpios_out) \in Nat /\ DOMAIN config.gpios_out = 1..Len(config.gpios_out)
        BY SeqFacts DEF DaemonInv, ListsOk
      <4>2. at \in Nat \ {0}
        BY DEF DaemonInv, CountOk
      <4> QED
        BY <1>1, <4>1, <4>2 DEF Nodes, Gpios
    <3>2. \A r \in requests : id(r) # id(new)
      BY <2>2 DEF Requestable, LineFree
    <3>3. \A r, s \in requests : r # s => id(r) # id(s)
      BY <1>3 DEF DistinctLines
    <3> HIDE DEF id
    <3>4. \A r, s \in requests' : r # s => id(r) # id(s)
      BY <2>2, <3>2, <3>3
    <3>5. \A r : id(r)' = id(r)
      BY <1>2 DEF id, Gpios
    <3>6. requests' \subseteq Nodes
      BY <1>3, <2>2, <3>1 DEF DistinctLines
    <3> USE DEF id
    <3>7. \A r, s \in requests' : r # s => Gpios(r[1])'[r[2]].id # Gpios(s[1])'[s[2]].id
      BY <1>2, <3>4
    <3> QED
      BY <1>2, <3>6, <3>7 DEF DistinctLines
  <2> QED
    BY <1>1, <2>1, <2>2
<1> QED
  BY <1>1, <1>4

(* gpio_set_outputs.                                                       *)
LEMMA SetOutputsInv ==
    ASSUME DaemonInv, SetOutputs
    PROVE  DaemonInv'
<1>1. /\ pc = "outputs" /\ config' = config /\ inst' = inst
      /\ UNCHANGED <<opened, pfd_len_init, timers, clients, poll_fds, update_pollfds>>
  BY DEF SetOutputs
<1>2. \/ RequestLine("out")
      \/ at > Len(config.gpios_out) /\ pc' = "inputs" /\ at' = 1 /\ requests' = requests
  BY DEF SetOutputs, Goto
<1>3. /\ ListsOk' /\ FilesOk' /\ Nodes' = Nodes /\ StaticFds' = StaticFds
      /\ TimersAll' = TimersAll /\ ClientsAll' = ClientsAll /\ \A d : Gpios(d)' = Gpios(d)
  BY <1>1, SameConfig DEF Starting
<1>4. /\ Len(config.gpios_out) \in Nat /\ DOMAIN config.gpios_out = 1..Len(config.gpios_out)
      /\ Len(config.gpios_in) \in Nat /\ at \in Nat \ {0}
  BY SeqFacts DEF DaemonInv, ListsOk, CountOk
<1>5. /\ {"out"} \X (1..(at - 1)) \subseteq requests /\ DistinctLines
      /\ poll_fds = <<>> /\ opened = {Signal}
  BY <1>1 DEF DaemonInv, LinesOk, CountOk, PollOk
<1>6. LinesOk' /\ at' \in Nat \ {0} /\ pc' \in {"outputs", "inputs", "clear"} /\ (pc' = "inputs" => at' = 1)
  <2>1. CASE RequestLine("out")
    <3>1. /\ DistinctLines'
          /\ \/ /\ at' = at + 1 /\ pc' = pc /\ at <= Len(Gpios("out"))
                /\ requests' = requests \cup {<<"out", at>>}
             \/ at' = at /\ pc' = "clear"
      BY <1>1, <2>1, RequestInv
    <3>2. CASE pc' = "clear"
      BY <1>1, <1>4, <3>1, <3>2 DEF LinesOk, Requested
    <3>3. CASE pc' = "outputs" /\ at' = at + 1 /\ requests' = requests \cup {<<"out", at>>}
      <4>1. {"out"} \X (1..(at' - 1)) \subseteq requests'
        BY <1>4, <1>5, <3>3
      <4> QED
        BY <1>4, <3>1, <3>3, <4>1 DEF LinesOk, Requested
    <3> QED
      BY <1>1, <3>1, <3>2, <3>3
  <2>2. CASE at > Len(config.gpios_out) /\ pc' = "inputs" /\ at' = 1 /\ requests' = requests
    <3>1. ({"out"} \X DOMAIN config.gpios_out) \cup ({"in"} \X (1..(at' - 1))) \subseteq requests'
      BY <1>4, <1>5, <2>2
    <3>2. DistinctLines'
      BY <1>3, <1>5, <2>2 DEF DistinctLines
    <3>3. ({"out"} \X DOMAIN config'.gpios_out) \cup ({"in"} \X (1..(at' - 1))) \subseteq requests'
      BY <1>1, <3>1
    <3> QED
      BY <2>2, <3>2, <3>3 DEF LinesOk, Requested
  <2> QED
    BY <1>2, <2>1, <2>2
<1>7. CountOk'
  <2>1. poll_fds' = <<>> /\ Len(poll_fds') = 0
    BY <1>1, <1>5
  <2>2. /\ pc' \in {"outputs", "inputs", "clear"} /\ at' \in Nat \ {0}
        /\ pc' = "inputs" => at' = 1
    BY <1>6
  <2>3. Len(config'.gpios_in) \in Nat
    BY <1>1, <1>4
  <2>4. CASE pc' = "inputs"
    BY <2>1, <2>2, <2>3, <2>4 DEF CountOk
  <2>5. CASE pc' = "outputs"
    BY <2>1, <2>2, <2>5 DEF CountOk
  <2>6. CASE pc' = "clear"
    BY <2>2, <2>6 DEF CountOk
  <2> QED
    BY <2>2, <2>4, <2>5, <2>6
<1>8. PollOk'
  <2>1. poll_fds' = <<>> /\ opened' = {Signal} /\ timers' = {} /\ clients' = {}
        /\ pfd_len_init' = 0 /\ update_pollfds' = TRUE
    BY <1>1, <1>5 DEF DaemonInv, PollOk, Starting
  <2> QED
    BY <1>6, <2>1, MaxFds DEF PollOk, StaticFds
<1> QED
  BY <1>3, <1>6, <1>7, <1>8 DEF DaemonInv

(* A descriptor that is opened while the daemon starts, and what adding it *)
(* does to the poll set.                                                   *)
LEMMA AddFd ==
    ASSUME NEW F, poll_fds \in Seq(F), Len(poll_fds) <= MAX_FDS, NEW fd \in F,
           poll_fds' = event_poll_fd_add(poll_fds, fd)
    PROVE  /\ poll_fds' \in Seq(F) /\ Len(poll_fds') <= MAX_FDS
           /\ Len(poll_fds) <= Len(poll_fds') /\ Len(poll_fds') <= Len(poll_fds) + 1
           /\ Polled \subseteq Polled'
           /\ \A i \in 1..Len(poll_fds) : poll_fds'[i] = poll_fds[i]
           /\ Len(poll_fds) < MAX_FDS =>
                 fd \in Polled' /\ Len(poll_fds') = Len(poll_fds) + 1
<1>1. Len(poll_fds) \in Nat /\ MAX_FDS \in Nat
  BY MaxFds
<1>2. CASE Len(poll_fds) = MAX_FDS
  <2>1. poll_fds' = poll_fds
    BY <1>2 DEF event_poll_fd_add
  <2> QED
    BY <1>1, <1>2, <2>1 DEF Polled
<1>3. CASE Len(poll_fds) # MAX_FDS
  <2>1. poll_fds' = Append(poll_fds, fd)
    BY <1>3 DEF event_poll_fd_add
  <2>2. /\ poll_fds' \in Seq(F) /\ Len(poll_fds') = Len(poll_fds) + 1
        /\ poll_fds'[Len(poll_fds) + 1] = fd
        /\ \A i \in 1..Len(poll_fds) : poll_fds'[i] = poll_fds[i]
    BY <2>1
  <2>3. DOMAIN poll_fds = 1..Len(poll_fds) /\ DOMAIN poll_fds' = 1..(Len(poll_fds) + 1)
    BY <1>1, <2>2
  <2>4. Polled \subseteq Polled' /\ fd \in Polled'
    BY <1>1, <2>2, <2>3 DEF Polled
  <2> QED
    BY <1>1, <1>3, <2>2, <2>4
<1> QED
  BY <1>2, <1>3

(* gpio_request_inputs.                                                    *)
LEMMA RequestInputsInv ==
    ASSUME DaemonInv, RequestInputs
    PROVE  DaemonInv'
<1> DEFINE F == StaticFds \cup TimersAll \cup ClientsAll
           fd == <<"GPIO", at>>
<1>1. /\ pc = "inputs" /\ config' = config /\ inst' = inst
      /\ UNCHANGED <<pfd_len_init, timers, clients, update_pollfds>>
  BY DEF RequestInputs
<1>2. \/ /\ RequestLine("in")
         /\ opened' = IF requests' # requests THEN opened \cup {fd} ELSE opened
         /\ poll_fds' = IF at' # at THEN event_poll_fd_add(poll_fds, fd) ELSE poll_fds
      \/ /\ at > Len(config.gpios_in) /\ pc' = "devices" /\ at' = 1
         /\ requests' = requests /\ opened' = opened /\ poll_fds' = poll_fds
  BY DEF RequestInputs, Goto
<1>3. /\ ListsOk' /\ FilesOk' /\ Nodes' = Nodes /\ F' = F /\ StaticFds' = StaticFds
      /\ TimersAll' = TimersAll /\ ClientsAll' = ClientsAll
  BY <1>1, SameConfig DEF Starting
<1>4. /\ Len(config.gpios_out) \in Nat /\ DOMAIN config.gpios_out = 1..Len(config.gpios_out)
      /\ Len(config.gpios_in) \in Nat /\ DOMAIN config.gpios_in = 1..Len(config.gpios_in)
      /\ Len(config.input_devices) \in Nat
  BY SeqFacts DEF DaemonInv, ListsOk
<1>5. /\ at \in Nat \ {0} /\ at <= Len(config.gpios_in) + 1 /\ Len(poll_fds) <= at - 1
      /\ ({"out"} \X DOMAIN config.gpios_out) \cup ({"in"} \X (1..(at - 1))) \subseteq requests
      /\ DistinctLines
  BY <1>1 DEF DaemonInv, LinesOk, CountOk
<1>6. /\ timers = {} /\ clients = {} /\ pfd_len_init = 0 /\ update_pollfds = TRUE
      /\ opened \subseteq StaticFds /\ poll_fds \in Seq(F) /\ Len(poll_fds) <= MAX_FDS
      /\ opened \ {Signal} \subseteq Polled \/ Len(poll_fds) = MAX_FDS
  BY <1>1 DEF DaemonInv, PollOk, Starting
<1>7. CASE RequestLine("in")
  <2>1. /\ DistinctLines'
        /\ \/ /\ at' = at + 1 /\ pc' = pc /\ at <= Len(Gpios("in"))
              /\ requests' = requests \cup {<<"in", at>>}
           \/ at' = at /\ pc' = "clear"
    BY <1>1, <1>7, RequestInv
  <2>2. at <= Len(config.gpios_in)
    BY <1>7 DEF RequestLine, Gpios
  <2>3. fd \in StaticFds
    BY <1>4, <1>5, <2>2 DEF StaticFds
  <2>4. opened' \in {opened, opened \cup {fd}} /\ (at' = at => poll_fds' = poll_fds)
        /\ (at' # at => poll_fds' = event_poll_fd_add(poll_fds, fd))
    BY <1>2, <1>5, <2>2
  <2>5. CASE at' = at /\ pc' = "clear"
    <3>1. LinesOk'
      BY <2>1, <2>5 DEF LinesOk, Requested
    <3>2. CountOk'
      BY <1>5, <2>5 DEF CountOk
    <3>3. opened' \subseteq StaticFds /\ poll_fds' = poll_fds
      BY <1>6, <2>3, <2>4, <2>5
    <3>4. PollOk'
      BY <1>1, <1>3, <1>6, <2>5, <3>3 DEF PollOk, Starting
    <3> QED
      BY <1>3, <3>1, <3>2, <3>4 DEF DaemonInv
  <2>6. CASE /\ at' = at + 1 /\ pc' = "inputs" /\ requests' = requests \cup {<<"in", at>>}
    <3>1. LinesOk'
      <4>1. ({"out"} \X DOMAIN config'.gpios_out) \cup ({"in"} \X (1..(at' - 1))) \subseteq requests'
        BY <1>1, <1>5, <2>6
      <4> QED
        BY <2>1, <2>6, <4>1 DEF LinesOk, Requested
    <3>2. poll_fds' = event_poll_fd_add(poll_fds, fd)
      BY <1>5, <2>4, <2>6
    <3>3. /\ poll_fds' \in Seq(F) /\ Len(poll_fds') <= MAX_FDS
          /\ Len(poll_fds) <= Len(poll_fds') /\ Len(poll_fds') <= Len(poll_fds) + 1
          /\ Polled \subseteq Polled'
          /\ Len(poll_fds) < MAX_FDS => fd \in Polled'
      <4> HIDE DEF F, fd
      <4>1. fd \in F
        BY <2>3 DEF F
      <4> QED
        BY <1>6, <3>2, <4>1, AddFd
    <3>4. CountOk'
      <4>1. Len(poll_fds') \in Nat /\ Len(poll_fds) \in Nat
        BY <1>6, <3>3
      <4>2. at' <= Len(config'.gpios_in) + 1 /\ Len(poll_fds') <= at' - 1 /\ at' \in Nat \ {0}
        BY <1>1, <1>4, <1>5, <2>2, <2>6, <3>3, <4>1
      <4> QED
        BY <2>6, <4>2 DEF CountOk
    <3>5. opened' \ {Signal} \subseteq Polled' \/ Len(poll_fds') = MAX_FDS
      <4>1. Len(poll_fds') \in Nat /\ Len(poll_fds) \in Nat /\ MAX_FDS \in Nat
        BY <1>6, <3>3, MaxFds
      <4> QED
        BY <1>6, <2>4, <3>3, <4>1
    <3>6. PollOk'
      <4>1. opened' \subseteq StaticFds' /\ poll_fds' \in Seq(F') /\ pfd_len_init' = 0
            /\ timers' = {} /\ clients' = {} /\ update_pollfds' = TRUE
        BY <1>1, <1>3, <1>6, <2>3, <2>4, <3>3
      <4> QED
        BY <2>6, <3>3, <3>5, <4>1 DEF PollOk
    <3> QED
      BY <1>3, <3>1, <3>4, <3>6 DEF DaemonInv
  <2> QED
    BY <1>1, <2>1, <2>5, <2>6
<1>8. CASE /\ at > Len(config.gpios_in) /\ pc' = "devices" /\ at' = 1
           /\ requests' = requests /\ opened' = opened /\ poll_fds' = poll_fds
  <2>1. LinesOk'
    <3>1. Nodes \subseteq requests
      BY <1>4, <1>5, <1>8 DEF Nodes
    <3>2. DistinctLines'
      BY <1>1, <1>3, <1>5, <1>8 DEF DistinctLines, Gpios
    <3> QED
      BY <1>3, <1>8, <3>1, <3>2 DEF LinesOk
  <2>2. CountOk'
    <3>1. Len(poll_fds') <= Len(config'.gpios_in) /\ at' <= Len(config'.input_devices) + 1
      <4>1. Len(poll_fds) \in Nat
        BY <1>6
      <4> QED
        BY <1>1, <1>4, <1>5, <1>8, <4>1
    <3>2. Len(poll_fds') \in Nat /\ Len(config'.gpios_in) \in Nat
      BY <1>1, <1>4, <1>6, <1>8
    <3> QED
      BY <1>8, <3>1, <3>2 DEF CountOk, InputsMax
  <2>3. PollOk'
    <3>1. Polled' = Polled
      BY <1>8 DEF Polled
    <3> QED
      BY <1>1, <1>3, <1>6, <1>8, <3>1 DEF PollOk
  <2> QED
    BY <1>3, <2>1, <2>2, <2>3 DEF DaemonInv
<1> QED
  BY <1>2, <1>7, <1>8


(* Whatever ends the daemon closes descriptors and gives up lines.         *)
LEMMA EndInv ==
    ASSUME DaemonInv, pc' \in {"clear", "exited"},
           UNCHANGED <<config, inst, at, update_pollfds>>,
           requests' \subseteq requests, timers' \subseteq timers, clients' \subseteq clients,
           opened' \subseteq StaticFds,
           poll_fds' \in Seq(StaticFds \cup TimersAll \cup ClientsAll),
           Len(poll_fds') <= MAX_FDS, pfd_len_init' \in 0..Len(poll_fds')
    PROVE  DaemonInv'
<1>1. ListsOk'
  BY DEF DaemonInv, ListsOk
<1>2. FilesOk'
  BY DEF FilesOk, Starting
<1>3. /\ Nodes' = Nodes /\ StaticFds' = StaticFds /\ TimersAll' = TimersAll
      /\ ClientsAll' = ClientsAll /\ \A d : Gpios(d)' = Gpios(d)
  BY DEF Nodes, StaticFds, TimersAll, ClientsAll, Gpios
<1>4. LinesOk'
  <2>1. DistinctLines
    BY DEF DaemonInv, LinesOk
  <2>2. requests' \subseteq Nodes
    BY <2>1 DEF DistinctLines
  <2>3. \A r, s \in requests' : r # s => Gpios(r[1])'[r[2]].id # Gpios(s[1])'[s[2]].id
    BY <1>3, <2>1 DEF DistinctLines
  <2>4. DistinctLines'
    BY <1>3, <2>2, <2>3 DEF DistinctLines
  <2> QED
    BY <2>4 DEF LinesOk, Requested
<1>5. CountOk'
  BY DEF DaemonInv, CountOk
<1>6. PollOk'
  <2>1. /\ timers \subseteq TimersAll /\ clients \subseteq ClientsAll
        /\ update_pollfds \in BOOLEAN
    BY DEF DaemonInv, PollOk
  <2>2. /\ timers' \subseteq TimersAll' /\ clients' \subseteq ClientsAll'
        /\ opened' \subseteq StaticFds'
        /\ poll_fds' \in Seq(StaticFds' \cup TimersAll' \cup ClientsAll')
        /\ update_pollfds' \in BOOLEAN
    BY <1>3, <2>1
  <2>3. MAX_FDS' = MAX_FDS
    BY DEF MAX_FDS
  <2> QED
    BY <2>2, <2>3 DEF PollOk, Starting
<1> QED
  BY <1>1, <1>2, <1>4, <1>5, <1>6 DEF DaemonInv

(* The start-up after the lines have been requested, and the loop.         *)
LEMMA RunInv ==
    ASSUME DaemonInv, pc \in Requested, pc' \in Requested, UNCHANGED <<config, inst, requests>>
    PROVE  /\ ListsOk' /\ FilesOk' /\ LinesOk'
           /\ StaticFds' = StaticFds /\ TimersAll' = TimersAll /\ ClientsAll' = ClientsAll
           /\ InputsMax' = InputsMax /\ DevicesMax' = DevicesMax /\ TimersMax' = TimersMax
           /\ InputsMax \in Nat /\ DevicesMax \in Nat /\ TimersMax \in Nat
           /\ Len(config.gpios_in) \in Nat /\ Len(config.gpios_out) \in Nat
           /\ Len(config.input_devices) \in Nat /\ Len(config.timer_definitions) \in Nat
           /\ Len(poll_fds) \in Nat /\ MAX_FDS \in Nat
<1>1. pc \in Starting \cup {"loop"}
  BY DEF Requested, Starting
<1>2. /\ ListsOk' /\ FilesOk'
      /\ Nodes' = Nodes /\ StaticFds' = StaticFds /\ TimersAll' = TimersAll
      /\ ClientsAll' = ClientsAll
      /\ InputsMax' = InputsMax /\ DevicesMax' = DevicesMax /\ TimersMax' = TimersMax
      /\ \A d : Gpios(d)' = Gpios(d)
  BY <1>1, SameConfig
<1>3. LinesOk'
  <2>1. DistinctLines /\ Nodes \subseteq requests
    BY DEF DaemonInv, LinesOk
  <2>2. DistinctLines'
    BY <1>2, <2>1 DEF DistinctLines
  <2> QED
    BY <1>2, <2>1, <2>2 DEF LinesOk, Requested
<1>4. /\ Len(config.gpios_in) \in Nat /\ Len(config.gpios_out) \in Nat
      /\ Len(config.input_devices) \in Nat /\ Len(config.timer_definitions) \in Nat
  BY SeqFacts DEF DaemonInv, ListsOk
<1>5. InputsMax \in Nat /\ DevicesMax \in Nat /\ TimersMax \in Nat
  <2>1. InputsMax \in Nat
    BY <1>4 DEF InputsMax
  <2>2. DevicesMax \in Nat
    BY <1>4, <2>1 DEF DevicesMax
  <2>3. TimersMax \in Nat
    BY <1>4, <2>2 DEF TimersMax
  <2> QED
    BY <2>1, <2>2, <2>3
<1>6. Len(poll_fds) \in Nat /\ MAX_FDS \in Nat
  BY MaxFds DEF DaemonInv, PollOk
<1> QED
  BY <1>2, <1>3, <1>4, <1>5, <1>6

(* A descriptor that is opened and added is watched, or the set is full.   *)
LEMMA AddOpened ==
    ASSUME PollOk, opened \ {Signal} \subseteq Polled \/ Len(poll_fds) = MAX_FDS,
           NEW fd \in StaticFds, poll_fds' = event_poll_fd_add(poll_fds, fd),
           opened' = opened \cup {fd}
    PROVE  /\ opened' \subseteq StaticFds
           /\ poll_fds' \in Seq(StaticFds \cup TimersAll \cup ClientsAll)
           /\ Len(poll_fds') <= MAX_FDS /\ Len(poll_fds') <= Len(poll_fds) + 1
           /\ Len(poll_fds) <= Len(poll_fds') /\ Len(poll_fds') \in Nat
           /\ opened' \ {Signal} \subseteq Polled' \/ Len(poll_fds') = MAX_FDS
           /\ Len(poll_fds) < MAX_FDS /\ opened \subseteq Polled => opened' \subseteq Polled'
           /\ \A i \in 1..Len(poll_fds) : poll_fds'[i] = poll_fds[i]
<1> DEFINE F == StaticFds \cup TimersAll \cup ClientsAll
<1>1. poll_fds \in Seq(F) /\ Len(poll_fds) <= MAX_FDS /\ fd \in F /\ opened \subseteq StaticFds
  BY DEF PollOk
<1> HIDE DEF F
<1>2. /\ poll_fds' \in Seq(F) /\ Len(poll_fds') <= MAX_FDS
      /\ Len(poll_fds) <= Len(poll_fds') /\ Len(poll_fds') <= Len(poll_fds) + 1
      /\ Polled \subseteq Polled'
      /\ \A i \in 1..Len(poll_fds) : poll_fds'[i] = poll_fds[i]
      /\ Len(poll_fds) < MAX_FDS => fd \in Polled'
  BY <1>1, AddFd
<1>3. Len(poll_fds') \in Nat /\ Len(poll_fds) \in Nat /\ MAX_FDS \in Nat
  BY <1>1, <1>2, MaxFds
<1>4. opened' \ {Signal} \subseteq Polled' \/ Len(poll_fds') = MAX_FDS
  BY <1>1, <1>2, <1>3
<1>5. Len(poll_fds) < MAX_FDS /\ opened \subseteq Polled => opened' \subseteq Polled'
  BY <1>2
<1> QED
  BY <1>1, <1>2, <1>3, <1>4, <1>5 DEF F

(* input_device_open.                                                      *)
LEMMA OpenDevicesInv ==
    ASSUME DaemonInv, OpenDevices
    PROVE  DaemonInv'
<1> DEFINE fd == <<"INPUT", at>>
<1>1. /\ pc = "devices" /\ pc' \in {"devices", "timers"}
      /\ UNCHANGED <<config, inst, requests, pfd_len_init, timers, clients, update_pollfds>>
      /\ \/ /\ at <= Len(config.input_devices) /\ at' = at + 1 /\ pc' = pc
            /\ \/ opened' = opened \cup {fd} /\ poll_fds' = event_poll_fd_add(poll_fds, fd)
               \/ opened' = opened /\ poll_fds' = poll_fds
         \/ /\ at > Len(config.input_devices) /\ pc' = "timers" /\ at' = 1
            /\ opened' = opened /\ poll_fds' = poll_fds
  BY DEF OpenDevices, Goto
<1>2. /\ ListsOk' /\ FilesOk' /\ LinesOk'
      /\ StaticFds' = StaticFds /\ TimersAll' = TimersAll /\ ClientsAll' = ClientsAll
      /\ InputsMax' = InputsMax /\ DevicesMax' = DevicesMax
      /\ InputsMax \in Nat /\ Len(config.input_devices) \in Nat
      /\ Len(config.timer_definitions) \in Nat /\ Len(poll_fds) \in Nat
  BY <1>1, RunInv DEF Requested
<1>3. /\ at \in Nat \ {0} /\ at <= Len(config.input_devices) + 1
      /\ Len(poll_fds) <= InputsMax + at - 1
  BY <1>1 DEF DaemonInv, CountOk
<1>4. PollOk /\ (opened \ {Signal} \subseteq Polled \/ Len(poll_fds) = MAX_FDS)
  BY <1>1 DEF DaemonInv, PollOk
<1>5. /\ opened' \subseteq StaticFds
      /\ poll_fds' \in Seq(StaticFds \cup TimersAll \cup ClientsAll)
      /\ Len(poll_fds') <= MAX_FDS /\ Len(poll_fds') \in Nat
      /\ at' # at + 1 => Len(poll_fds') = Len(poll_fds)
      /\ Len(poll_fds') <= Len(poll_fds) + 1
      /\ opened' \ {Signal} \subseteq Polled' \/ Len(poll_fds') = MAX_FDS
  <2>1. CASE at' = at + 1 /\ opened' = opened \cup {fd} /\ poll_fds' = event_poll_fd_add(poll_fds, fd)
    <3>1. fd \in StaticFds
      BY <1>3 DEF StaticFds
    <3> HIDE DEF fd
    <3> QED
      BY <1>4, <2>1, <3>1, AddOpened
  <2>2. CASE opened' = opened /\ poll_fds' = poll_fds
    <3>1. Polled' = Polled
      BY <2>2 DEF Polled
    <3> QED
      BY <1>2, <1>4, <2>2, <3>1 DEF PollOk
  <2> QED
    BY <1>1, <2>1, <2>2
<1>6. CountOk'
  <2>1. CASE pc' = "devices"
    <3>1. at' = at + 1 /\ at <= Len(config.input_devices)
      BY <1>1, <2>1
    <3>2. /\ at' \in Nat \ {0} /\ at' <= Len(config'.input_devices) + 1
          /\ Len(poll_fds') <= InputsMax' + at' - 1
      BY <1>1, <1>2, <1>3, <1>5, <3>1
    <3> QED
      BY <2>1, <3>2 DEF CountOk
  <2>2. CASE pc' = "timers"
    <3>1. at' = 1 /\ at > Len(config.input_devices) /\ poll_fds' = poll_fds
      BY <1>1, <2>2
    <3>2. DevicesMax = InputsMax + Len(config.input_devices)
      BY DEF DevicesMax
    <3>3. /\ at' \in Nat \ {0} /\ at' <= Len(config'.timer_definitions) + 1
          /\ Len(poll_fds') <= DevicesMax' + at' - 1
      BY <1>1, <1>2, <1>3, <3>1, <3>2
    <3> QED
      BY <2>2, <3>3 DEF CountOk
  <2> QED
    BY <1>1, <2>1, <2>2
<1>7. PollOk'
  <2>1. /\ timers' = {} /\ clients' = {} /\ pfd_len_init' = 0 /\ update_pollfds' = TRUE
    BY <1>1 DEF DaemonInv, PollOk, Starting
  <2>2. opened' \subseteq StaticFds' /\ poll_fds' \in Seq(StaticFds' \cup TimersAll' \cup ClientsAll')
        /\ pfd_len_init' \in 0..Len(poll_fds')
    BY <1>2, <1>5, <2>1
  <2> QED
    BY <1>1, <1>5, <2>1, <2>2 DEF PollOk
<1> QED
  BY <1>2, <1>6, <1>7 DEF DaemonInv

(* timer_ev_open.                                                          *)
LEMMA OpenTimersInv ==
    ASSUME DaemonInv, OpenTimers
    PROVE  DaemonInv'
<1> DEFINE fd == <<"TIMER_EV", at>>
<1>1. /\ pc = "timers"
      /\ UNCHANGED <<config, inst, requests, pfd_len_init, timers, clients, update_pollfds>>
      /\ \/ /\ at <= Len(config.timer_definitions) /\ at' = at + 1 /\ pc' = "timers"
            /\ opened' = opened \cup {fd} /\ poll_fds' = event_poll_fd_add(poll_fds, fd)
         \/ pc' = "clear" /\ at' = at /\ opened' = opened /\ poll_fds' = poll_fds
         \/ /\ at > Len(config.timer_definitions) /\ pc' = "signal" /\ at' = 1
            /\ opened' = opened /\ poll_fds' = poll_fds
  BY DEF OpenTimers, Goto, Fail
<1>2. /\ at \in Nat \ {0} /\ at <= Len(config.timer_definitions) + 1
      /\ Len(poll_fds) <= DevicesMax + at - 1
  BY <1>1 DEF DaemonInv, CountOk
<1>3. PollOk /\ (opened \ {Signal} \subseteq Polled \/ Len(poll_fds) = MAX_FDS)
      /\ timers = {} /\ clients = {} /\ pfd_len_init = 0 /\ update_pollfds = TRUE
  BY <1>1 DEF DaemonInv, PollOk, Starting
<1>4. CASE pc' = "clear"
  <2>1. at' = at /\ opened' = opened /\ poll_fds' = poll_fds
    BY <1>1, <1>4
  <2>2. /\ opened' \subseteq StaticFds
        /\ poll_fds' \in Seq(StaticFds \cup TimersAll \cup ClientsAll)
        /\ Len(poll_fds') <= MAX_FDS /\ pfd_len_init' \in 0..Len(poll_fds')
    BY <1>1, <1>3, <2>1 DEF PollOk
  <2> QED
    BY <1>1, <1>4, <2>1, <2>2, EndInv
<1>5. CASE pc' \in {"timers", "signal"}
  <2>1. /\ ListsOk' /\ FilesOk' /\ LinesOk'
        /\ StaticFds' = StaticFds /\ TimersAll' = TimersAll /\ ClientsAll' = ClientsAll
        /\ DevicesMax' = DevicesMax /\ TimersMax' = TimersMax
        /\ DevicesMax \in Nat /\ Len(config.timer_definitions) \in Nat /\ Len(poll_fds) \in Nat
    BY <1>1, <1>5, RunInv DEF Requested
  <2>2. /\ opened' \subseteq StaticFds
        /\ poll_fds' \in Seq(StaticFds \cup TimersAll \cup ClientsAll)
        /\ Len(poll_fds') <= MAX_FDS /\ Len(poll_fds') \in Nat
        /\ Len(poll_fds') <= Len(poll_fds) + 1
        /\ opened' \ {Signal} \subseteq Polled' \/ Len(poll_fds') = MAX_FDS
    <3>1. CASE opened' = opened \cup {fd} /\ poll_fds' = event_poll_fd_add(poll_fds, fd)
      <4>1. fd \in StaticFds
        BY <1>2 DEF StaticFds
      <4> HIDE DEF fd
      <4> QED
        BY <1>3, <3>1, <4>1, AddOpened
    <3>2. CASE opened' = opened /\ poll_fds' = poll_fds
      <4>1. Polled' = Polled
        BY <3>2 DEF Polled
      <4> QED
        BY <1>3, <2>1, <3>2, <4>1 DEF PollOk
    <3> QED
      BY <1>1, <3>1, <3>2
  <2>3. CountOk'
    <3>1. CASE pc' = "timers"
      <4>1. at' = at + 1 /\ at <= Len(config.timer_definitions)
        BY <1>1, <3>1
      <4>2. /\ at' \in Nat \ {0} /\ at' <= Len(config'.timer_definitions) + 1
            /\ Len(poll_fds') <= DevicesMax' + at' - 1
        BY <1>1, <1>2, <2>1, <2>2, <4>1
      <4> QED
        BY <3>1, <4>2 DEF CountOk
    <3>2. CASE pc' = "signal"
      <4>1. at' = 1 /\ at > Len(config.timer_definitions) /\ poll_fds' = poll_fds
        BY <1>1, <3>2
      <4>2. TimersMax = DevicesMax + Len(config.timer_definitions)
        BY DEF TimersMax
      <4>3. at' \in Nat \ {0} /\ Len(poll_fds') <= TimersMax'
        BY <1>2, <2>1, <4>1, <4>2
      <4> QED
        BY <3>2, <4>3 DEF CountOk
    <3> QED
      BY <1>5, <3>1, <3>2
  <2>4. PollOk'
    <3>1. /\ timers' = {} /\ clients' = {} /\ pfd_len_init' = 0 /\ update_pollfds' = TRUE
          /\ opened' \subseteq StaticFds'
          /\ poll_fds' \in Seq(StaticFds' \cup TimersAll' \cup ClientsAll')
          /\ pfd_len_init' \in 0..Len(poll_fds')
      BY <1>1, <1>3, <2>1, <2>2
    <3> QED
      BY <1>5, <2>2, <3>1 DEF PollOk
  <2> QED
    BY <2>1, <2>3, <2>4 DEF DaemonInv
<1> QED
  BY <1>1, <1>4, <1>5

(* The descriptors main adds by itself: the set has one descriptor more,   *)
(* or the daemon ends.                                                     *)
LEMMA MainAdds ==
    ASSUME DaemonInv, NEW fd \in StaticFds, NEW next, AddOrFail(fd, next),
           \/ pc = "signal" /\ next = "lua" /\ fd = Signal
           \/ pc = "lua" /\ next = "socket"
           \/ pc = "socket" /\ next = "httpd",
           opened' \subseteq opened \cup {fd},
           UNCHANGED <<config, inst, requests, at, pfd_len_init, timers, clients, update_pollfds>>
    PROVE  DaemonInv'
<1> DEFINE F == StaticFds \cup TimersAll \cup ClientsAll
<1>1. /\ poll_fds' = event_poll_fd_add(poll_fds, fd)
      /\ Len(poll_fds) = MAX_FDS => pc' = "clear"
      /\ Len(poll_fds) # MAX_FDS => pc' = next
  BY DEF AddOrFail, Full, Fail
<1>2. /\ PollOk /\ timers = {} /\ clients = {} /\ pfd_len_init = 0 /\ update_pollfds = TRUE
      /\ opened \subseteq StaticFds
      /\ poll_fds \in Seq(F) /\ Len(poll_fds) <= MAX_FDS
  BY DEF DaemonInv, PollOk, Starting
<1>3. Len(poll_fds) # MAX_FDS => opened \ {fd} \subseteq Polled
  <2>1. CASE pc = "signal" /\ fd = Signal
    BY <1>2, <2>1 DEF PollOk
  <2>2. CASE pc \in {"lua", "socket"}
    BY <1>2, <2>2 DEF PollOk
  <2> QED
    BY <2>1, <2>2
<1>4. /\ poll_fds' \in Seq(F) /\ Len(poll_fds') <= MAX_FDS
      /\ Len(poll_fds') <= Len(poll_fds) + 1
      /\ Polled \subseteq Polled' /\ (Len(poll_fds) < MAX_FDS => fd \in Polled')
  <2>1. fd \in F
    OBVIOUS
  <2> HIDE DEF F
  <2> QED
    BY <1>1, <1>2, <2>1, AddFd
<1>5. /\ Len(poll_fds') \in Nat /\ Len(poll_fds) \in Nat /\ MAX_FDS \in Nat
      /\ pfd_len_init' \in 0..Len(poll_fds') /\ opened' \subseteq StaticFds
  <2>1. Len(poll_fds') \in Nat /\ Len(poll_fds) \in Nat /\ MAX_FDS \in Nat
    BY <1>2, <1>4, MaxFds
  <2> QED
    BY <1>2, <2>1
<1>6. CASE Len(poll_fds) = MAX_FDS
  <2>1. pc' = "clear"
    BY <1>1, <1>6
  <2> QED
    BY <1>4, <1>5, <2>1, EndInv
<1>7. CASE Len(poll_fds) # MAX_FDS
  <2>1. pc' = next /\ pc \in Requested /\ pc' \in Requested
    BY <1>1, <1>7 DEF Requested
  <2>2. /\ ListsOk' /\ FilesOk' /\ LinesOk'
        /\ StaticFds' = StaticFds /\ TimersAll' = TimersAll /\ ClientsAll' = ClientsAll
        /\ TimersMax' = TimersMax /\ TimersMax \in Nat
    BY <2>1, RunInv
  <2>3. opened' \subseteq Polled'
    BY <1>2, <1>3, <1>4, <1>5, <1>7
  <2>4. CountOk'
    <3>1. at' \in Nat \ {0}
      BY DEF DaemonInv, CountOk
    <3>2. CASE pc = "signal" /\ pc' = "lua"
      <4>1. Len(poll_fds) <= TimersMax
        BY <3>2 DEF DaemonInv, CountOk
      <4>2. Len(poll_fds') <= TimersMax' + 1
        BY <1>4, <1>5, <2>2, <4>1
      <4> QED
        BY <3>1, <3>2, <4>2 DEF CountOk
    <3>3. CASE pc = "lua" /\ pc' = "socket"
      <4>1. Len(poll_fds) <= TimersMax + 1
        BY <3>3 DEF DaemonInv, CountOk
      <4>2. Len(poll_fds') <= TimersMax' + 2
        BY <1>4, <1>5, <2>2, <4>1
      <4> QED
        BY <3>1, <3>3, <4>2 DEF CountOk
    <3>4. CASE pc = "socket" /\ pc' = "httpd"
      <4>1. Len(poll_fds) <= TimersMax + 2
        BY <3>4 DEF DaemonInv, CountOk
      <4>2. Len(poll_fds') <= TimersMax' + 3
        BY <1>4, <1>5, <2>2, <4>1
      <4> QED
        BY <3>1, <3>4, <4>2 DEF CountOk
    <3> QED
      BY <2>1, <3>2, <3>3, <3>4
  <2>5. PollOk'
    <3>1. /\ timers' = {} /\ clients' = {} /\ pfd_len_init' = 0 /\ update_pollfds' = TRUE
          /\ opened' \subseteq StaticFds'
          /\ poll_fds' \in Seq(StaticFds' \cup TimersAll' \cup ClientsAll')
      BY <1>2, <1>4, <1>5, <2>2
    <3>2. pc' \in {"lua", "socket", "httpd"}
      BY <2>1
    <3> QED
      BY <1>4, <1>5, <2>3, <3>1, <3>2 DEF PollOk
  <2> QED
    BY <2>2, <2>4, <2>5 DEF DaemonInv
<1> QED
  BY <1>6, <1>7

LEMMA AddSignalInv ==
    ASSUME DaemonInv, AddSignal
    PROVE  DaemonInv'
<1>1. Signal \in StaticFds
  BY DEF StaticFds
<1>2. /\ pc = "signal" /\ AddOrFail(Signal, "lua") /\ opened' = opened
      /\ UNCHANGED <<config, inst, requests, at, pfd_len_init, timers, clients, update_pollfds>>
  BY DEF AddSignal, started
<1> QED
  BY <1>1, <1>2, MainAdds

(* A start-up function of main that fails.                                 *)
LEMMA FailInv ==
    ASSUME DaemonInv, pc' = "clear", opened' = opened, poll_fds' = poll_fds,
           UNCHANGED <<config, inst, requests, at, pfd_len_init, timers, clients, update_pollfds>>
    PROVE  DaemonInv'
<1>1. /\ opened' \subseteq StaticFds
      /\ poll_fds' \in Seq(StaticFds \cup TimersAll \cup ClientsAll)
      /\ Len(poll_fds') <= MAX_FDS /\ pfd_len_init' \in 0..Len(poll_fds')
  BY DEF DaemonInv, PollOk
<1> QED
  BY <1>1, EndInv

LEMMA StartLuaInv ==
    ASSUME DaemonInv, StartLua
    PROVE  DaemonInv'
<1>1. LuaAsync \in StaticFds
  BY DEF StaticFds
<1>2. /\ pc = "lua"
      /\ UNCHANGED <<config, inst, requests, at, pfd_len_init, timers, clients, update_pollfds>>
      /\ \/ AddOrFail(LuaAsync, "socket") /\ opened' = opened \cup {LuaAsync}
         \/ pc' = "clear" /\ opened' = opened /\ poll_fds' = poll_fds
  BY DEF StartLua, Fail
<1> QED
  BY <1>1, <1>2, MainAdds, FailInv

LEMMA CreateSocketInv ==
    ASSUME DaemonInv, CreateSocket
    PROVE  DaemonInv'
<1>1. Connection \in StaticFds
  BY DEF StaticFds
<1>2. /\ pc = "socket"
      /\ UNCHANGED <<config, inst, requests, at, pfd_len_init, timers, clients, update_pollfds>>
      /\ \/ AddOrFail(Connection, "httpd") /\ opened' = opened \cup {Connection}
         \/ pc' = "clear" /\ opened' = opened /\ poll_fds' = poll_fds
  BY DEF CreateSocket, Fail
<1> QED
  BY <1>1, <1>2, MainAdds, FailInv

(* The descriptor of the web server may find the set full.                 *)
LEMMA StartHttpdInv ==
    ASSUME DaemonInv, StartHttpd
    PROVE  DaemonInv'
<1>1. /\ pc = "httpd"
      /\ UNCHANGED <<config, inst, requests, at, timers, clients, update_pollfds>>
      /\ \/ /\ opened' = opened \cup {Httpd} /\ poll_fds' = event_poll_fd_add(poll_fds, Httpd)
            /\ pfd_len_init' = Len(poll_fds') /\ pc' = "loop"
         \/ pc' = "clear" /\ opened' = opened /\ poll_fds' = poll_fds /\ pfd_len_init' = pfd_len_init
  BY DEF StartHttpd, Fail
<1>2. CASE pc' = "clear"
  BY <1>1, <1>2, FailInv
<1>3. CASE pc' = "loop"
  <2>1. /\ opened' = opened \cup {Httpd} /\ poll_fds' = event_poll_fd_add(poll_fds, Httpd)
        /\ pfd_len_init' = Len(poll_fds')
    BY <1>1, <1>3
  <2>2. /\ ListsOk' /\ FilesOk' /\ LinesOk'
        /\ StaticFds' = StaticFds /\ TimersAll' = TimersAll /\ ClientsAll' = ClientsAll
        /\ TimersMax' = TimersMax /\ TimersMax \in Nat
        /\ Len(poll_fds) \in Nat /\ MAX_FDS \in Nat
    BY <1>1, <1>3, RunInv DEF Requested
  <2>3. /\ PollOk /\ timers = {} /\ clients = {} /\ update_pollfds = TRUE
        /\ opened \subseteq Polled /\ Len(poll_fds) <= TimersMax + 3
        /\ at \in Nat \ {0}
    BY <1>1 DEF DaemonInv, PollOk, CountOk, Starting
  <2>4. /\ opened' \subseteq StaticFds
        /\ poll_fds' \in Seq(StaticFds \cup TimersAll \cup ClientsAll)
        /\ Len(poll_fds') <= MAX_FDS /\ Len(poll_fds') <= Len(poll_fds) + 1
        /\ Len(poll_fds) <= Len(poll_fds') /\ Len(poll_fds') \in Nat
        /\ Len(poll_fds) < MAX_FDS => opened' \subseteq Polled'
        /\ \A i \in 1..Len(poll_fds) : poll_fds'[i] = poll_fds[i]
    <3>1. Httpd \in StaticFds
      BY DEF StaticFds
    <3> QED
      BY <2>1, <2>3, <3>1, AddOpened
  <2>5. CountOk'
    <3>1. pfd_len_init' <= TimersMax' + 4 /\ at' \in Nat \ {0}
      BY <1>1, <2>1, <2>2, <2>3, <2>4
    <3> QED
      BY <1>3, <3>1 DEF CountOk
  <2>6. DOMAIN poll_fds = 1..Len(poll_fds) /\ DOMAIN poll_fds' = 1..Len(poll_fds')
    BY <2>3, <2>4 DEF PollOk
  <2>7. ASSUME NEW fd \in opened'
        PROVE  \/ \E i \in 1..pfd_len_init' : poll_fds'[i] = fd
               \/ fd = Httpd /\ TimersMax' + 4 > MAX_FDS
    <3>1. CASE Len(poll_fds) < MAX_FDS
      <4>1. fd \in Polled'
        BY <2>4, <2>7, <3>1
      <4> QED
        BY <2>1, <2>6, <4>1 DEF Polled
    <3>2. CASE ~(Len(poll_fds) < MAX_FDS) /\ fd = Httpd
      <4>1. TimersMax' + 4 > MAX_FDS
        BY <2>2, <2>3, <3>2
      <4> QED
        BY <3>2, <4>1
    <3>3. CASE ~(Len(poll_fds) < MAX_FDS) /\ fd # Httpd
      <4>1. fd \in Polled
        BY <2>1, <2>3, <2>7, <3>3
      <4>2. PICK i \in 1..Len(poll_fds) : poll_fds[i] = fd
        BY <2>6, <4>1 DEF Polled
      <4>3. i \in 1..Len(poll_fds')
        BY <2>2, <2>4
      <4> QED
        BY <2>1, <2>4, <4>2, <4>3
    <3> QED
      BY <3>1, <3>2, <3>3
  <2>8. PollOk'
    <3>1. /\ timers' = {} /\ clients' = {} /\ update_pollfds' = TRUE
          /\ opened' \subseteq StaticFds'
          /\ poll_fds' \in Seq(StaticFds' \cup TimersAll' \cup ClientsAll')
          /\ pfd_len_init' \in 0..Len(poll_fds') /\ Httpd \in opened'
      BY <1>1, <2>1, <2>2, <2>3, <2>4
    <3> QED
      BY <1>3, <2>4, <2>7, <3>1 DEF PollOk, Starting
  <2> QED
    BY <2>2, <2>5, <2>8 DEF DaemonInv
<1> QED
  BY <1>1, <1>2, <1>3

-----------------------------------------------------------------------------
(* The loop.                                                               *)

(* event_loop: the set is built anew when timers or clients have changed.  *)
LEMMA UpdatePollFdsInv ==
    ASSUME DaemonInv, UpdatePollFds
    PROVE  DaemonInv'
<1> DEFINE F == StaticFds \cup TimersAll \cup ClientsAll
           base == SubSeq(poll_fds, 1, pfd_len_init)
           room == Len(config.gpios_in) + Len(config.gpios_out) + 2 * CLIENT_CONNECTIONS_MAX
<1>1. /\ pc = "loop" /\ pc' = "loop" /\ poll_fds' = FoldLeft(AddOpen, base, Dynamic)
      /\ UNCHANGED <<config, inst, requests, opened, pfd_len_init, at, timers, clients>>
      /\ update_pollfds' = FALSE
  BY DEF UpdatePollFds, started
<1>2. /\ ListsOk' /\ FilesOk' /\ LinesOk'
      /\ StaticFds' = StaticFds /\ TimersAll' = TimersAll /\ ClientsAll' = ClientsAll
      /\ TimersMax' = TimersMax /\ TimersMax \in Nat
      /\ Len(config.gpios_in) \in Nat /\ Len(config.gpios_out) \in Nat
      /\ Len(poll_fds) \in Nat /\ MAX_FDS \in Nat
  BY <1>1, RunInv DEF Requested
<1>3. /\ at \in Nat \ {0} /\ pfd_len_init <= TimersMax + 4
      /\ timers \subseteq TimersAll /\ clients \subseteq ClientsAll /\ opened \subseteq StaticFds
      /\ poll_fds \in Seq(F) /\ Len(poll_fds) <= MAX_FDS /\ pfd_len_init \in 0..Len(poll_fds)
  BY <1>1 DEF DaemonInv, PollOk, CountOk
<1>4. /\ \A fd \in opened : \/ \E i \in 1..pfd_len_init : poll_fds[i] = fd
                            \/ fd = Httpd /\ TimersMax + 4 > MAX_FDS
      /\ Httpd \in opened
  BY <1>1 DEF DaemonInv, PollOk
<1>5. /\ Dynamic \in Seq(F) /\ Len(Dynamic) = room
      /\ \A fd \in timers \cup clients : \E j \in 1..room : Dynamic[j] = fd
  <2>1. ListsOk
    BY DEF DaemonInv
  <2>2. /\ Dynamic \in Seq(TimersAll \cup ClientsAll) /\ Len(Dynamic) = room
        /\ \A fd \in TimersAll \cup ClientsAll : \E j \in 1..Len(Dynamic) : Dynamic[j] = fd
    BY <2>1, DynamicIs
  <2>3. Dynamic \in Seq(F)
    BY <2>2
  <2> QED
    BY <1>3, <2>2, <2>3
<1>6. /\ base \in Seq(F) /\ Len(base) = pfd_len_init
      /\ \A i \in 1..pfd_len_init : base[i] = poll_fds[i]
  BY <1>2, <1>3
<1> HIDE DEF F, base, room
<1>7. Grown(poll_fds', base, Dynamic, F, room)
  <2>1. Len(base) <= MAX_FDS
    BY <1>2, <1>3, <1>6
  <2>2. Grown(FoldLeft(AddOpen, base, Dynamic), base, Dynamic, F, Len(Dynamic))
    BY <1>5, <1>6, <2>1, GrowAll
  <2> QED
    BY <1>1, <1>5, <2>2, Zenon
<1>8. /\ poll_fds' \in Seq(F) /\ Len(poll_fds') <= MAX_FDS /\ pfd_len_init <= Len(poll_fds')
      /\ \A i \in 1..pfd_len_init : poll_fds'[i] = poll_fds[i]
      /\ pfd_len_init + room <= MAX_FDS =>
            \A j \in 1..room : Dynamic[j] \in timers \cup clients =>
                               \E i \in 1..Len(poll_fds') : poll_fds'[i] = Dynamic[j]
  BY <1>6, <1>7 DEF Grown
<1>9. CountOk'
  BY <1>1, <1>2, <1>3 DEF CountOk
<1>10. PollOk'
  <2>1. /\ timers' \subseteq TimersAll' /\ clients' \subseteq ClientsAll'
        /\ opened' \subseteq StaticFds'
        /\ poll_fds' \in Seq(StaticFds' \cup TimersAll' \cup ClientsAll')
        /\ Len(poll_fds') <= MAX_FDS /\ pfd_len_init' \in 0..Len(poll_fds')
        /\ update_pollfds' \in BOOLEAN
    <3>1. pfd_len_init' \in 0..Len(poll_fds')
      BY <1>1, <1>2, <1>3, <1>8
    <3> QED
      BY <1>1, <1>2, <1>3, <1>8, <3>1 DEF F
  <2>2. ASSUME NEW fd \in opened'
        PROVE  \/ \E i \in 1..pfd_len_init' : poll_fds'[i] = fd
               \/ fd = Httpd /\ TimersMax' + 4 > MAX_FDS
    BY <1>1, <1>2, <1>4, <1>8, <2>2
  <2>3. \/ timers' \cup clients' \subseteq Polled'
        \/ Len(config'.gpios_in) + Len(config'.gpios_out)
             + TimersMax' + 4 + 2 * CLIENT_CONNECTIONS_MAX > MAX_FDS
    <3>1. room \in Nat /\ pfd_len_init \in Nat /\ Len(poll_fds') \in Nat
      <4>1. room \in Nat
        <5> DEFINE I == Len(config.gpios_in)
                   O == Len(config.gpios_out)
                   C == CLIENT_CONNECTIONS_MAX
        <5>1. I \in Nat /\ O \in Nat /\ C \in Nat
          BY <1>2, DaemonAssumption
        <5>2. room = I + O + 2 * C
          BY DEF room
        <5> HIDE DEF I, O, C
        <5> QED
          BY <5>1, <5>2
      <4> QED
        BY <1>3, <1>8, <4>1
    <3>2. CASE pfd_len_init + room <= MAX_FDS
      <4>1. ASSUME NEW fd \in timers' \cup clients' PROVE fd \in Polled'
        <5>1. PICK j \in 1..room : Dynamic[j] = fd
          BY <1>1, <1>5, <4>1
        <5>2. PICK i \in 1..Len(poll_fds') : poll_fds'[i] = fd
          BY <1>1, <1>8, <3>2, <4>1, <5>1
        <5>3. DOMAIN poll_fds' = 1..Len(poll_fds')
          BY <1>8
        <5> QED
          BY <5>2, <5>3 DEF Polled
      <4> QED
        BY <4>1
    <3>3. CASE ~(pfd_len_init + room <= MAX_FDS)
      <4>1. TimersMax + 4 + room > MAX_FDS
        BY <1>2, <1>3, <3>1, <3>3
      <4> DEFINE I == Len(config.gpios_in)
                 O == Len(config.gpios_out)
                 C == CLIENT_CONNECTIONS_MAX
      <4>2. I \in Nat /\ O \in Nat /\ C \in Nat /\ room = I + O + 2 * C
        BY <1>2, DaemonAssumption DEF room
      <4>3. I = Len(config'.gpios_in) /\ O = Len(config'.gpios_out) /\ TimersMax' = TimersMax
        BY <1>1, <1>2
      <4> HIDE DEF I, O
      <4>4. I + O + TimersMax + 4 + 2 * C > MAX_FDS
        BY <1>2, <4>1, <4>2
      <4> QED
        BY <4>3, <4>4
    <3> QED
      BY <3>2, <3>3
  <2>4. Httpd \in opened'
    BY <1>1, <1>4
  <2> QED
    BY <1>1, <2>1, <2>2, <2>3, <2>4 DEF PollOk, Starting
<1> QED
  BY <1>2, <1>9, <1>10 DEF DaemonInv

(* Outputs that start or end to blink.                                     *)
LEMMA BlinkedOk ==
    ASSUME NEW ts, ts \subseteq TimersAll, NEW x \in Blinked(ts)
    PROVE  x \subseteq TimersAll
<1>1. PICK outs \in SUBSET DOMAIN config.gpios_out : x = SymDiff(ts, {"GPIO_OUT_TIMER"} \X outs)
  BY DEF Blinked
<1>2. {"GPIO_OUT_TIMER"} \X outs \subseteq TimersAll
  BY DEF TimersAll
<1>3. x \subseteq ts \cup ({"GPIO_OUT_TIMER"} \X outs)
  BY <1>1 DEF SymDiff
<1> QED
  BY <1>2, <1>3

(* The number of a new client is free or there is none.                    *)
LEMMA ConnectOk ==
    ASSUME clients \subseteq ClientsAll,
           LET ids == {c[2] : c \in clients}
               n == CHOOSE m \in 1..(CLIENT_CONNECTIONS_MAX + 1) : m \notin ids
           IN  clients' = IF n > CLIENT_CONNECTIONS_MAX THEN clients
                          ELSE clients \cup {<<"CLIENT", n>>, <<"CLIENT_TIMEOUT", n>>}
    PROVE  clients' \subseteq ClientsAll
<1> DEFINE C == CLIENT_CONNECTIONS_MAX
           ids == {c[2] : c \in clients}
           n == CHOOSE m \in 1..(C + 1) : m \notin ids
<1>1. C \in Nat
  BY DaemonAssumption
<1>2. ids \subseteq 1..C
  BY DEF ClientsAll
<1>3. \E m \in 1..(C + 1) : m \notin ids
  <2>1. C + 1 \in 1..(C + 1) /\ C + 1 \notin 1..C
    BY <1>1
  <2> QED
    BY <1>2, <2>1
<1>4. clients' = IF n > C THEN clients ELSE clients \cup {<<"CLIENT", n>>, <<"CLIENT_TIMEOUT", n>>}
  OBVIOUS
<1> HIDE DEF ids
<1>5. n \in 1..(C + 1)
  BY <1>3
<1> HIDE DEF n
<1>6. ~(n > C) => n \in 1..C
  BY <1>1, <1>5
<1>7. CASE n > C
  BY <1>4, <1>7
<1>8. CASE ~(n > C)
  <2>1. clients' = clients \cup {<<"CLIENT", n>>, <<"CLIENT_TIMEOUT", n>>}
    BY <1>4, <1>8
  <2>2. <<"CLIENT", n>> \in ClientsAll /\ <<"CLIENT_TIMEOUT", n>> \in ClientsAll
    BY <1>6, <1>8 DEF ClientsAll
  <2> QED
    BY <2>1, <2>2
<1> QED
  BY <1>7, <1>8

(* Serving a descriptor leaves only timers of GPIOs and clients within the *)
(* limit.                                                                  *)
LEMMA ServeOk ==
    ASSUME timers \subseteq TimersAll, clients \subseteq ClientsAll,
           NEW fd \in StaticFds \cup TimersAll \cup ClientsAll, fd # Signal, Serve(fd)
    PROVE  timers' \subseteq TimersAll /\ clients' \subseteq ClientsAll
<1>1. ASSUME timers' \in Blinked(timers), clients' = clients
      PROVE  timers' \subseteq TimersAll /\ clients' \subseteq ClientsAll
  BY <1>1, BlinkedOk
<1>2. CASE fd \in {"GPIO"} \X DOMAIN config.gpios_in
  <2>1. fd[1] = "GPIO" /\ fd[2] \in DOMAIN config.gpios_in
    BY <1>2
  <2> DEFINE ts == SymDiff(timers, {<<"GPIO_IN_TIMER", fd[2]>>})
  <2>2. (timers' \in Blinked(timers) \/ timers' \in Blinked(ts)) /\ clients' = clients
    BY <2>1 DEF Serve
  <2>3. ts \subseteq TimersAll
    <3>1. <<"GPIO_IN_TIMER", fd[2]>> \in TimersAll
      BY <2>1 DEF TimersAll
    <3> QED
      BY <3>1 DEF SymDiff
  <2> HIDE DEF ts
  <2> QED
    BY <2>2, <2>3, BlinkedOk
<1>3. CASE fd \in TimersAll
  <2>1. CASE fd[1] = "GPIO_IN_TIMER"
    <3>1. (timers' \in Blinked(timers) \/ timers' \in Blinked(timers \ {fd})) /\ clients' = clients
      BY <2>1 DEF Serve
    <3>2. timers \ {fd} \subseteq TimersAll
      OBVIOUS
    <3> QED
      BY <3>1, <3>2, BlinkedOk
  <2>2. CASE fd[1] = "GPIO_OUT_TIMER"
    <3>1. (timers' = timers \/ timers' = timers \ {fd}) /\ clients' = clients
      BY <2>2 DEF Serve
    <3> QED
      BY <3>1
  <2> QED
    BY <1>3, <2>1, <2>2 DEF TimersAll
<1>4. CASE fd \in ({"INPUT", "TIMER_EV"} \X Nat) \cup {LuaAsync, Httpd}
  <2>1. fd[1] \in {"INPUT", "TIMER_EV", "LUA_ASYNC", "HTTPD"}
    BY <1>4 DEF LuaAsync, Httpd
  <2>2. timers' \in Blinked(timers) /\ clients' = clients
    BY <2>1 DEF Serve
  <2> QED
    BY <1>1, <2>2
<1>5. CASE fd = Connection
  <2>1. fd[1] = "CONNECT"
    BY <1>5 DEF Connection
  <2>2. /\ timers' = timers
        /\ LET ids == {c[2] : c \in clients}
               n == CHOOSE m \in 1..(CLIENT_CONNECTIONS_MAX + 1) : m \notin ids
           IN  clients' = IF n > CLIENT_CONNECTIONS_MAX THEN clients
                          ELSE clients \cup {<<"CLIENT", n>>, <<"CLIENT_TIMEOUT", n>>}
    BY <2>1 DEF Serve
  <2> QED
    BY <2>2, ConnectOk
<1>6. CASE fd \in ClientsAll
  <2>1. <<"CLIENT_TIMEOUT", fd[2]>> \in ClientsAll
    BY <1>6 DEF ClientsAll
  <2>2. CASE fd[1] = "CLIENT"
    <3>1. /\ \/ clients' = clients \ {fd, <<"CLIENT_TIMEOUT", fd[2]>>}
             \/ clients' = clients \ {<<"CLIENT_TIMEOUT", fd[2]>>}
             \/ clients' = clients \cup {<<"CLIENT_TIMEOUT", fd[2]>>}
          /\ timers' = timers \/ timers' \in Blinked(timers)
      BY <2>2 DEF Serve
    <3>2. timers' \subseteq TimersAll
      BY <3>1, BlinkedOk
    <3>3. clients' \subseteq ClientsAll
      BY <2>1, <3>1
    <3> QED
      BY <3>2, <3>3
  <2>3. CASE fd[1] = "CLIENT_TIMEOUT"
    <3>1. clients' = clients \ {fd, <<"CLIENT", fd[2]>>} /\ timers' = timers
      BY <2>3 DEF Serve
    <3> QED
      BY <3>1
  <2> QED
    BY <1>6, <2>2, <2>3 DEF ClientsAll
<1> QED
  BY <1>2, <1>3, <1>4, <1>5, <1>6 DEF StaticFds

(* event_read_delegate.                                                    *)
LEMMA DelegateInv ==
    ASSUME DaemonInv, Delegate
    PROVE  DaemonInv'
<1> DEFINE F == StaticFds \cup TimersAll \cup ClientsAll
           hits == {i \in DOMAIN poll_fds : poll_fds[i] \in ready}
           fd == poll_fds[CHOOSE i \in hits : \A j \in hits : i <= j]
<1>1. /\ pc = "loop" /\ update_pollfds = FALSE /\ hits # {} /\ ServeOrStop(fd)
      /\ UNCHANGED <<config, inst, requests, opened, pfd_len_init, at, poll_fds>>
  BY DEF Delegate, started, DaemonInv, PollOk
<1>2. update_pollfds' = (timers' # timers \/ clients' # clients)
  BY DEF Delegate
<1>3. /\ timers \subseteq TimersAll /\ clients \subseteq ClientsAll /\ opened \subseteq StaticFds
      /\ poll_fds \in Seq(F) /\ Len(poll_fds) <= MAX_FDS /\ pfd_len_init \in 0..Len(poll_fds)
  BY DEF DaemonInv, PollOk
<1>4. fd \in F
  <2>1. DOMAIN poll_fds \subseteq Nat
    BY <1>3
  <2>2. \E i \in hits : \A j \in hits : i <= j
    BY <1>1, <2>1, NatMin
  <2>3. (CHOOSE i \in hits : \A j \in hits : i <= j) \in DOMAIN poll_fds
    BY <2>2
  <2> HIDE DEF F
  <2> QED
    BY <1>3, <2>3
<1> HIDE DEF hits, fd
<1>5. \/ pc' = "clear" /\ timers' = timers /\ clients' = clients
      \/ pc' = "loop" /\ timers' \subseteq TimersAll /\ clients' \subseteq ClientsAll
  <2>1. CASE fd = Signal
    BY <1>1, <2>1 DEF ServeOrStop
  <2>2. CASE fd # Signal
    <3>1. Serve(fd) /\ pc' = "loop"
      BY <1>1, <2>2 DEF ServeOrStop
    <3> QED
      BY <1>3, <1>4, <2>2, <3>1, ServeOk
  <2> QED
    BY <2>1, <2>2
<1>6. CASE pc' = "clear" /\ timers' = timers /\ clients' = clients
  <2>1. update_pollfds' = update_pollfds
    BY <1>1, <1>2, <1>6
  <2> QED
    BY <1>1, <1>6, <2>1, FailInv
<1>7. CASE pc' = "loop" /\ timers' \subseteq TimersAll /\ clients' \subseteq ClientsAll
  <2>1. /\ ListsOk' /\ FilesOk' /\ LinesOk'
        /\ StaticFds' = StaticFds /\ TimersAll' = TimersAll /\ ClientsAll' = ClientsAll
        /\ TimersMax' = TimersMax
    BY <1>1, <1>7, RunInv DEF Requested
  <2>2. CountOk'
    <3>1. at \in Nat \ {0} /\ pfd_len_init <= TimersMax + 4
      BY <1>1 DEF DaemonInv, CountOk
    <3> QED
      BY <1>1, <1>7, <2>1, <3>1 DEF CountOk
  <2>3. PollOk'
    <3>1. /\ \A f \in opened : \/ \E i \in 1..pfd_len_init : poll_fds[i] = f
                               \/ f = Httpd /\ TimersMax + 4 > MAX_FDS
          /\ Httpd \in opened
          /\ \/ timers \cup clients \subseteq Polled
             \/ Len(config.gpios_in) + Len(config.gpios_out)
                  + TimersMax + 4 + 2 * CLIENT_CONNECTIONS_MAX > MAX_FDS
      BY <1>1 DEF DaemonInv, PollOk
    <3>2. Polled' = Polled
      BY <1>1 DEF Polled
    <3>3. /\ update_pollfds' \in BOOLEAN
          /\ update_pollfds' = FALSE => timers' = timers /\ clients' = clients
      BY <1>2
    <3>4. /\ timers' \subseteq TimersAll' /\ clients' \subseteq ClientsAll'
          /\ opened' \subseteq StaticFds'
          /\ poll_fds' \in Seq(StaticFds' \cup TimersAll' \cup ClientsAll')
          /\ Len(poll_fds') <= MAX_FDS /\ pfd_len_init' \in 0..Len(poll_fds')
      BY <1>1, <1>3, <1>7, <2>1
    <3>5. \A f \in opened' : \/ \E i \in 1..pfd_len_init' : poll_fds'[i] = f
                             \/ f = Httpd /\ TimersMax' + 4 > MAX_FDS
      BY <1>1, <2>1, <3>1
    <3>6. update_pollfds' = FALSE =>
             \/ timers' \cup clients' \subseteq Polled'
             \/ Len(config'.gpios_in) + Len(config'.gpios_out)
                  + TimersMax' + 4 + 2 * CLIENT_CONNECTIONS_MAX > MAX_FDS
      BY <1>1, <2>1, <3>1, <3>2, <3>3
    <3> QED
      BY <1>1, <1>7, <3>1, <3>3, <3>4, <3>5, <3>6 DEF PollOk, Starting
  <2> QED
    BY <2>1, <2>2, <2>3 DEF DaemonInv
<1> QED
  BY <1>5, <1>6, <1>7

-----------------------------------------------------------------------------
(* The outside world and the end.                                          *)

(* What becomes ready does not matter here.                                *)
LEMMA QuietInv ==
    ASSUME DaemonInv, UNCHANGED <<started, pc, at, timers, clients, poll_fds, update_pollfds>>
    PROVE  DaemonInv'
<1>1. UNCHANGED <<inst, config, requests, opened, pfd_len_init, pc, at, timers, clients,
                  poll_fds, update_pollfds>>
  BY DEF started
<1>2. ListsOk'
  BY <1>1 DEF DaemonInv, ListsOk
<1>3. FilesOk'
  BY <1>1 DEF DaemonInv, FilesOk
<1>4. /\ Nodes' = Nodes /\ StaticFds' = StaticFds /\ TimersAll' = TimersAll
      /\ ClientsAll' = ClientsAll /\ Polled' = Polled /\ \A d : Gpios(d)' = Gpios(d)
  BY <1>1 DEF Nodes, StaticFds, TimersAll, ClientsAll, Polled, Gpios
<1>5. InputsMax' = InputsMax /\ DevicesMax' = DevicesMax /\ TimersMax' = TimersMax
  BY <1>1 DEF InputsMax, DevicesMax, TimersMax
<1>6. LinesOk'
  <2>1. DistinctLines'
    BY <1>1, <1>4 DEF DaemonInv, LinesOk, DistinctLines
  <2> QED
    BY <1>1, <1>4, <2>1 DEF DaemonInv, LinesOk
<1>7. CountOk'
  BY <1>1, <1>5 DEF DaemonInv, CountOk
<1>8. PollOk'
  BY <1>1, <1>4, <1>5 DEF DaemonInv, PollOk
<1> QED
  BY <1>2, <1>3, <1>6, <1>7, <1>8 DEF DaemonInv

(* config_clear.                                                           *)
LEMMA ConfigClearInv ==
    ASSUME DaemonInv, ConfigClear
    PROVE  DaemonInv'
<1>1. /\ pc' = "exited" /\ UNCHANGED <<config, inst, at, poll_fds, pfd_len_init, update_pollfds>>
      /\ requests' = {} /\ timers' = {} /\ clients' = {} /\ opened' = opened \cap {Connection}
  BY DEF ConfigClear
<1>2. /\ opened' \subseteq StaticFds
      /\ poll_fds' \in Seq(StaticFds \cup TimersAll \cup ClientsAll)
      /\ Len(poll_fds') <= MAX_FDS /\ pfd_len_init' \in 0..Len(poll_fds')
  BY <1>1 DEF DaemonInv, PollOk
<1> QED
  BY <1>1, <1>2, EndInv

(* Every step keeps the invariant.                                         *)
LEMMA InvNext ==
    ASSUME DaemonInv, [Next]_vars
    PROVE  DaemonInv'
<1>1. CASE StartUp
  BY <1>1, GetConfigInv, OpenChipInv, SetOutputsInv, RequestInputsInv, OpenDevicesInv,
     OpenTimersInv, AddSignalInv, StartLuaInv, CreateSocketInv, StartHttpdInv DEF StartUp
<1>2. CASE UpdatePollFds
  BY <1>2, UpdatePollFdsInv
<1>3. CASE Delegate
  BY <1>3, DelegateInv
<1>4. CASE ConfigClear
  BY <1>4, ConfigClearInv
<1>5. CASE PollFails
  <2>1. /\ pc' = "clear" /\ opened' = opened /\ poll_fds' = poll_fds
        /\ UNCHANGED <<config, inst, requests, at, pfd_len_init, timers, clients, update_pollfds>>
    BY <1>5 DEF PollFails, Fail, started
  <2> QED
    BY <2>1, FailInv
<1>6. CASE UNCHANGED vars
  BY <1>6, QuietInv DEF vars
<1>7. CASE Exited
  BY <1>6, <1>7 DEF Exited
<1>8. CASE SigTerm
  BY <1>8, QuietInv DEF SigTerm
<1>9. ASSUME NEW fd, Event(fd) PROVE DaemonInv'
  BY <1>9, QuietInv DEF Event
<1>10. ASSUME NEW fd, Unplug(fd) PROVE DaemonInv'
  BY <1>10, QuietInv DEF Unplug
<1> QED
  BY <1>1, <1>2, <1>3, <1>4, <1>5, <1>6, <1>7, <1>8, <1>9, <1>10 DEF Next, DaemonStep

-----------------------------------------------------------------------------
(* What follows from it.                                                   *)

LEMMA InvPollSet == DaemonInv => PollSetComplete
<1> SUFFICES ASSUME DaemonInv, pc = "loop"
             PROVE  /\ opened \ {Httpd} \subseteq Polled
                    /\ 2 * Len(config.gpios_in) + Len(config.gpios_out)
                         + Len(config.input_devices)
                         + Len(config.timer_definitions) + 3 <= 2 * GPIOS_MAX =>
                           /\ Httpd \in Polled
                           /\ ~update_pollfds => timers \cup clients \subseteq Polled
  BY DEF PollSetComplete
<1> DEFINE I == Len(config.gpios_in)
           O == Len(config.gpios_out)
           D == Len(config.input_devices)
           T == Len(config.timer_definitions)
           C == CLIENT_CONNECTIONS_MAX
<1>1. /\ \A fd \in opened : \/ \E i \in 1..pfd_len_init : poll_fds[i] = fd
                            \/ fd = Httpd /\ TimersMax + 4 > MAX_FDS
      /\ Httpd \in opened
      /\ update_pollfds = FALSE => \/ timers \cup clients \subseteq Polled
                                   \/ I + O + TimersMax + 4 + 2 * C > MAX_FDS
      /\ update_pollfds \in BOOLEAN
  BY DEF DaemonInv, PollOk
<1>2. I \in Nat /\ O \in Nat /\ D \in Nat /\ T \in Nat /\ C \in Nat /\ GPIOS_MAX \in Nat
  BY SeqFacts, ConfigAssumption, DaemonAssumption DEF DaemonInv, ListsOk
<1>3. ASSUME NEW fd \in opened, fd # Httpd \/ ~(TimersMax + 4 > MAX_FDS) PROVE fd \in Polled
  <2>1. PICK i \in 1..pfd_len_init : poll_fds[i] = fd
    BY <1>1, <1>3
  <2>2. i \in DOMAIN poll_fds
    BY DEF DaemonInv, PollOk
  <2> QED
    BY <2>1, <2>2 DEF Polled
<1>4. TimersMax = I + D + T
  BY DEF TimersMax, DevicesMax, InputsMax
<1>5. MAX_FDS = 2 * GPIOS_MAX + 2 * C + 1
  BY <1>2 DEF MAX_FDS
<1> HIDE DEF I, O, D, T, C
<1>6. ASSUME 2 * I + O + D + T + 3 <= 2 * GPIOS_MAX
      PROVE  ~(TimersMax + 4 > MAX_FDS) /\ ~(I + O + TimersMax + 4 + 2 * C > MAX_FDS)
  BY <1>2, <1>4, <1>5, <1>6
<1>7. opened \ {Httpd} \subseteq Polled
  BY <1>3
<1>8. 2 * I + O + D + T + 3 <= 2 * GPIOS_MAX =>
         Httpd \in Polled /\ (~update_pollfds => timers \cup clients \subseteq Polled)
  BY <1>1, <1>3, <1>6
<1> QED
  BY <1>7, <1>8 DEF I, O, D, T

LEMMA InvGpios == DaemonInv => GpiosAsConfigured
<1> SUFFICES ASSUME DaemonInv, pc = "loop" PROVE GpiosAsConfigured
  BY DEF GpiosAsConfigured
<1>1. FilesRead(config, inst.gpio_dir)
  BY DEF DaemonInv, FilesOk
<1>2. \A dir : Gpios(dir) = GpioList(config, dir)
  BY DEF Gpios, GpioList
<1>3. DistinctLines /\ Nodes \subseteq requests
  BY DEF DaemonInv, LinesOk, Requested
<1>4. ASSUME NEW dir \in {"in", "out"}, NEW i \in DOMAIN Gpios(dir)
      PROVE  /\ <<dir, i>> \in requests
             /\ \E e \in Range(inst.gpio_dir) : ReadFrom(dir, Gpios(dir)[i], e)
  <2>1. <<dir, i>> \in requests
    BY <1>3, <1>4 DEF Nodes, Gpios
  <2>2. i \in DOMAIN GpioList(config, dir) /\ Gpios(dir)[i] = GpioList(config, dir)[i]
    BY <1>2, <1>4
  <2>3. \E e \in Range(inst.gpio_dir) : ReadFrom(dir, GpioList(config, dir)[i], e)
    BY <1>1, <2>2 DEF FilesRead
  <2> QED
    BY <2>1, <2>2, <2>3
<1>5. \A r, s \in requests : r # s => Gpios(r[1])[r[2]].id # Gpios(s[1])[s[2]].id
  BY <1>3 DEF DistinctLines
<1>6. ASSUME NEW e \in Range(inst.gpio_dir)
      PROVE  \/ ~Readable(e) \/ config.chip = ""
             \/ Len(config.gpios_in) + Len(config.gpios_out) = GPIOS_MAX
             \/ \E i \in DOMAIN Gpios(e.ext) : Gpios(e.ext)[i].id = e.num
  BY <1>1, <1>2, <1>6 DEF FilesRead
<1> QED
  BY <1>4, <1>5, <1>6 DEF GpiosAsConfigured

(* Nothing but an open descriptor becomes ready, and what is closed in the *)
(* loop is ready no more.                                                  *)
ReadyOk == ready \subseteq opened \cup timers \cup clients \/ pc \in {"clear", "exited"}

LEMMA ReadyStartUp ==
    ASSUME DaemonInv, ReadyOk, StartUp
    PROVE  ReadyOk' /\ events' = events
<1>1. ASSUME ready' = ready, timers' = timers, clients' = clients, events' = events,
             opened \subseteq opened', pc \notin {"clear", "exited"}
      PROVE  ReadyOk' /\ events' = events
  BY <1>1 DEF ReadyOk
<1>2. CASE GetConfig
  <2>1. opened \subseteq opened'
    <3>1. pc = "config" /\ (opened' = {Signal} \/ opened' = opened)
      BY <1>2 DEF GetConfig
    <3>2. opened \subseteq {Signal}
      BY <3>1 DEF DaemonInv, CountOk
    <3> QED
      BY <3>1, <3>2
  <2> QED
    BY <1>1, <1>2, <2>1 DEF GetConfig
<1>3. CASE OpenChip
  BY <1>1, <1>3 DEF OpenChip
<1>4. CASE SetOutputs
  BY <1>1, <1>4 DEF SetOutputs
<1>5. CASE RequestInputs
  BY <1>1, <1>5 DEF RequestInputs
<1>6. CASE OpenDevices
  BY <1>1, <1>6 DEF OpenDevices
<1>7. CASE OpenTimers
  BY <1>1, <1>7 DEF OpenTimers
<1>8. CASE AddSignal
  BY <1>1, <1>8 DEF AddSignal, started
<1>9. CASE StartLua
  BY <1>1, <1>9 DEF StartLua
<1>10. CASE CreateSocket
  BY <1>1, <1>10 DEF CreateSocket
<1>11. CASE StartHttpd
  BY <1>1, <1>11 DEF StartHttpd
<1> QED
  BY <1>2, <1>3, <1>4, <1>5, <1>6, <1>7, <1>8, <1>9, <1>10, <1>11 DEF StartUp

LEMMA ReadyNext ==
    ASSUME DaemonInv, ReadyOk, events \in 0..EventsMax, [Next]_vars
    PROVE  ReadyOk' /\ events' \in 0..EventsMax
<1>1. CASE StartUp
  BY <1>1, ReadyStartUp
<1>2. CASE UpdatePollFds
  BY <1>2 DEF UpdatePollFds, started, ReadyOk
<1>3. CASE Delegate
  <2> DEFINE open == timers \cup clients
  <2>1. /\ pc = "loop" /\ opened' = opened /\ events' = events
        /\ ready' \subseteq ready \ (open \ (timers' \cup clients'))
    BY <1>3 DEF Delegate, started
  <2>2. ready \subseteq opened \cup open
    BY <2>1 DEF ReadyOk
  <2> QED
    BY <2>1, <2>2 DEF ReadyOk
<1>4. CASE ConfigClear
  BY <1>4 DEF ConfigClear, ReadyOk
<1>5. CASE PollFails
  BY <1>5 DEF PollFails, Fail, ReadyOk
<1>6. CASE UNCHANGED vars
  BY <1>6 DEF vars, started, ReadyOk
<1>7. CASE Exited
  BY <1>6, <1>7 DEF Exited
<1>8. CASE SigTerm
  BY <1>8 DEF SigTerm, started, ReadyOk
<1>9. ASSUME NEW fd \in (opened \ {Signal}) \cup timers \cup clients, Event(fd)
      PROVE  ReadyOk' /\ events' \in 0..EventsMax
  <2>1. events' \in 0..EventsMax
    BY <1>9, DaemonAssumption DEF Event
  <2> QED
    BY <1>9, <2>1 DEF Event, started, ReadyOk
<1>10. ASSUME NEW fd \in opened, Unplug(fd) PROVE ReadyOk' /\ events' \in 0..EventsMax
  BY <1>10 DEF Unplug, started, ReadyOk
<1> QED
  BY <1>1, <1>2, <1>3, <1>4, <1>5, <1>6, <1>7, <1>8, <1>9, <1>10 DEF Next, DaemonStep

(* main goes through its labels.                                           *)
Labels == {"config", "chip", "outputs", "inputs", "devices", "timers", "signal", "lua",
           "socket", "httpd", "loop", "clear", "exited", "crashed"}

LEMMA LabelNext ==
    ASSUME pc \in Labels, [Next]_vars
    PROVE  pc' \in Labels
<1>1. CASE GetConfig \/ OpenChip \/ UpdatePollFds \/ ConfigClear \/ PollFails
  BY <1>1 DEF GetConfig, OpenChip, Goto, UpdatePollFds, ConfigClear, PollFails, Fail, Labels
<1>2. CASE SetOutputs
  BY <1>2 DEF SetOutputs, RequestLine, Goto, Fail, Labels
<1>3. CASE RequestInputs
  BY <1>3 DEF RequestInputs, RequestLine, Goto, Fail, Labels
<1>4. CASE OpenDevices \/ OpenTimers
  BY <1>4 DEF OpenDevices, OpenTimers, Goto, Fail, Labels
<1>5. CASE AddSignal \/ StartLua \/ CreateSocket \/ StartHttpd
  BY <1>5 DEF AddSignal, StartLua, CreateSocket, StartHttpd, AddOrFail, Fail, Labels
<1>6. CASE Delegate
  BY <1>6 DEF Delegate, ServeOrStop, Labels
<1>7. CASE UNCHANGED vars
  BY <1>7 DEF vars
<1>8. CASE Exited
  BY <1>7, <1>8 DEF Exited
<1>9. CASE SigTerm
  BY <1>9 DEF SigTerm
<1>10. ASSUME NEW fd, Event(fd) \/ Unplug(fd) PROVE pc' \in Labels
  BY <1>10 DEF Event, Unplug
<1> QED
  BY <1>1, <1>2, <1>3, <1>4, <1>5, <1>6, <1>7, <1>8, <1>9, <1>10 DEF Next, DaemonStep, StartUp

-----------------------------------------------------------------------------
(* Theorems.                                                               *)

(* What is read of the configuration is kept, start-up goes through its    *)
(* lists in order and the poll set holds what it has to: the inductive     *)
(* invariant of the daemon.                                                *)
THEOREM InvCorrect == Spec => []DaemonInv
<1>1. Init => DaemonInv
  BY InvInit
<1>2. DaemonInv /\ [Next]_vars => DaemonInv'
  BY InvNext
<1> QED
  BY <1>1, <1>2, PTL DEF Spec

(* main is at one of its places; a poll set is never larger than MAX_FDS,  *)
(* the static part never larger than the whole, and nothing that is closed *)
(* stays ready before the descriptors are cleared.                         *)
THEOREM TypeCorrect == Spec => []TypeOK
<1> DEFINE Inv == DaemonInv /\ ReadyOk /\ events \in 0..EventsMax /\ pc \in Labels
<1>1. Init => Inv
  <2> SUFFICES ASSUME Init PROVE Inv
    OBVIOUS
  <2>1. ReadyOk /\ events \in 0..EventsMax /\ pc \in Labels
    BY DaemonAssumption DEF Init, ReadyOk, Labels
  <2> QED
    BY <2>1, InvInit
<1>2. Inv /\ [Next]_vars => Inv'
  BY InvNext, ReadyNext, LabelNext
<1>3. Inv => TypeOK
  <2> SUFFICES ASSUME Inv PROVE TypeOK
    OBVIOUS
  <2>1. Len(poll_fds) <= MAX_FDS /\ pfd_len_init <= Len(poll_fds) /\ update_pollfds \in BOOLEAN
    BY DEF DaemonInv, PollOk
  <2> QED
    BY <2>1 DEF TypeOK, ReadyOk, Labels
<1> QED
  BY <1>1, <1>2, <1>3, PTL DEF Spec

(* Once it is in its loop the daemon watches every descriptor it has       *)
(* opened but perhaps that of the web server, and all of them, clients and *)
(* GPIO timers too, whenever the lists are short enough for MAX_FDS        *)
(* (event_poll_fd_add, whose result most callers ignore).                  *)
THEOREM PollSetCorrect == Spec => []PollSetComplete
  BY InvCorrect, InvPollSet, PTL

(* A daemon in its loop holds the lines of all its GPIOs, each with the    *)
(* settings of a file of its own, and no file that can be read is without  *)
(* its GPIO (gpio_read_dir, parse_gpio_config_file, gpio_set_outputs,      *)
(* gpio_request_inputs).                                                   *)
THEOREM GpiosCorrect == Spec => []GpiosAsConfigured
  BY InvCorrect, InvGpios, PTL
=============================================================================
