--------------------------- MODULE ClientLibProofs --------------------------
(***************************************************************************)
(* Proofs about ClientLib, for every set of GPIOs, every command line and  *)
(* every sequence of commands, events, timeouts and lost connections: the  *)
(* answer that is read is the answer of the command, the result of a       *)
(* command is true, and the elements that are returned describe the GPIOs  *)
(* and the events as the daemon knows them.                                *)
(***************************************************************************)
EXTENDS ClientLib, WellFoundedInduction, TLAPS

(* Every nonempty set of natural numbers has a least element.              *)
LEMMA NatMin ==
    ASSUME NEW T, T \subseteq Nat, T # {}
    PROVE  \E m \in T : \A n \in T : m <= n
<1> DEFINE R == OpToRel(<, Nat)
<1>1. IsWellFoundedOn(R, Nat)
  BY NatLessThanWellFounded
<1>2. \A x, y \in Nat : (<<y, x>> \in R) <=> y < x
  BY DEF OpToRel
<1> HIDE DEF R
<1>3. \E x \in T : \A y \in T : ~(<<y, x>> \in R)
  BY <1>1, WFMin
<1>4. \E x \in T : \A y \in T : ~(y < x)
  BY <1>2, <1>3, Zenon
<1> QED
  BY <1>4

-----------------------------------------------------------------------------
(* Responses: an END line only at their end.                               *)

IsSeq(s) == \E T : s \in Seq(T)
OneEnd(ls) == \A i \in DOMAIN ls : ls[i].key = "END" => i = Len(ls)
Body(ls) == IsSeq(ls) /\ \A i \in DOMAIN ls : ls[i].key # "END"
Response(ls) == IsSeq(ls) /\ ls # <<>> /\ OneEnd(ls)

LEMMA EmptyIs ==
    ASSUME NEW s, s = <<>>
    PROVE  IsSeq(s) /\ OneEnd(s) /\ Body(s)
<1>1. s \in Seq({}) /\ DOMAIN s = {}
  OBVIOUS
<1>2. IsSeq(s)
  BY <1>1, Zenon DEF IsSeq
<1>3. OneEnd(s) /\ Body(s)
  BY <1>1, <1>2, Zenon DEF OneEnd, Body
<1>4. QED
  BY <1>2, <1>3

(* mygpio_response_end empties the input when there is one response in it. *)
LEMMA AfterEndEmpty ==
    ASSUME NEW ls, IsSeq(ls), OneEnd(ls)
    PROVE  AfterEnd(ls) = <<>>
<1> DEFINE ends == {i \in DOMAIN ls : ls[i].key = "END"}
           first == CHOOSE i \in ends : \A j \in ends : i <= j
<1>1. PICK T : ls \in Seq(T)
  BY DEF IsSeq
<1>2. CASE ends = {}
  BY <1>2, Zenon DEF AfterEnd
<1>3. CASE ends # {}
  <2>1. \A i \in ends : i = Len(ls)
    BY DEF OneEnd
  <2>2. Len(ls) \in Nat
    BY <1>1
  <2>3. \E i \in ends : \A j \in ends : i <= j
    BY <1>3, <2>1, <2>2
  <2>4. first = Len(ls)
    <3> HIDE DEF ends
    <3>1. first \in ends
      BY <2>3
    <3> QED
      BY <2>1, <3>1
  <2>5. AfterEnd(ls) = SubSeq(ls, first + 1, Len(ls))
    BY <1>3, Zenon DEF AfterEnd
  <2> HIDE DEF first
  <2>6. SubSeq(ls, Len(ls) + 1, Len(ls)) = <<>>
    BY <1>1
  <2> QED
    BY <2>4, <2>5, <2>6
<1> QED
  BY <1>2, <1>3

(* What is left of a response after some of its lines were read.           *)
LEMMA RestOneEnd ==
    ASSUME NEW ls, IsSeq(ls), OneEnd(ls), NEW n \in Nat
    PROVE  LET rest == SubSeq(ls, n + 1, Len(ls)) IN
           IsSeq(rest) /\ OneEnd(rest) /\ (ls = <<>> => rest = <<>>)
<1> DEFINE rest == SubSeq(ls, n + 1, Len(ls))
<1>1. PICK T : ls \in Seq(T)
  BY DEF IsSeq
<1>2. rest \in Seq(T) /\ \A i \in DOMAIN rest : rest[i] = ls[n + i] /\ n + i \in DOMAIN ls
  BY <1>1
<1>3. \A i \in DOMAIN rest : n + i = Len(ls) => i = Len(rest)
  BY <1>1
<1>4. IsSeq(rest)
  BY <1>2 DEF IsSeq
<1>5. OneEnd(rest)
  <2> HIDE DEF rest
  <2> QED
    BY <1>2, <1>3 DEF OneEnd
<1>6. ls = <<>> => rest = <<>>
  BY <1>1
<1> QED
  BY <1>4, <1>5, <1>6

(* They are sequences also where more than one response is under way.      *)
LEMMA RestSeq ==
    ASSUME NEW ls, IsSeq(ls), NEW n \in Nat
    PROVE  IsSeq(SubSeq(ls, n + 1, Len(ls)))
<1>1. PICK T : ls \in Seq(T)
  BY DEF IsSeq
<1>2. SubSeq(ls, n + 1, Len(ls)) \in Seq(T)
  BY <1>1
<1> QED
  BY <1>2, Zenon DEF IsSeq

LEMMA AfterEndSeq == ASSUME NEW ls, IsSeq(ls) PROVE IsSeq(AfterEnd(ls))
<1> DEFINE ends == {i \in DOMAIN ls : ls[i].key = "END"}
           first == CHOOSE i \in ends : \A j \in ends : i <= j
<1>1. PICK T : ls \in Seq(T)
  BY DEF IsSeq
<1>2. ends \subseteq Nat
  BY <1>1
<1>3. CASE ends = {}
  <2>1. AfterEnd(ls) = <<>>
    BY <1>3, Zenon DEF AfterEnd
  <2> QED
    BY <2>1, EmptyIs
<1>4. CASE ends # {}
  <2>1. AfterEnd(ls) = SubSeq(ls, first + 1, Len(ls))
    BY <1>4, Zenon DEF AfterEnd
  <2> HIDE DEF ends
  <2>2. first \in Nat
    BY <1>2, <1>4, NatMin
  <2> HIDE DEF first
  <2> QED
    BY <2>1, <2>2, RestSeq
<1> QED
  BY <1>3, <1>4

LEMMA TailSeq == ASSUME NEW ls, IsSeq(ls), ls # <<>> PROVE IsSeq(Tail(ls))
<1>1. PICK T : ls \in Seq(T)
  BY DEF IsSeq
<1>2. Tail(ls) \in Seq(T)
  BY <1>1
<1> QED
  BY <1>2, Zenon DEF IsSeq

LEMMA TailOneEnd ==
    ASSUME NEW ls, Response(ls)
    PROVE  IsSeq(Tail(ls)) /\ OneEnd(Tail(ls))
<1>1. PICK T : ls \in Seq(T)
  BY DEF IsSeq, Response
<1>2. Tail(ls) = SubSeq(ls, 1 + 1, Len(ls))
  BY <1>1 DEF Response
<1> QED
  BY <1>2, RestOneEnd DEF Response

(* Respond: what the daemon adds to the lines on their way.                *)
LEMMA RespondIs ==
    ASSUME NEW ls, Response(ls), NEW no, IsSeq(toClient), Respond(ls, no)
    PROVE  /\ IsSeq(toClient)' /\ toClient' # <<>>
           /\ toClient # <<>> => toClient'[1] = toClient[1]
           /\ toClient = <<>> => /\ OneEnd(toClient')
                                 /\ toClient'[1].of = no /\ toClient'[1].key = ls[1].key
<1> DEFINE st == Stamped(ls, no)
           U == {[key |-> l.key, val |-> l.val, of |-> no] : l \in {ls[i] : i \in DOMAIN ls}}
<1>1. PICK T : ls \in Seq(T)
  BY DEF IsSeq, Response
<1>2. PICK V : toClient \in Seq(V)
  BY DEF IsSeq
<1>3. st \in Seq(U) /\ Len(st) = Len(ls) /\ DOMAIN st = DOMAIN ls
  BY <1>1 DEF Stamped
<1>4. \A i \in DOMAIN ls : st[i].key = ls[i].key /\ st[i].of = no
  BY DEF Stamped
<1>5. toClient' = toClient \o st
  BY DEF Respond
<1>6. Len(st) > 0 /\ 1 \in DOMAIN ls /\ Len(st) \in Nat
  BY <1>1, <1>3 DEF Response
<1> HIDE DEF st, U
<1>7. toClient' \in Seq(V \cup U) /\ Len(toClient') = Len(toClient) + Len(st)
  <2>1. toClient \in Seq(V \cup U) /\ st \in Seq(V \cup U)
    BY <1>2, <1>3
  <2> QED
    BY <1>5, <2>1
<1>8. IsSeq(toClient)' /\ toClient' # <<>>
  BY <1>2, <1>6, <1>7 DEF IsSeq
<1>9. toClient # <<>> => toClient'[1] = toClient[1]
  BY <1>2, <1>3, <1>5
<1>10. ASSUME toClient = <<>> PROVE toClient' = st
  BY <1>3, <1>5, <1>10
<1>11. toClient = <<>> => /\ OneEnd(toClient')
                          /\ toClient'[1].of = no /\ toClient'[1].key = ls[1].key
  BY <1>3, <1>4, <1>6, <1>10 DEF OneEnd, Response
<1> QED
  BY <1>8, <1>9, <1>11

-----------------------------------------------------------------------------
(* Bodies: lines none of which is END.                                     *)

LEMMA ConcatBody ==
    ASSUME NEW a, NEW b, Body(a), Body(b)
    PROVE  Body(a \o b) /\ (a # <<>> => a \o b # <<>> /\ (a \o b)[1] = a[1])
<1>1. PICK T : a \in Seq(T)
  BY DEF Body, IsSeq
<1>2. PICK U : b \in Seq(U)
  BY DEF Body, IsSeq
<1>3. a \in Seq(T \cup U) /\ b \in Seq(T \cup U)
  BY <1>1, <1>2
<1> DEFINE c == a \o b
<1>4. c \in Seq(T \cup U) /\ Len(c) = Len(a) + Len(b)
  BY <1>3
<1>5. ASSUME NEW i \in DOMAIN c PROVE c[i].key # "END"
  <2>1. i \in 1..(Len(a) + Len(b))
    BY <1>4
  <2>2. CASE i <= Len(a)
    <3>1. i \in DOMAIN a /\ c[i] = a[i]
      BY <1>3, <2>1, <2>2
    <3> QED
      BY <3>1 DEF Body
  <2>3. CASE i > Len(a)
    <3>1. i - Len(a) \in DOMAIN b /\ c[i] = b[i - Len(a)]
      BY <1>3, <2>1, <2>3
    <3> QED
      BY <3>1 DEF Body
  <2> QED
    BY <1>3, <2>1, <2>2, <2>3
<1>6. a # <<>> => c # <<>> /\ c[1] = a[1]
  BY <1>3
<1>7. IsSeq(c)
  BY <1>4, Zenon DEF IsSeq
<1> HIDE DEF c
<1>8. Body(c)
  BY <1>5, <1>7, Zenon DEF Body
<1> QED
  BY <1>6, <1>8 DEF c

(* f concatenates the first sequences of seqs: the equation of FlattenSeq. *)
Flattens(f, seqs, n) ==
    f = [i \in 1..n |-> IF i = 1 THEN seqs[i] ELSE f[i - 1] \o seqs[i]]

(* There is such a function: it can be extended by one sequence more.      *)
LEMMA FlattenExists ==
    ASSUME NEW seqs, NEW n \in Nat
    PROVE  \E f : Flattens(f, seqs, n)
<1> DEFINE T == {k \in Nat : ~\E f : Flattens(f, seqs, k)}
<1>1. SUFFICES ASSUME T # {} PROVE FALSE
  OBVIOUS
<1>2. PICK m \in T : \A k \in T : m <= k
  <2>1. T \subseteq Nat
    OBVIOUS
  <2> HIDE DEF T
  <2> QED
    BY <1>1, <2>1, NatMin
<1>3. m \in Nat /\ ~\E f : Flattens(f, seqs, m)
  OBVIOUS
<1>4. CASE m = 0
  <2> DEFINE g == [i \in 1..m |-> <<>>]
  <2>1. g = [i \in 1..m |-> IF i = 1 THEN seqs[i] ELSE g[i - 1] \o seqs[i]]
    BY <1>4
  <2>2. Flattens(g, seqs, m)
    BY <2>1, Zenon DEF Flattens
  <2> QED
    BY <1>3, <2>2
<1>5. CASE m > 0
  <2>1. m - 1 \in Nat /\ m - 1 < m
    BY <1>3, <1>5
  <2>2. PICK f : Flattens(f, seqs, m - 1)
    <3>1. m - 1 \notin T
      <4> HIDE DEF T
      <4> QED
        BY <1>2, <1>3, <2>1
    <3> QED
      BY <2>1, <3>1
  <2> DEFINE g == [i \in 1..m |-> IF i < m THEN f[i]
                                  ELSE IF i = 1 THEN seqs[i] ELSE f[i - 1] \o seqs[i]]
  <2>3. ASSUME NEW i \in 1..m
        PROVE  g[i] = IF i = 1 THEN seqs[i] ELSE g[i - 1] \o seqs[i]
    <3>1. i # 1 => i - 1 \in 1..m /\ i - 1 < m
      BY <1>3
    <3>2. i # 1 => g[i - 1] = f[i - 1]
      BY <3>1
    <3>3. CASE i < m
      <4>1. i \in 1..(m - 1)
        BY <1>3, <3>3
      <4>2. f[i] = IF i = 1 THEN seqs[i] ELSE f[i - 1] \o seqs[i]
        BY <2>2, <4>1, Zenon DEF Flattens
      <4>3. g[i] = f[i]
        BY <3>3
      <4> HIDE DEF g
      <4> QED
        BY <3>2, <4>2, <4>3
    <3>4. CASE ~(i < m)
      <4>1. g[i] = IF i = 1 THEN seqs[i] ELSE f[i - 1] \o seqs[i]
        BY <3>4
      <4> HIDE DEF g
      <4> QED
        BY <3>2, <4>1
    <3> QED
      BY <3>3, <3>4
  <2>4. Flattens(g, seqs, m)
    <3>1. g = [i \in 1..m |-> g[i]]
      OBVIOUS
    <3> HIDE DEF g
    <3>2. g = [i \in 1..m |-> IF i = 1 THEN seqs[i] ELSE g[i - 1] \o seqs[i]]
      BY <2>3, <3>1, Zenon
    <3> QED
      BY <3>2, Zenon DEF Flattens
  <2> QED
    BY <1>3, <2>4
<1> QED
  BY <1>3, <1>4, <1>5

(* FlattenSeq of bodies is a body and begins as the first one does.        *)
LEMMA FlattenBody ==
    ASSUME NEW T, NEW seqs \in Seq(T), \A i \in DOMAIN seqs : Body(seqs[i]) /\ seqs[i] # <<>>
    PROVE  /\ Body(FlattenSeq(seqs))
           /\ seqs # <<>> => /\ FlattenSeq(seqs) # <<>>
                             /\ FlattenSeq(seqs)[1] = seqs[1][1]
<1> DEFINE n == Len(seqs)
<1>1. CASE n = 0
  <2>1. FlattenSeq(seqs) = seqs /\ seqs = <<>>
    BY <1>1 DEF FlattenSeq
  <2> QED
    BY <2>1, EmptyIs
<1>2. CASE n # 0
  <2> DEFINE flatten == CHOOSE f : Flattens(f, seqs, n)
  <2>1. n \in Nat /\ n > 0 /\ DOMAIN seqs = 1..n
    BY <1>2
  <2> HIDE DEF n
  <2>2. Flattens(flatten, seqs, n)
    <3>1. \E f : Flattens(f, seqs, n)
      BY <2>1, FlattenExists
    <3> QED
      BY <3>1, Zenon
  <2>3. FlattenSeq(seqs) = flatten[n]
    BY <1>2, Zenon DEF FlattenSeq, Flattens, n
  <2> HIDE DEF flatten
  <2> DEFINE Good(k) == Body(flatten[k]) /\ flatten[k] # <<>> /\ flatten[k][1] = seqs[1][1]
             Bad == {k \in 1..n : ~Good(k)}
  <2>4. \A k \in 1..n : flatten[k] = IF k = 1 THEN seqs[k] ELSE flatten[k - 1] \o seqs[k]
    BY <2>2, Zenon DEF Flattens
  <2>5. Good(1)
    <3>1. 1 \in 1..n
      BY <2>1
    <3>2. flatten[1] = seqs[1]
      BY <2>4, <3>1
    <3> QED
      BY <2>1, <3>1, <3>2
  <2>6. ASSUME NEW k \in 1..n, k # 1, Good(k - 1) PROVE Good(k)
    <3>1. flatten[k] = flatten[k - 1] \o seqs[k]
      BY <2>4, <2>6
    <3>2. Body(seqs[k])
      BY <2>1
    <3> DEFINE a == flatten[k - 1]
    <3>3. Body(a) /\ a # <<>> /\ a[1] = seqs[1][1]
      BY <2>6
    <3> HIDE DEF a
    <3>4. Body(a \o seqs[k]) /\ a \o seqs[k] # <<>> /\ (a \o seqs[k])[1] = a[1]
      BY <3>2, <3>3, ConcatBody
    <3>5. flatten[k] = a \o seqs[k]
      BY <3>1 DEF a
    <3> QED
      BY <3>3, <3>4, <3>5, Zenon
  <2> HIDE DEF Good
  <2>7. Bad = {}
    <3> SUFFICES ASSUME Bad # {} PROVE FALSE
      OBVIOUS
    <3>1. PICK m \in Bad : \A k \in Bad : m <= k
      <4>1. Bad \subseteq Nat
        BY <2>1
      <4> HIDE DEF Bad
      <4> QED
        BY <4>1, NatMin
    <3>2. m \in 1..n /\ ~Good(m)
      OBVIOUS
    <3>3. m # 1
      BY <2>5, <3>2
    <3>4. m - 1 \in 1..n /\ m - 1 < m
      BY <2>1, <3>2, <3>3
    <3>5. Good(m - 1)
      BY <2>1, <3>1, <3>2, <3>4
    <3> QED
      BY <2>6, <3>2, <3>3, <3>5
  <2>8. Good(n)
    <3>1. n \in 1..n
      BY <2>1
    <3> QED
      BY <2>7, <3>1
  <2> QED
    BY <2>3, <2>8 DEF Good
<1> QED
  BY <1>1, <1>2

LEMMA SingleBody ==
    ASSUME NEW x, x.key # "END"
    PROVE  Body(<<x>>) /\ <<x>> # <<>> /\ <<x>>[1] = x
<1> DEFINE s == <<x>>
<1>1. s \in Seq({x}) /\ DOMAIN s = {1} /\ s # <<>> /\ s[1] = x
  OBVIOUS
<1> HIDE DEF s
<1>2. IsSeq(s)
  BY <1>1, Zenon DEF IsSeq
<1>3. Body(s)
  BY <1>1, <1>2 DEF Body
<1> QED
  BY <1>1, <1>3 DEF s

(* A body and a last line are a response.                                  *)
LEMMA EndedBody ==
    ASSUME NEW b, Body(b), NEW y
    PROVE  Response(b \o <<y>>) /\ (b # <<>> => (b \o <<y>>)[1] = b[1])
<1> DEFINE ls == b \o <<y>>
<1>1. PICK T : b \in Seq(T)
  BY DEF Body, IsSeq
<1>2. b \in Seq(T \cup {y}) /\ <<y>> \in Seq(T \cup {y}) /\ Len(<<y>>) = 1
  BY <1>1
<1>3. /\ ls \in Seq(T \cup {y}) /\ Len(ls) = Len(b) + 1
      /\ \A i \in 1..Len(b) : ls[i] = b[i]
      /\ Len(b) \in Nat /\ DOMAIN b = 1..Len(b)
  BY <1>2
<1>4. b # <<>> => ls[1] = b[1]
  BY <1>2
<1> HIDE DEF ls
<1>5. IsSeq(ls)
  BY <1>3, Zenon DEF IsSeq
<1>6. ls # <<>> /\ DOMAIN ls = 1..Len(ls)
  BY <1>3
<1>7. OneEnd(ls)
  BY <1>3, <1>6 DEF OneEnd, Body
<1>8. Response(ls)
  BY <1>5, <1>6, <1>7 DEF Response
<1> QED
  BY <1>4, <1>8 DEF ls

(* The daemon's responses.                                                 *)
LEMMA OkResponse ==
    ASSUME NEW body, Body(body)
    PROVE  Response(Ok(body)) /\ Ok(body)[1].key = "OK"
<1> DEFINE ok == Line("OK", "")
           end == Line("END", "")
           b == <<ok>> \o body
<1>1. ok.key = "OK"
  BY DEF Line
<1>2. Ok(body) = b \o <<end>>
  BY DEF Ok
<1> HIDE DEF ok, end
<1>3. Body(b) /\ b # <<>> /\ b[1] = ok
  BY <1>1, SingleBody, ConcatBody
<1> HIDE DEF b
<1>4. Response(b \o <<end>>) /\ (b \o <<end>>)[1] = ok
  BY <1>3, EndedBody
<1> QED
  BY <1>1, <1>2, <1>4

LEMMA ErrorResponse == Response(Error) /\ Error[1].key = "ERROR"
<1> DEFINE x == Line("ERROR", "")
<1>1. x.key = "ERROR" /\ Error = <<x>>
  BY DEF Line, Error
<1> HIDE DEF x
<1>2. Body(<<x>>) /\ <<x>> # <<>> /\ <<x>>[1] = x
  BY <1>1, SingleBody
<1>3. OneEnd(<<x>>) /\ IsSeq(<<x>>)
  BY <1>2, Zenon DEF OneEnd, Body
<1> QED
  BY <1>1, <1>2, <1>3, Zenon DEF Response

LEMMA DoneResponse == Response(Done) /\ Done[1].key = "OK"
<1>1. Body(<<>>)
  BY EmptyIs, Zenon
<1> QED
  BY <1>1, OkResponse, Zenon DEF Done

LEMMA LinesBody ==
    ASSUME NEW T, NEW ls \in Seq(T), \A l \in T : l.key # "END"
    PROVE  Body(ls)
<1>1. \A i \in DOMAIN ls : ls[i] \in T
  OBVIOUS
<1>2. IsSeq(ls)
  BY Zenon DEF IsSeq
<1> QED
  BY <1>1, <1>2 DEF Body

LEMMA EventLinesBody ==
    ASSUME NEW e
    PROVE  Body(EventLines(e)) /\ EventLines(e) # <<>> /\ EventLines(e)[1].key = "event"
<1> DEFINE ls == EventLines(e)
           l1 == Line("event", mygpiod_event_name[e.type])
           l2 == Line("timestamp_ms", e.no)
           l3 == Line("device", "device")
           l4 == Line("type", "type")
           l5 == Line("code", "code")
           l6 == Line("value", "1")
           l7 == Line("gpio", e.gpio)
           T == {l1, l2, l3, l4, l5, l6, l7}
<1>1. ls = <<l1, l2>> \o (IF e.type = "INPUT" THEN <<l3, l4, l5, l6>> ELSE <<l7>>)
  BY DEF EventLines
<1>2. /\ l1.key = "event" /\ l2.key # "END" /\ l3.key # "END" /\ l4.key # "END"
      /\ l5.key # "END" /\ l6.key # "END" /\ l7.key # "END"
  BY DEF Line
<1> HIDE DEF ls, l1, l2, l3, l4, l5, l6, l7
<1>3. \A l \in T : l.key # "END"
  BY <1>2
<1>4. ls \in Seq(T) /\ ls # <<>> /\ ls[1] = l1
  <2>1. CASE e.type = "INPUT"
    <3>1. ls = <<l1, l2>> \o <<l3, l4, l5, l6>>
      BY <1>1, <2>1
    <3>2. <<l1, l2>> \in Seq(T) /\ <<l3, l4, l5, l6>> \in Seq(T)
      OBVIOUS
    <3> QED
      BY <3>1, <3>2
  <2>2. CASE e.type # "INPUT"
    <3>1. ls = <<l1, l2>> \o <<l7>>
      BY <1>1, <2>2
    <3>2. <<l1, l2>> \in Seq(T) /\ <<l7>> \in Seq(T)
      OBVIOUS
    <3> QED
      BY <3>1, <3>2
  <2> QED
    BY <2>1, <2>2
<1>5. Body(ls)
  BY <1>3, <1>4, LinesBody
<1> QED
  BY <1>2, <1>4, <1>5 DEF ls

(* The body of the waiting events, and the response to idle.               *)
LEMMA EventsBodyIs ==
    ASSUME NEW es, IsSeq(es)
    PROVE  /\ Body(EventsBody(es))
           /\ es # <<>> => EventsBody(es) # <<>> /\ EventsBody(es)[1].key = "event"
<1> DEFINE seqs == [i \in DOMAIN es |-> EventLines(es[i])]
           T == {EventLines(es[i]) : i \in DOMAIN es}
<1>1. PICK U : es \in Seq(U)
  BY DEF IsSeq
<1>2. seqs \in Seq(T) /\ Len(seqs) = Len(es) /\ (es # <<>> => seqs # <<>> /\ 1 \in DOMAIN seqs)
  BY <1>1
<1>3. \A i \in DOMAIN seqs : Body(seqs[i]) /\ seqs[i] # <<>> /\ seqs[i][1].key = "event"
  BY EventLinesBody
<1>4. EventsBody(es) = FlattenSeq(seqs)
  BY DEF EventsBody
<1> HIDE DEF seqs, T
<1>5. /\ Body(FlattenSeq(seqs))
      /\ seqs # <<>> => FlattenSeq(seqs) # <<>> /\ FlattenSeq(seqs)[1] = seqs[1][1]
  BY <1>2, <1>3, FlattenBody
<1> QED
  BY <1>2, <1>3, <1>4, <1>5

LEMMA IdleResponse ==
    ASSUME NEW es, IsSeq(es), es # <<>>
    PROVE  LET ls == EventsBody(es) \o <<Line("END", "")>> IN
           Response(ls) /\ ls[1].key = "event"
<1> DEFINE b == EventsBody(es)
           end == Line("END", "")
<1>1. Body(b) /\ b # <<>> /\ b[1].key = "event"
  BY EventsBodyIs
<1> HIDE DEF b, end
<1>2. Response(b \o <<end>>) /\ (b \o <<end>>)[1] = b[1]
  BY <1>1, EndedBody
<1> QED
  BY <1>1, <1>2 DEF b, end

LEMMA ListEntryBody ==
    ASSUME NEW g
    PROVE  Body(ListEntry(g)) /\ ListEntry(g) # <<>>
<1> DEFINE ls == ListEntry(g)
           l1 == Line("gpio", g.id)
           l2 == Line("direction", IF g.direction = "IN" THEN "in" ELSE "out")
           l3 == Line("value", lookup_gpio_value[g.value])
           l4 == Line("name", g.name)
<1>1. ls = <<l1, l2, l3, l4>>
  BY DEF ListEntry
<1>2. /\ l1.key # "END" /\ l2.key # "END" /\ l3.key # "END" /\ l4.key # "END"
  BY DEF Line
<1> HIDE DEF ls, l1, l2, l3, l4
<1>3. ls \in Seq({l1, l2, l3, l4}) /\ ls # <<>>
  BY <1>1
<1> QED
  BY <1>2, <1>3, LinesBody DEF ls

LEMMA InfoInBody == ASSUME NEW g PROVE Body(InfoIn(g))
<1> DEFINE ls == InfoIn(g)
           l1 == Line("direction", "in")
           l2 == Line("value", lookup_gpio_value[g.value])
           l3 == Line("active_low", mygpio_bool_to_str(g.active_low))
           l4 == Line("bias", lookup_bias[g.bias])
           l5 == Line("event_request", lookup_event_request[g.event_request])
           l6 == Line("is_debounced", mygpio_bool_to_str(g.is_debounced))
           l7 == Line("debounce_period_us", g.debounce_period_us)
           l8 == Line("event_clock", lookup_event_clock[g.event_clock])
           l9 == Line("name", g.name)
<1>1. ls = <<l1, l2, l3, l4, l5, l6, l7, l8, l9>>
  BY DEF InfoIn
<1>2. /\ l1.key # "END" /\ l2.key # "END" /\ l3.key # "END" /\ l4.key # "END"
      /\ l5.key # "END" /\ l6.key # "END" /\ l7.key # "END" /\ l8.key # "END"
      /\ l9.key # "END"
  BY DEF Line
<1> HIDE DEF ls, l1, l2, l3, l4, l5, l6, l7, l8, l9
<1>3. ls \in Seq({l1, l2, l3, l4, l5, l6, l7, l8, l9})
  BY <1>1
<1> QED
  BY <1>2, <1>3, LinesBody DEF ls

LEMMA InfoOutBody == ASSUME NEW g PROVE Body(InfoOut(g))
<1> DEFINE ls == InfoOut(g)
           l1 == Line("direction", "out")
           l2 == Line("value", lookup_gpio_value[g.value])
           l3 == Line("drive", lookup_drive[g.drive])
           l4 == Line("name", g.name)
<1>1. ls = <<l1, l2, l3, l4>>
  BY DEF InfoOut
<1>2. /\ l1.key # "END" /\ l2.key # "END" /\ l3.key # "END" /\ l4.key # "END"
  BY DEF Line
<1> HIDE DEF ls, l1, l2, l3, l4
<1>3. ls \in Seq({l1, l2, l3, l4})
  BY <1>1
<1> QED
  BY <1>2, <1>3, LinesBody DEF ls

LEMMA ListResponse ==
    ASSUME NEW gs, IsSeq(gs)
    PROVE  Response(handle_gpiolist(gs))
<1> DEFINE seqs == [i \in DOMAIN gs |-> ListEntry(gs[i])]
           T == {ListEntry(gs[i]) : i \in DOMAIN gs}
<1>1. PICK U : gs \in Seq(U)
  BY DEF IsSeq
<1>2. seqs \in Seq(T)
  BY <1>1
<1>3. \A i \in DOMAIN seqs : Body(seqs[i]) /\ seqs[i] # <<>>
  BY ListEntryBody
<1>4. handle_gpiolist(gs) = Ok(FlattenSeq(seqs))
  BY DEF handle_gpiolist
<1> HIDE DEF seqs, T
<1>5. Body(FlattenSeq(seqs))
  BY <1>2, <1>3, FlattenBody
<1> QED
  BY <1>4, <1>5, OkResponse

LEMMA InfoResponse ==
    ASSUME NEW args, NEW gs, NEW ok \in BOOLEAN
    PROVE  Response(handle_gpioinfo(args, gs, ok))
<1> DEFINE g == Gpio(gs, args[1])
           info == IF ~ok THEN <<>> ELSE IF g.direction = "IN" THEN InfoIn(g) ELSE InfoOut(g)
           body == <<Line("gpio", g.id)>> \o info
<1>1. handle_gpioinfo(args, gs, ok) \in {Error, Ok(body)}
  BY DEF handle_gpioinfo
<1> HIDE DEF g
<1>2. Body(info)
  BY EmptyIs, InfoInBody, InfoOutBody
<1> HIDE DEF info
<1>3. Line("gpio", g.id).key # "END"
  BY DEF Line
<1>4. Body(<<Line("gpio", g.id)>>)
  BY <1>3, SingleBody
<1>5. Body(body)
  BY <1>2, <1>4, ConcatBody
<1> HIDE DEF body
<1> QED
  BY <1>1, <1>5, OkResponse, ErrorResponse

LEMMA GetResponse ==
    ASSUME NEW args, NEW gs
    PROVE  Response(handle_gpioget(args, gs))
<1> DEFINE v == lookup_gpio_value[Gpio(gs, args[1]).value]
           l == Line("value", v)
           body == <<l>>
<1>1. handle_gpioget(args, gs) \in {Error, Ok(body)}
  BY DEF handle_gpioget
<1> HIDE DEF v
<1>2. l.key # "END"
  BY DEF Line
<1> HIDE DEF l
<1>3. Body(body)
  BY <1>2, SingleBody
<1> HIDE DEF body
<1> QED
  BY <1>1, <1>3, OkResponse, ErrorResponse

LEMMA VcioResponse == ASSUME NEW ok \in BOOLEAN PROVE Response(handle_raspberry_vcio(ok))
<1> DEFINE l == Line("value", "mailbox")
           body == <<l>>
<1>1. handle_raspberry_vcio(ok) \in {Error, Ok(body)}
  BY DEF handle_raspberry_vcio
<1>2. l.key # "END"
  BY DEF Line
<1> HIDE DEF l
<1>3. Body(body)
  BY <1>2, SingleBody
<1> HIDE DEF body
<1> QED
  BY <1>1, <1>3, OkResponse, ErrorResponse

-----------------------------------------------------------------------------
(* What reading an element leaves of the lines.                            *)

LEMMA ConcatSeq == ASSUME NEW a, NEW b, IsSeq(a), IsSeq(b) PROVE IsSeq(a \o b)
<1>1. PICK T : a \in Seq(T)
  BY DEF IsSeq
<1>2. PICK U : b \in Seq(U)
  BY DEF IsSeq
<1>3. a \in Seq(T \cup U) /\ b \in Seq(T \cup U)
  BY <1>1, <1>2
<1>4. a \o b \in Seq(T \cup U)
  BY <1>3
<1> QED
  BY <1>4, Zenon DEF IsSeq

LEMMA FieldsSeq == ASSUME NEW name, NEW lines PROVE IsSeq(Fields(name, lines))
<1> DEFINE f1 == <<"gpio", "direction", "value", "name">>
           f2 == <<"gpio", "direction", "value">>
           f3 == <<"active_low", "bias", "event_request", "is_debounced",
                   "debounce_period_us", "event_clock">>
           f4 == <<"drive">>
           f5 == <<"name">>
           f6 == <<"event", "timestamp_ms">>
           f7 == <<"device", "type", "code", "value">>
           f8 == <<"gpio">>
           f9 == <<"value">>
           in == Len(lines) > 1 /\ lines[2].key = "direction" /\ lines[2].val = "in"
           input == /\ Len(lines) > 0 /\ lines[1].key = "event"
                    /\ mygpio_parse_event(lines[1].val) = "INPUT"
<1>1. /\ f1 \in Seq({"gpio", "direction", "value", "name"})
      /\ f2 \in Seq({"gpio", "direction", "value"})
      /\ f3 \in Seq({"active_low", "bias", "event_request", "is_debounced",
                     "debounce_period_us", "event_clock"})
      /\ f4 \in Seq({"drive"}) /\ f5 \in Seq({"name"})
      /\ f6 \in Seq({"event", "timestamp_ms"}) /\ f7 \in Seq({"device", "type", "code", "value"})
      /\ f8 \in Seq({"gpio"}) /\ f9 \in Seq({"value"})
  OBVIOUS
<1>2. /\ ListFields = f1
      /\ InfoFields(lines) = f2 \o (IF in THEN f3 ELSE f4) \o f5
      /\ EventFields(lines) = f6 \o (IF input THEN f7 ELSE f8)
      /\ Fields(name, lines) \in {ListFields, InfoFields(lines), EventFields(lines), f9}
  BY DEF ListFields, InfoFields, EventFields, Fields
<1> HIDE DEF f1, f2, f3, f4, f5, f6, f7, f8, f9, in, input
<1>3. /\ IsSeq(f1) /\ IsSeq(f2) /\ IsSeq(f3) /\ IsSeq(f4) /\ IsSeq(f5) /\ IsSeq(f6)
      /\ IsSeq(f7) /\ IsSeq(f8) /\ IsSeq(f9)
  BY <1>1, Zenon DEF IsSeq
<1>4. IsSeq(IF in THEN f3 ELSE f4) /\ IsSeq(IF input THEN f7 ELSE f8)
  BY <1>3, Zenon
<1>5. IsSeq(InfoFields(lines)) /\ IsSeq(EventFields(lines))
  BY <1>2, <1>3, <1>4, ConcatSeq
<1> QED
  BY <1>2, <1>3, <1>5

LEMMA ReceivedRest ==
    ASSUME NEW name, NEW lines, IsSeq(lines)
    PROVE  \E n \in Nat : Received(name, lines).rest = SubSeq(lines, n + 1, Len(lines))
<1> DEFINE fields == Fields(name, lines)
           bad == {i \in DOMAIN fields : i > Len(lines) \/ ~Fits(name, lines[i], fields[i])}
           first == CHOOSE i \in bad : \A j \in bad : i <= j
           used == IF bad = {} THEN Len(fields)
                   ELSE IF first > Len(lines) THEN Len(lines) ELSE first
<1>1. PICK U : fields \in Seq(U)
  BY FieldsSeq DEF IsSeq
<1>2. PICK T : lines \in Seq(T)
  BY DEF IsSeq
<1>3. Received(name, lines).rest = SubSeq(lines, used + 1, Len(lines))
  BY DEF Received
<1>4. bad \subseteq Nat /\ Len(fields) \in Nat /\ Len(lines) \in Nat
  BY <1>1, <1>2
<1> HIDE DEF fields, bad
<1>5. bad # {} => first \in Nat
  BY <1>4, NatMin
<1> HIDE DEF first
<1>6. used \in Nat
  BY <1>4, <1>5
<1> QED
  BY <1>3, <1>6

-----------------------------------------------------------------------------
(* The daemon's side: its data and what one of its steps does to the lines *)
(* on their way.                                                           *)

DaemonInv ==
    /\ DOMAIN srv = {"state", "waiting", "idle"}
    /\ srv.state \in {"none", "pending", "reading", "idle", "closed"}
    /\ IsSeq(srv.waiting) /\ Len(srv.waiting) <= WAITING_EVENTS_MAX
    /\ IsSeq(raised) /\ Len(raised) <= EventsMax
    /\ IsSeq(gpios)
    /\ effects = [n \in 0..CmdsMax |-> effects[n]]

LinesInv == IsSeq(toServer) /\ IsSeq(toClient)

Acts == Setters \cup {"hook"}

(* An answer that is true of what was made of command c.                   *)
Honest(ok, c, made) == IF ok THEN Fulfilled(c, made) ELSE Spared(c, made)

(* A response to command no is put behind the lines on their way.          *)
NewResponse(no) ==
    /\ toClient' # <<>>
    /\ toClient # <<>> => toClient'[1] = toClient[1]
    /\ toClient = <<>> => OneEnd(toClient') /\ toClient'[1].of = no

Stays == srv'.state = srv.state /\ UNCHANGED <<toServer, toClient, effects>>

Closes ==
    /\ srv.state \in {"pending", "reading"} /\ srv'.state = "closed"
    /\ UNCHANGED <<toServer, toClient, effects>>

Greets ==
    /\ srv.state = "pending" /\ srv'.state = "reading"
    /\ NewResponse(0)
    /\ UNCHANGED <<toServer, effects>>

(* An idle client is told of an event.                                     *)
Tells ==
    /\ srv.state = "idle" /\ srv'.state = "reading"
    /\ NewResponse(srv.idle)
    /\ toClient = <<>> => toClient'[1].key = "event"
    /\ UNCHANGED <<toServer, effects>>

(* idle is handled: the client is idle, or is told of the waiting events.  *)
Idles ==
    /\ srv.state = "reading" /\ toServer # <<>> /\ toServer[1].cmd.name = "idle"
    /\ \/ srv'.state = "idle" /\ UNCHANGED toClient
       \/ /\ srv'.state = "reading"
          /\ NewResponse(toServer[1].no)
          /\ toClient = <<>> => toClient'[1].key = "event"
    /\ toServer' = <<>> /\ UNCHANGED effects

(* Another command is handled, and the answer says what was done.          *)
Serves ==
    /\ srv.state \in {"reading", "idle"} /\ toServer # <<>>
    /\ srv.state = "reading" => toServer[1].cmd.name # "idle"
    /\ srv'.state = "reading"
    /\ NewResponse(toServer[1].no)
    /\ \E made :
          /\ Affect(toServer[1].no, made)
          /\ srv.state = "reading" /\ toServer[1].cmd.name \in Acts /\ toClient = <<>> =>
                Honest(toClient'[1].key = "OK", toServer[1].cmd, made)
    /\ toServer' = <<>>

DaemonStep == Stays \/ Closes \/ Greets \/ Tells \/ Idles \/ Serves

LEMMA RespondNew ==
    ASSUME NEW ls, Response(ls), NEW no, IsSeq(toClient), Respond(ls, no)
    PROVE  /\ IsSeq(toClient)' /\ NewResponse(no)
           /\ toClient = <<>> => toClient'[1].key = ls[1].key
  BY RespondIs DEF NewResponse

LEMMA AppendSeq ==
    ASSUME NEW s, IsSeq(s), NEW e
    PROVE  IsSeq(Append(s, e)) /\ Append(s, e) # <<>> /\ Len(Append(s, e)) = Len(s) + 1
           /\ Len(s) \in Nat
<1>1. PICK T : s \in Seq(T)
  BY DEF IsSeq
<1> DEFINE U == T \cup {e}
<1>2. s \in Seq(U) /\ e \in U
  BY <1>1
<1> HIDE DEF U
<1>3. Append(s, e) \in Seq(U) /\ Len(Append(s, e)) = Len(s) + 1 /\ Len(s) \in Nat
  BY <1>2
<1> DEFINE a == Append(s, e)
<1> HIDE DEF a
<1>4. a \in Seq(U) /\ Len(a) # 0
  BY <1>3 DEF a
<1>5. a # <<>> /\ IsSeq(a)
  BY <1>4 DEF IsSeq
<1> QED
  BY <1>3, <1>5 DEF a

LEMMA KeptSeq ==
    ASSUME NEW s, IsSeq(s), Len(s) <= WAITING_EVENTS_MAX, NEW e
    PROVE  IsSeq(Kept(Append(s, e))) /\ Len(Kept(Append(s, e))) <= WAITING_EVENTS_MAX
<1>1. PICK T : Append(s, e) \in Seq(T)
  BY AppendSeq DEF IsSeq
<1>2. Append(s, e) # <<>> /\ Len(Append(s, e)) = Len(s) + 1 /\ Len(s) \in Nat
  BY AppendSeq
<1> DEFINE a == Append(s, e)
<1> HIDE DEF a
<1>3. a \in Seq(T) /\ a # <<>> /\ Len(a) <= WAITING_EVENTS_MAX + 1 /\ Len(a) \in Nat
  BY <1>1, <1>2, LimitsAssumption DEF a
<1>4. Kept(a) \in Seq(T) /\ Len(Kept(a)) <= WAITING_EVENTS_MAX
  BY <1>3, LimitsAssumption DEF Kept
<1> QED
  BY <1>4 DEF IsSeq, a

LEMMA AcceptIs ==
    ASSUME DaemonInv, LinesInv, Accept
    PROVE  DaemonInv' /\ LinesInv' /\ DaemonStep /\ UNCHANGED <<conn, app, seen>>
<1> USE DEF Accept, LinesInv, DaemonInv
<1>1. CASE srv' = [srv EXCEPT !.state = "closed"] /\ UNCHANGED toClient
  BY <1>1 DEF DaemonStep, Closes
<1>2. CASE /\ srv' = [srv EXCEPT !.state = "reading"]
           /\ Respond(Ok(<<Line("version", <<1, 2, 3>>)>>), 0)
  <2> DEFINE l == Line("version", <<1, 2, 3>>)
  <2>1. l.key # "END"
    BY DEF Line
  <2> HIDE DEF l
  <2>2. Body(<<l>>)
    BY <2>1, SingleBody
  <2>3. Response(Ok(<<l>>))
    BY <2>2, OkResponse
  <2>4. IsSeq(toClient)' /\ NewResponse(0)
    BY <1>2, <2>3, RespondNew DEF l
  <2>5. Greets
    BY <1>2, <2>4 DEF Greets
  <2> QED
    BY <1>2, <2>4, <2>5 DEF DaemonStep
<1> QED
  BY <1>1, <1>2

LEMMA TimeoutIs ==
    ASSUME DaemonInv, LinesInv, ServerTimeout
    PROVE  DaemonInv' /\ LinesInv' /\ DaemonStep /\ UNCHANGED <<conn, app, seen>>
  BY DEF ServerTimeout, LinesInv, DaemonInv, DaemonStep, Closes

LEMMA RaiseIs ==
    ASSUME DaemonInv, LinesInv, NEW type, NEW gpio, RaiseEvent(type, gpio)
    PROVE  DaemonInv' /\ LinesInv' /\ DaemonStep /\ UNCHANGED <<conn, app, seen>>
<1> DEFINE e == NewEvent(type, gpio)
           es == Append(srv.waiting, e)
           Idle == /\ srv.state = "idle"
                   /\ srv' = [srv EXCEPT !.state = "reading", !.waiting = <<>>]
                   /\ Respond(EventsBody(es) \o <<Line("END", "")>>, srv.idle)
           Reading == /\ srv.state = "reading"
                      /\ srv' = [srv EXCEPT !.waiting = Kept(es)]
                      /\ UNCHANGED toClient
<1>1. /\ Len(raised) < EventsMax /\ raised' = Append(raised, e)
      /\ UNCHANGED <<gpios, effects, toServer, conn, app, seen>>
      /\ Idle \/ Reading
  BY Zenon DEF RaiseEvent
<1> HIDE DEF e
<1>2. IsSeq(raised') /\ Len(raised') <= EventsMax /\ IsSeq(gpios') /\ IsSeq(toServer')
  <2>1. /\ IsSeq(Append(raised, e)) /\ Len(Append(raised, e)) = Len(raised) + 1
        /\ Len(raised) \in Nat
    BY AppendSeq DEF DaemonInv
  <2>2. Len(Append(raised, e)) <= EventsMax
    <3>1. Len(raised) < EventsMax
      BY <1>1
    <3> HIDE DEF es, Idle, Reading
    <3> QED
      BY <2>1, <3>1, LimitsAssumption
  <2>3. raised' = Append(raised, e)
    BY <1>1
  <2>4. IsSeq(raised') /\ Len(raised') <= EventsMax
    BY <2>1, <2>2, <2>3, Zenon
  <2>5. IsSeq(gpios') /\ IsSeq(toServer')
    BY <1>1 DEF DaemonInv, LinesInv
  <2> QED
    BY <2>4, <2>5
<1>3. CASE Idle
  <2> DEFINE ls == EventsBody(es) \o <<Line("END", "")>>
  <2>1. IsSeq(es) /\ es # <<>>
    BY AppendSeq DEF DaemonInv
  <2>2. Response(ls) /\ ls[1].key = "event"
    BY <2>1, IdleResponse
  <2> HIDE DEF ls
  <2>3. /\ IsSeq(toClient)' /\ NewResponse(srv.idle)
        /\ toClient = <<>> => toClient'[1].key = "event"
    BY <1>3, <2>2, RespondNew DEF ls, LinesInv
  <2>4. /\ DOMAIN srv' = {"state", "waiting", "idle"}
        /\ srv'.state = "reading" /\ srv'.waiting = <<>>
    BY <1>3 DEF DaemonInv
  <2>5. IsSeq(srv.waiting)' /\ (Len(srv.waiting) <= WAITING_EVENTS_MAX)'
    BY <2>4, EmptyIs, LimitsAssumption
  <2>6. Tells
    BY <1>1, <1>3, <2>3, <2>4 DEF Tells
  <2> QED
    BY <1>1, <1>2, <2>3, <2>4, <2>5, <2>6 DEF DaemonStep, DaemonInv, LinesInv
<1>4. CASE Reading
  <2>1. IsSeq(Kept(es)) /\ Len(Kept(es)) <= WAITING_EVENTS_MAX
    BY KeptSeq DEF DaemonInv
  <2> HIDE DEF es
  <2>2. /\ DOMAIN srv' = {"state", "waiting", "idle"}
        /\ srv'.state = srv.state /\ srv'.waiting = Kept(es)
    BY <1>4 DEF DaemonInv
  <2>3. Stays
    BY <1>1, <1>4, <2>2 DEF Stays
  <2> QED
    BY <1>1, <1>2, <1>4, <2>1, <2>2, <2>3 DEF DaemonStep, DaemonInv, LinesInv
<1> QED
  BY <1>1, <1>3, <1>4

(* A line that is set takes one of two values; gpioset's is the one named. *)
LEMMA SetsNamedValue ==
    ASSUME NEW c, NEW gs, SetsLine(c, gs)
    PROVE  /\ NewValue(c, gs) \in LineValues
           /\ c.name = "gpioset" => lookup_gpio_value[NewValue(c, gs)] = c.args[2]
<1>1. CASE c.name = "gpioset"
  <2>1. /\ \E v \in DOMAIN lookup_gpio_value : lookup_gpio_value[v] = c.args[2]
        /\ parse_gpio_value(c.args[2]) # "ERROR"
    BY <1>1 DEF SetsLine, handle_gpioset_valid
  <2>2. /\ parse_gpio_value(c.args[2]) \in DOMAIN lookup_gpio_value
        /\ lookup_gpio_value[parse_gpio_value(c.args[2])] = c.args[2]
    BY <2>1 DEF parse_gpio_value, Spelled
  <2>3. DOMAIN lookup_gpio_value = {"ERROR", "INACTIVE", "ACTIVE"}
    BY DEF lookup_gpio_value
  <2> QED
    BY <1>1, <2>1, <2>2, <2>3 DEF NewValue, LineValues
<1>2. CASE c.name # "gpioset"
  BY <1>2 DEF NewValue, LineValues
<1> QED
  BY <1>1, <1>2

LEMMA SettersBoolean ==
    ASSUME NEW c, NEW gs
    PROVE  SetsLine(c, gs) \in BOOLEAN
  BY DEF SetsLine, handle_gpioset_valid, handle_gpiotoggle_valid, handle_gpioblink_valid,
         IsOutput

(* What the handlers of gpioset, gpiotoggle, gpioblink and hook do.        *)
LEMMA ActIs ==
    ASSUME DaemonInv, LinesInv, NEW c, NEW no, NEW fails,
           \/ c.name \in Setters /\ HandleSet(c, no, fails)
           \/ c.name = "hook" /\ HandleHook(c, no, fails)
    PROVE  /\ DaemonInv' /\ IsSeq(toClient)' /\ srv'.state = srv.state
           /\ NewResponse(no)
           /\ \E made :
                /\ Affect(no, made)
                /\ toClient = <<>> => Honest(toClient'[1].key = "OK", c, made)
<1>1. ASSUME NEW ok \in BOOLEAN, Respond(IF ok THEN Done ELSE Error, no)
      PROVE  /\ IsSeq(toClient)' /\ NewResponse(no)
             /\ toClient = <<>> => (toClient'[1].key = "OK") = ok
  <2>1. CASE ok
    <3>1. Respond(Done, no)
      BY <1>1, <2>1
    <3> QED
      BY <2>1, <3>1, RespondNew, DoneResponse DEF LinesInv
  <2>2. CASE ~ok
    <3>1. Respond(Error, no)
      BY <1>1, <2>2
    <3> QED
      BY <2>2, <3>1, RespondNew, ErrorResponse DEF LinesInv
  <2> QED
    BY <2>1, <2>2
<1>2. CASE c.name = "hook" /\ HandleHook(c, no, fails)
  <2> DEFINE found == handle_hook_valid(c.args) /\ fails = "nothing"
             made == IF found THEN {<<"hook">>} ELSE {}
  <2>1. /\ Affect(no, made) /\ Respond(IF found THEN Done ELSE Error, no)
        /\ UNCHANGED <<gpios, raised, srv>>
    BY <1>2, Zenon DEF HandleHook
  <2>2. found \in BOOLEAN
    OBVIOUS
  <2>3. Honest(found, c, made)
    BY <1>2 DEF Honest, Fulfilled, Spared
  <2> HIDE DEF found, made
  <2>4. DaemonInv' /\ srv'.state = srv.state
    BY <2>1 DEF DaemonInv, Affect
  <2>5. /\ IsSeq(toClient)' /\ NewResponse(no)
        /\ toClient = <<>> => (toClient'[1].key = "OK") = found
    BY <1>1, <2>1, <2>2
  <2>6. toClient = <<>> => Honest(toClient'[1].key = "OK", c, made)
    BY <2>3, <2>5
  <2> QED
    BY <2>1, <2>4, <2>5, <2>6
<1>3. CASE c.name \in Setters /\ HandleSet(c, no, fails)
  <2> DEFINE sets == SetsLine(c, gpios) /\ fails # "line"
             blinks == c.name = "gpioblink" /\ sets /\ fails # "timer"
             v == NewValue(c, gpios)
             e == NewEvent(IF v = "ACTIVE" THEN "GPIO_RISING" ELSE "GPIO_FALLING", c.args[1])
             made == (IF sets THEN {<<"line", c.args[1], v>>} ELSE {}) \cup
                     (IF blinks THEN {<<"timer", c.args[1], c.args[2], c.args[3]>>} ELSE {})
             ok == SetterResult(c, sets, blinks)
             Change == IF sets
                       THEN /\ Len(raised) < EventsMax
                            /\ gpios' = SetValue(gpios, c.args[1], v)
                            /\ raised' = Append(raised, e)
                            /\ srv' = [srv EXCEPT !.waiting = Kept(Append(@, e))]
                       ELSE UNCHANGED <<gpios, raised, srv>>
  <2>1. Affect(no, made) /\ Respond(IF ok THEN Done ELSE Error, no) /\ Change
    BY <1>3, Zenon DEF HandleSet
  <2>2. ok \in BOOLEAN /\ sets \in BOOLEAN /\ blinks \in BOOLEAN
    BY SettersBoolean, <1>3 DEF SetterResult
  <2>3. sets => v \in LineValues /\ (c.name = "gpioset" => lookup_gpio_value[v] = c.args[2])
    BY SetsNamedValue
  <2>4. blinks => sets /\ c.name = "gpioblink"
    OBVIOUS
  <2> HIDE DEF sets, blinks, v, e
  <2>5. Honest(ok, c, made)
    <3>1. CASE ~sets
      BY <2>4, <3>1 DEF Honest, Spared, SetterResult
    <3>2. CASE sets /\ c.name = "gpioblink"
      BY <2>3, <3>2 DEF Honest, Spared, Fulfilled, SetterResult
    <3>3. CASE sets /\ c.name # "gpioblink"
      <4>1. made = {<<"line", c.args[1], v>>} /\ ok
        BY <2>4, <3>3 DEF SetterResult
      <4> HIDE DEF made, ok
      <4> QED
        BY <1>3, <2>3, <3>3, <4>1 DEF Honest, Fulfilled, Setters
    <3> QED
      BY <2>2, <3>1, <3>2, <3>3
  <2> HIDE DEF made, ok
  <2>6. DaemonInv' /\ srv'.state = srv.state
    <3>1. CASE sets
      <4> DEFINE w == Kept(Append(srv.waiting, e))
      <4>1. /\ Len(raised) < EventsMax /\ gpios' = SetValue(gpios, c.args[1], v)
            /\ raised' = Append(raised, e) /\ srv' = [srv EXCEPT !.waiting = w]
        BY <2>1, <3>1
      <4>2. IsSeq(gpios')
        <5>1. PICK T : gpios \in Seq(T)
          BY DEF DaemonInv, IsSeq
        <5> DEFINE U == {gpios'[i] : i \in DOMAIN gpios}
        <5>2. DOMAIN gpios' = 1..Len(gpios) /\ Len(gpios) \in Nat /\ gpios' = [i \in DOMAIN gpios |-> gpios'[i]]
          BY <4>1, <5>1 DEF SetValue
        <5>3. gpios' \in Seq(U)
          BY <5>1, <5>2
        <5> QED
          BY <5>3, Zenon DEF IsSeq
      <4>3. IsSeq(raised') /\ Len(raised') <= EventsMax
        <5>1. /\ IsSeq(Append(raised, e)) /\ Len(Append(raised, e)) = Len(raised) + 1
              /\ Len(raised) \in Nat
          BY AppendSeq DEF DaemonInv
        <5>2. Len(Append(raised, e)) <= EventsMax
          BY <4>1, <5>1, LimitsAssumption
        <5> QED
          BY <4>1, <5>1, <5>2, Zenon
      <4>4. IsSeq(w) /\ Len(w) <= WAITING_EVENTS_MAX
        BY KeptSeq DEF DaemonInv
      <4> HIDE DEF w
      <4>5. DOMAIN srv' = DOMAIN srv /\ srv'.state = srv.state /\ srv'.waiting = w
        BY <4>1 DEF DaemonInv
      <4> QED
        BY <2>1, <4>2, <4>3, <4>4, <4>5 DEF DaemonInv, Affect
    <3>2. CASE ~sets
      BY <2>1, <3>2 DEF DaemonInv, Affect
    <3> QED
      BY <3>1, <3>2
  <2>7. /\ IsSeq(toClient)' /\ NewResponse(no)
        /\ toClient = <<>> => (toClient'[1].key = "OK") = ok
    BY <1>1, <2>1, <2>2
  <2>8. toClient = <<>> => Honest(toClient'[1].key = "OK", c, made)
    BY <2>5, <2>7
  <2> QED
    BY <2>1, <2>6, <2>7, <2>8
<1> QED
  BY <1>2, <1>3

(* What a command that only reads does.                                    *)
LEMMA ReadIs ==
    ASSUME DaemonInv, LinesInv, NEW c, NEW no, NEW fails, c.name \in Readers,
           HandleRead(c, no, fails)
    PROVE  IsSeq(toClient)' /\ NewResponse(no) /\ UNCHANGED daemon
<1>1. (fails = "nothing") \in BOOLEAN
  OBVIOUS
<1>2. CASE c.name = "gpiolist"
  <2>1. Respond(handle_gpiolist(gpios), no) /\ UNCHANGED daemon
    BY <1>2 DEF HandleRead
  <2> QED
    BY <2>1, ListResponse, RespondNew DEF DaemonInv, LinesInv
<1>3. CASE c.name = "gpioinfo"
  <2>1. Respond(handle_gpioinfo(c.args, gpios, fails = "nothing"), no) /\ UNCHANGED daemon
    BY <1>3 DEF HandleRead
  <2>2. Response(handle_gpioinfo(c.args, gpios, fails = "nothing"))
    BY <1>1, InfoResponse
  <2> QED
    BY <2>1, <2>2, RespondNew DEF DaemonInv, LinesInv
<1>4. CASE c.name = "gpioget"
  <2>1. Respond(handle_gpioget(c.args, gpios), no) /\ UNCHANGED daemon
    BY <1>4 DEF HandleRead
  <2> QED
    BY <2>1, GetResponse, RespondNew DEF DaemonInv, LinesInv
<1>5. CASE c.name = "vcio"
  <2>1. Respond(handle_raspberry_vcio(fails = "nothing"), no) /\ UNCHANGED daemon
    BY <1>5 DEF HandleRead
  <2>2. Response(handle_raspberry_vcio(fails = "nothing"))
    BY <1>1, VcioResponse
  <2> QED
    BY <2>1, <2>2, RespondNew DEF DaemonInv, LinesInv
<1> QED
  BY <1>2, <1>3, <1>4, <1>5 DEF Readers

(* Nothing done is no effect.                                              *)
LEMMA NothingMade ==
    ASSUME DaemonInv, UNCHANGED effects, NEW no
    PROVE  Affect(no, {})
<1>1. effects[no] \cup {} = effects[no]
  OBVIOUS
<1> QED
  BY <1>1 DEF DaemonInv, Affect

LEMMA CommandIs ==
    ASSUME DaemonInv, LinesInv, ServerCommand
    PROVE  DaemonInv' /\ LinesInv' /\ DaemonStep /\ UNCHANGED <<conn, app, seen>>
<1> DEFINE c == toServer[1].cmd
           no == toServer[1].no
           Refused == /\ srv.state = "idle" /\ c.name # "noidle"
                      /\ srv' = [srv EXCEPT !.state = "reading"]
                      /\ Respond(Error, no)
                      /\ UNCHANGED <<gpios, raised, effects>>
           Idle == /\ srv.state # "idle" /\ c.name = "idle"
                   /\ HandleIdle(no)
                   /\ UNCHANGED <<gpios, raised, effects>>
           Noidle == /\ c.name = "noidle"
                     /\ HandleNoidle(no)
                     /\ UNCHANGED <<gpios, raised, effects>>
           Other == /\ srv.state # "idle"
                    /\ \E fails \in {"nothing", "line", "timer"} :
                         \/ c.name \in Setters /\ HandleSet(c, no, fails)
                         \/ c.name = "hook" /\ HandleHook(c, no, fails)
                         \/ c.name \in Readers /\ HandleRead(c, no, fails)
<1>1. /\ srv.state \in {"reading", "idle"} /\ toServer # <<>> /\ toServer' = <<>>
      /\ UNCHANGED <<conn, app, seen>>
      /\ Refused \/ Idle \/ Noidle \/ Other
  BY Zenon DEF ServerCommand
<1>2. IsSeq(toServer')
  BY <1>1, EmptyIs
<1> HIDE DEF c, no
<1>3. CASE Refused
  <2>1. IsSeq(toClient)' /\ NewResponse(no)
    BY <1>3, RespondNew, ErrorResponse DEF LinesInv
  <2>2. DaemonInv' /\ srv'.state = "reading"
    BY <1>3 DEF DaemonInv
  <2>3. Affect(no, {})
    BY <1>3, NothingMade
  <2>4. Serves
    BY <1>1, <1>3, <2>1, <2>2, <2>3 DEF Serves, c, no
  <2> QED
    BY <1>1, <1>2, <2>1, <2>2, <2>4 DEF DaemonStep, LinesInv
<1>4. CASE Idle
  <2>1. srv.state = "reading"
    BY <1>1, <1>4
  <2>2. CASE srv.waiting = <<>>
    <3>1. srv' = [srv EXCEPT !.state = "idle", !.idle = no] /\ UNCHANGED toClient
      BY <1>4, <2>2 DEF HandleIdle
    <3>2. DaemonInv' /\ srv'.state = "idle" /\ IsSeq(toClient')
      BY <1>4, <3>1 DEF DaemonInv, LinesInv
    <3>3. Idles
      BY <1>1, <1>4, <2>1, <3>1, <3>2 DEF Idles, c
    <3> QED
      BY <1>1, <1>2, <3>2, <3>3 DEF DaemonStep, LinesInv
  <2>3. CASE srv.waiting # <<>>
    <3> DEFINE ls == EventsBody(srv.waiting) \o <<Line("END", "")>>
    <3>1. srv' = [srv EXCEPT !.waiting = <<>>] /\ Respond(ls, no)
      BY <1>4, <2>3 DEF HandleIdle
    <3>2. Response(ls) /\ ls[1].key = "event"
      BY <2>3, IdleResponse DEF DaemonInv
    <3> HIDE DEF ls
    <3>3. IsSeq(toClient)' /\ NewResponse(no) /\ (toClient = <<>> => toClient'[1].key = "event")
      BY <3>1, <3>2, RespondNew DEF LinesInv
    <3>4. DOMAIN srv' = DOMAIN srv /\ srv'.state = srv.state /\ srv'.waiting = <<>>
      BY <3>1 DEF DaemonInv
    <3>5. IsSeq(srv'.waiting) /\ Len(srv'.waiting) <= WAITING_EVENTS_MAX
      BY <3>4, EmptyIs, LimitsAssumption
    <3>6. DaemonInv'
      BY <1>4, <3>4, <3>5 DEF DaemonInv
    <3>7. Idles
      BY <1>1, <1>4, <2>1, <3>3, <3>4 DEF Idles, c, no
    <3> QED
      BY <1>1, <1>2, <3>3, <3>6, <3>7 DEF DaemonStep, LinesInv
  <2> QED
    BY <2>2, <2>3
<1>5. CASE Noidle
  <2> DEFINE ls == Ok(EventsBody(srv.waiting))
  <2>1. srv' = [srv EXCEPT !.state = "reading", !.waiting = <<>>] /\ Respond(ls, no)
    BY <1>5 DEF HandleNoidle
  <2>2. Response(ls)
    BY EventsBodyIs, OkResponse DEF DaemonInv
  <2> HIDE DEF ls
  <2>3. IsSeq(toClient)' /\ NewResponse(no)
    BY <2>1, <2>2, RespondNew DEF LinesInv
  <2>4. DOMAIN srv' = DOMAIN srv /\ srv'.state = "reading" /\ srv'.waiting = <<>>
    BY <2>1 DEF DaemonInv
  <2>5. IsSeq(srv'.waiting) /\ Len(srv'.waiting) <= WAITING_EVENTS_MAX
    BY <2>4, EmptyIs, LimitsAssumption
  <2>6. DaemonInv'
    BY <1>5, <2>4, <2>5 DEF DaemonInv
  <2>7. Affect(no, {})
    BY <1>5, NothingMade
  <2>8. Serves
    BY <1>1, <1>5, <2>3, <2>4, <2>7 DEF Serves, Acts, Setters, c, no
  <2> QED
    BY <1>1, <1>2, <2>3, <2>6, <2>8 DEF DaemonStep, LinesInv
<1>6. CASE Other
  <2>1. srv.state = "reading"
    BY <1>1, <1>6
  <2>2. PICK fails : \/ c.name \in Setters /\ HandleSet(c, no, fails)
                     \/ c.name = "hook" /\ HandleHook(c, no, fails)
                     \/ c.name \in Readers /\ HandleRead(c, no, fails)
    BY <1>6
  <2>3. CASE c.name \in Readers /\ HandleRead(c, no, fails)
    <3>1. IsSeq(toClient)' /\ NewResponse(no) /\ UNCHANGED daemon
      BY <2>3, ReadIs
    <3>2. DaemonInv' /\ srv'.state = "reading" /\ Affect(no, {})
      BY <2>1, <3>1, NothingMade DEF DaemonInv, daemon
    <3>3. Serves
      BY <1>1, <2>1, <2>3, <3>1, <3>2 DEF Serves, Readers, Acts, Setters, c, no
    <3> QED
      BY <1>1, <1>2, <3>1, <3>2, <3>3 DEF DaemonStep, LinesInv
  <2>4. CASE \/ c.name \in Setters /\ HandleSet(c, no, fails)
             \/ c.name = "hook" /\ HandleHook(c, no, fails)
    <3>1. /\ DaemonInv' /\ IsSeq(toClient)' /\ srv'.state = srv.state
          /\ NewResponse(no)
          /\ \E made :
               /\ Affect(no, made)
               /\ toClient = <<>> => Honest(toClient'[1].key = "OK", c, made)
      BY <2>4, ActIs
    <3>2. c.name # "idle"
      BY <2>4 DEF Setters
    <3>3. Serves
      BY <1>1, <2>1, <3>1, <3>2 DEF Serves, c, no
    <3> QED
      BY <1>1, <1>2, <3>1, <3>3 DEF DaemonStep, LinesInv
  <2> QED
    BY <2>2, <2>3, <2>4
<1> QED
  BY <1>1, <1>3, <1>4, <1>5, <1>6

-----------------------------------------------------------------------------
(* The caller's side.                                                      *)

(* The state of caller and connection.                                     *)
CallerInv ==
    /\ DOMAIN app = {"prog", "pc", "cmd", "no", "conns", "rc", "read", "crossed"}
    /\ DOMAIN app.cmd = {"name", "args"}
    /\ app.prog \in {"mygpioc", "session"} /\ app.crossed \in BOOLEAN
    /\ app.pc \in {"start", "handshake", "ready", "sent", "body", "ending", "idle",
                   "quiet", "leaving", "failed", "exit"}
    /\ app.no \in 0..CmdsMax /\ app.conns \in 0..ConnsMax
    /\ conn \in [fd : BOOLEAN, state : {"OK", "ERROR", "FATAL"}]
    /\ DOMAIN seen = {"elem", "events", "no", "of", "cmd", "verdict"}

(* Numbers: nothing is done for a command before it was sent.              *)
NumberInv ==
    /\ \A n \in 1..CmdsMax : n > app.no => effects[n] = {}
    /\ \A i \in DOMAIN toServer : toServer[i].no \in 1..app.no

(* Where a caller can be with which command.                               *)
ProgramInv ==
    /\ app.pc = "exit" <=> app.rc # "none"
    /\ app.pc = "exit" => ~Session
    /\ app.pc \in {"quiet", "leaving"} => Session
    /\ app.pc = "start" => seen = Nothing
    /\ app.pc = "idle" => app.cmd.name = "idle"
    /\ app.pc = "sent" => app.cmd.name # "idle"
    /\ app.pc \in {"body", "ending"} => app.cmd.name \notin Acts
    /\ ~Session => seen.cmd.name \in {"none", app.cmd.name}
    /\ app.rc = "EXIT_SUCCESS" /\ seen.cmd.name \in Acts => seen.verdict = "ok"

(* The daemon has closed the connection and nothing is left to be read.    *)
Dead == srv.state = "closed" /\ toClient = <<>>

(* Nothing is on its way to the daemon, and the client is not idle.        *)
Served == srv.state \in {"reading", "closed"} /\ toServer = <<>>

(* What may be left of a response that is being read.                      *)
Reading == Dead \/ (Served /\ OneEnd(toClient))

(* The connection can be used, or its end was noticed by the library.      *)
Live == conn.fd /\ (conn.state = "OK" \/ (conn.state = "FATAL" /\ Dead))

Opening ==
    /\ conn.fd /\ conn.state = "OK" /\ toServer = <<>>
    /\ \/ srv.state = "pending" /\ toClient = <<>>
       \/ srv.state \in {"reading", "closed"} /\ OneEnd(toClient)

(* The command is on its way.                                              *)
Sending ==
    /\ srv.state = "reading" /\ toClient = <<>>
    /\ Len(toServer) = 1 /\ toServer[1].no = app.no /\ toServer[1].cmd = Worded(app.cmd)
    /\ effects[app.no] = {}

(* Its answer is there, and true.                                          *)
Answered ==
    /\ Served
    /\ toClient # <<>> /\ OneEnd(toClient) /\ toClient[1].of = app.no
    /\ app.cmd.name \in Acts => Honest(toClient[1].key = "OK", app.cmd, effects[app.no])

(* idle was sent: it is on its way, the client is idle, or events came.    *)
IdleSent ==
    /\ toClient = <<>> /\ srv.state = "reading"
    /\ toServer # <<>> /\ toServer[1].cmd.name = "idle"
IdleMode == toClient = <<>> /\ srv.state = "idle" /\ toServer = <<>>
IdleTold == Served /\ OneEnd(toClient) /\ (toClient # <<>> => toClient[1].key = "event")

(* noidle was sent: it is lost behind the idle before it, it will be       *)
(* answered, or the events come first and are no status.                   *)
Leaving ==
    /\ app.cmd.name = "noidle"
    /\ \/ toClient # <<>> /\ toClient[1].key = "event"
       \/ IdleSent
       \/ IdleMode
       \/ /\ toClient = <<>> /\ srv.state = "idle"
          /\ toServer # <<>> /\ toServer[1].cmd.name = "noidle" /\ toServer[1].no = app.no

Phase ==
    /\ app.pc = "handshake" => Opening
    /\ app.pc = "ready" => Live /\ toClient = <<>> /\ (Served \/ Dead)
    /\ app.pc = "sent" =>
          conn.fd /\ conn.state = "OK" /\ (Dead \/ Sending \/ Answered \/ Leaving)
    /\ app.pc \in {"idle", "quiet", "leaving"} =>
          Live /\ (Dead \/ IdleSent \/ IdleMode \/ IdleTold)
    /\ app.pc \in {"body", "ending"} => Live /\ Reading
    /\ app.pc = "failed" => conn.state = "FATAL" \/ (conn.fd /\ Reading)

PhaseInv == ~app.crossed => Phase

(* What the caller was told of its last command.                           *)
TellInv ==
    ~app.crossed /\ seen.verdict \in {"ok", "error"} =>
        /\ seen.of = seen.no /\ seen.no \in 0..app.no
        /\ \A i \in DOMAIN toServer : seen.no < toServer[i].no
        /\ seen.cmd.name \in Acts => Honest(seen.verdict = "ok", seen.cmd, effects[seen.no])

-----------------------------------------------------------------------------
(* The daemon's steps keep what the caller relies on.                      *)

LEMMA DeadStays == ASSUME Dead, DaemonStep PROVE Dead'
  BY DEF Dead, DaemonStep, Stays, Closes, Greets, Tells, Idles, Serves

LEMMA ServedStays ==
    ASSUME Served, DaemonStep
    PROVE  Served' /\ toClient' = toClient /\ effects' = effects
  BY DEF Served, DaemonStep, Stays, Closes, Greets, Tells, Idles, Serves

LEMMA ReadingStays == ASSUME Reading, DaemonStep PROVE Reading'
<1>1. CASE Dead
  BY <1>1, DeadStays DEF Reading
<1>2. CASE Served /\ OneEnd(toClient)
  BY <1>2, ServedStays DEF Reading
<1> QED
  BY <1>1, <1>2 DEF Reading

LEMMA LiveStays == ASSUME Live, DaemonStep, UNCHANGED conn PROVE Live'
  BY DeadStays DEF Live

LEMMA OpeningStays == ASSUME Opening, DaemonStep, UNCHANGED conn PROVE Opening'
<1>1. CASE srv.state = "pending" /\ toClient = <<>>
  <2>1. OneEnd(<<>>)
    BY EmptyIs
  <2> QED
    BY <1>1, <2>1
    DEF Opening, DaemonStep, Stays, Closes, Greets, Tells, Idles, Serves, NewResponse
<1>2. CASE srv.state \in {"reading", "closed"} /\ OneEnd(toClient)
  <2>1. Served
    BY <1>2 DEF Opening, Served
  <2>2. Served' /\ toClient' = toClient
    BY <2>1, ServedStays
  <2> QED
    BY <1>2, <2>2 DEF Opening, Served
<1> QED
  BY <1>1, <1>2 DEF Opening

LEMMA AnsweredStays == ASSUME Answered, DaemonStep, UNCHANGED app PROVE Answered'
  BY ServedStays DEF Answered

(* gpioset words its value; the command is the same.                       *)
LEMMA WordedName ==
    ASSUME NEW c, DOMAIN c = {"name", "args"}
    PROVE  Worded(c).name = c.name
  BY DEF Worded

(* libmygpio words the value of gpioset so that the daemon reads the one   *)
(* the caller named.                                                       *)
LEMMA WordedHonest ==
    ASSUME NEW c, NEW ok \in BOOLEAN, NEW made, Honest(ok, Worded(c), made)
    PROVE  Honest(ok, c, made)
<1>1. CASE c.name # "gpioset"
  BY <1>1 DEF Worded
<1>2. CASE c.name = "gpioset" /\ ~ok
  BY <1>2 DEF Worded, Honest, Spared
<1>3. CASE c.name = "gpioset" /\ ok
  <2> DEFINE u == mygpio_gpio_parse_value(c.args[2])
             w == Worded(c)
  <2>1. w.name = "gpioset" /\ w.args[1] = c.args[1] /\ w.args[2] = mygpio_gpio_lookup_value[u]
    BY <1>3 DEF Worded
  <2> HIDE DEF w
  <2>2. PICK v \in LineValues :
          lookup_gpio_value[v] = w.args[2] /\ made = {<<"line", w.args[1], v>>}
    BY <1>3, <2>1 DEF Honest, Fulfilled, w
  <2>3. /\ DOMAIN mygpio_gpio_lookup_value = {"ACTIVE", "INACTIVE", "UNKNOWN"}
        /\ mygpio_gpio_lookup_value["UNKNOWN"] = "unknown"
        /\ lookup_gpio_value[v] \in {"active", "inactive"}
    BY DEF mygpio_gpio_lookup_value, lookup_gpio_value, LineValues
  <2>4. u # "UNKNOWN"
    BY <2>1, <2>2, <2>3
  <2>5. mygpio_gpio_lookup_value[u] = c.args[2]
    BY <2>4 DEF mygpio_gpio_parse_value, Spelled
  <2> QED
    BY <1>3, <2>1, <2>2, <2>5 DEF Honest, Fulfilled
<1> QED
  BY <1>1, <1>2, <1>3

LEMMA SendingStep ==
    ASSUME Sending, DaemonStep, app.cmd.name # "idle", UNCHANGED app,
           DaemonInv, app.no \in 1..CmdsMax, DOMAIN app.cmd = {"name", "args"}
    PROVE  Dead' \/ Sending' \/ Answered'
<1>4. Worded(app.cmd).name = app.cmd.name
  BY WordedName
<1>1. CASE Stays
  BY <1>1 DEF Stays, Sending
<1>2. CASE Closes
  BY <1>2 DEF Closes, Sending, Dead
<1>3. CASE Serves
  <2>1. Served' /\ toClient' # <<>> /\ OneEnd(toClient') /\ toClient'[1].of = app.no
    BY <1>3 DEF Serves, Sending, NewResponse, Served
  <2>2. ASSUME app.cmd.name \in Acts
        PROVE  Honest(toClient'[1].key = "OK", app.cmd, effects'[app.no])
    <3>1. PICK made :
            /\ Affect(app.no, made)
            /\ Honest(toClient'[1].key = "OK", Worded(app.cmd), made)
      BY <1>3, <1>4, <2>2 DEF Serves, Sending
    <3>2. effects'[app.no] = made
      <4>1. DOMAIN effects = 0..CmdsMax
        BY DEF DaemonInv
      <4>2. app.no \in 0..CmdsMax /\ effects[app.no] = {}
        BY LimitsAssumption DEF Sending
      <4>3. effects' = [effects EXCEPT ![app.no] = {} \cup made]
        BY <3>1, <4>2 DEF Affect
      <4>4. {} \cup made = made
        OBVIOUS
      <4> QED
        BY <4>1, <4>2, <4>3, <4>4
    <3> QED
      BY <3>1, <3>2, WordedHonest
  <2> QED
    BY <2>1, <2>2 DEF Answered
<1> QED
  BY <1>1, <1>2, <1>3, <1>4 DEF Sending, DaemonStep, Greets, Tells, Idles

LEMMA IdleStep ==
    ASSUME IdleSent \/ IdleMode \/ IdleTold, DaemonStep
    PROVE  Dead' \/ IdleSent' \/ IdleMode' \/ IdleTold'
<1>1. CASE IdleTold
  BY <1>1, ServedStays DEF IdleTold
<1>2. CASE IdleMode
  BY <1>2 DEF IdleMode, IdleTold, Served, NewResponse,
              DaemonStep, Stays, Closes, Greets, Tells, Idles, Serves
<1>3. CASE IdleSent
  BY <1>3 DEF IdleSent, IdleMode, IdleTold, Dead, Served, NewResponse,
              DaemonStep, Stays, Closes, Greets, Tells, Idles, Serves
<1> QED
  BY <1>1, <1>2, <1>3

LEMMA LeavingStep ==
    ASSUME Leaving, DaemonStep, UNCHANGED app
    PROVE  Dead' \/ Answered' \/ Leaving'
<1>1. CASE toClient # <<>> /\ toClient[1].key = "event"
  BY <1>1 DEF Leaving, NewResponse, DaemonStep, Stays, Closes, Greets, Tells, Idles, Serves
<1>2. CASE IdleSent
  BY <1>2 DEF Leaving, IdleSent, IdleMode, Dead, NewResponse,
              DaemonStep, Stays, Closes, Greets, Tells, Idles, Serves
<1>3. CASE IdleMode
  BY <1>3 DEF Leaving, IdleMode, NewResponse,
              DaemonStep, Stays, Closes, Greets, Tells, Idles, Serves
<1>4. CASE /\ toClient = <<>> /\ srv.state = "idle"
           /\ toServer # <<>> /\ toServer[1].cmd.name = "noidle" /\ toServer[1].no = app.no
  <2>1. "noidle" \notin Acts
    BY DEF Acts, Setters
  <2>2. CASE Stays
    BY <1>4, <2>2 DEF Leaving, Stays
  <2>3. CASE Tells
    BY <1>4, <2>3 DEF Leaving, Tells, NewResponse
  <2>4. CASE Serves
    BY <1>4, <2>1, <2>4 DEF Leaving, Serves, NewResponse, Answered, Served
  <2> QED
    BY <1>4, <2>2, <2>3, <2>4 DEF DaemonStep, Closes, Greets, Idles
<1> QED
  BY <1>1, <1>2, <1>3, <1>4 DEF Leaving

Invs == DaemonInv /\ LinesInv /\ CallerInv /\ NumberInv /\ ProgramInv /\ PhaseInv /\ TellInv

LEMMA DaemonKeeps ==
    ASSUME Invs, DaemonStep, DaemonInv', LinesInv', UNCHANGED <<conn, app, seen>>
    PROVE  Invs'
<1>1. CallerInv' /\ ProgramInv'
  BY DEF Invs, CallerInv, ProgramInv, Session
<1>2. /\ toServer' \in {toServer, <<>>}
      /\ \/ effects' = effects
         \/ toServer # <<>> /\ toServer' = <<>> /\ \E made : Affect(toServer[1].no, made)
  BY DEF DaemonStep, Stays, Closes, Greets, Tells, Idles, Serves
<1>3. toServer # <<>> => 1 \in DOMAIN toServer
  <2>1. PICK T : toServer \in Seq(T)
    BY DEF Invs, LinesInv, IsSeq
  <2> QED
    BY <2>1
<1>4. ASSUME NEW n \in 0..CmdsMax, toServer # <<>> => n # toServer[1].no
      PROVE  effects'[n] = effects[n]
  <2>1. DOMAIN effects = 0..CmdsMax
    BY DEF Invs, DaemonInv
  <2> QED
    BY <1>2, <1>4, <2>1 DEF Affect
<1>5. app.no \in 0..CmdsMax /\ CmdsMax \in Nat
  BY LimitsAssumption DEF Invs, CallerInv
<1>6. NumberInv'
  <2>1. /\ \A n \in 1..CmdsMax : n > app.no => effects[n] = {}
        /\ \A i \in DOMAIN toServer : toServer[i].no \in 1..app.no
    BY DEF Invs, NumberInv
  <2>2. ASSUME NEW n \in 1..CmdsMax, n > app.no PROVE effects'[n] = {}
    <3>1. toServer # <<>> => toServer[1].no \in 1..app.no
      BY <1>3, <2>1
    <3>2. toServer # <<>> => n # toServer[1].no
      BY <1>5, <2>2, <3>1
    <3> QED
      BY <1>4, <1>5, <2>1, <2>2, <3>2
  <2>3. \A i \in DOMAIN toServer' : toServer'[i].no \in 1..app.no
    BY <1>2, <2>1
  <2> QED
    BY <2>2, <2>3 DEF NumberInv
<1>7. TellInv'
  <2> SUFFICES ASSUME ~app.crossed, seen.verdict \in {"ok", "error"}
               PROVE  /\ seen.of = seen.no /\ seen.no \in 0..app.no
                      /\ \A i \in DOMAIN toServer' : seen.no < toServer'[i].no
                      /\ seen.cmd.name \in Acts =>
                            Honest(seen.verdict = "ok", seen.cmd, effects'[seen.no])
    BY DEF TellInv
  <2>1. /\ seen.of = seen.no /\ seen.no \in 0..app.no
        /\ \A i \in DOMAIN toServer : seen.no < toServer[i].no
        /\ seen.cmd.name \in Acts => Honest(seen.verdict = "ok", seen.cmd, effects[seen.no])
    BY DEF Invs, TellInv
  <2>2. \A i \in DOMAIN toServer' : seen.no < toServer'[i].no
    BY <1>2, <2>1
  <2>3. effects'[seen.no] = effects[seen.no]
    <3>1. toServer # <<>> => seen.no # toServer[1].no
      <4>1. seen.no \in Int /\ (toServer # <<>> => seen.no < toServer[1].no)
        BY <1>3, <2>1 DEF Invs, CallerInv
      <4>2. toServer # <<>> => toServer[1].no \in Int
        BY <1>3 DEF Invs, NumberInv, CallerInv
      <4> QED
        BY <4>1, <4>2
    <3> QED
      BY <1>4, <1>5, <2>1, <3>1
  <2> QED
    BY <2>1, <2>2, <2>3
<1>8. ASSUME ~app.crossed PROVE Phase'
  <2>1. Phase
    BY <1>8 DEF Invs, PhaseInv
  <2>2. CASE app.pc = "handshake"
    BY <2>1, <2>2, OpeningStays DEF Phase
  <2>3. CASE app.pc = "ready"
    <3>1. Live' /\ (Served \/ Dead)' /\ toClient' = toClient
      <4>1. Live /\ (Served \/ Dead) /\ toClient = <<>>
        BY <2>1, <2>3 DEF Phase
      <4>2. Dead => Dead' /\ toClient' = <<>>
        BY DeadStays DEF Dead
      <4> QED
        BY <4>1, <4>2, LiveStays, ServedStays
    <3> QED
      BY <2>1, <2>3, <3>1 DEF Phase
  <2>4. CASE app.pc = "sent"
    <3>1. conn.fd /\ conn.state = "OK" /\ (Dead \/ Sending \/ Answered \/ Leaving)
      BY <2>1, <2>4 DEF Phase
    <3>2. app.cmd.name # "idle"
      BY <2>4 DEF Invs, ProgramInv
    <3>3. Sending => app.no \in 1..CmdsMax
      <4>1. Sending => toServer # <<>>
        BY EmptyIs DEF Sending
      <4>2. Sending => app.no \in 1..app.no
        BY <1>3, <4>1 DEF Sending, Invs, NumberInv
      <4> QED
        BY <1>5, <4>2
    <3>4. Dead' \/ Sending' \/ Answered' \/ Leaving'
      BY <3>1, <3>2, <3>3, DeadStays, SendingStep, AnsweredStays, LeavingStep DEF Invs, CallerInv
    <3> QED
      BY <2>4, <3>1, <3>4 DEF Phase
  <2>5. CASE app.pc \in {"idle", "quiet", "leaving"}
    <3>1. Live /\ (Dead \/ IdleSent \/ IdleMode \/ IdleTold)
      BY <2>1, <2>5 DEF Phase
    <3>2. Live' /\ (Dead' \/ IdleSent' \/ IdleMode' \/ IdleTold')
      BY <3>1, LiveStays, DeadStays, IdleStep
    <3> QED
      BY <2>5, <3>2 DEF Phase
  <2>6. CASE app.pc \in {"body", "ending"}
    <3>1. Live' /\ Reading'
      BY <2>1, <2>6, LiveStays, ReadingStays DEF Phase
    <3> QED
      BY <2>6, <3>1 DEF Phase
  <2>7. CASE app.pc = "failed"
    <3>1. conn.state = "FATAL" \/ (conn.fd /\ Reading')
      BY <2>1, <2>7, ReadingStays DEF Phase
    <3> QED
      BY <2>7, <3>1 DEF Phase
  <2>8. CASE app.pc \in {"start", "exit"}
    BY <2>8 DEF Phase
  <2> QED
    BY <2>2, <2>3, <2>4, <2>5, <2>6, <2>7, <2>8 DEF Invs, CallerInv
<1>9. PhaseInv'
  BY <1>8 DEF PhaseInv
<1> QED
  BY <1>1, <1>6, <1>7, <1>9 DEF Invs

-----------------------------------------------------------------------------
(* The caller's steps.                                                     *)

LEMMA ConnectKeeps == ASSUME Invs, Connect PROVE Invs'
<1>1. /\ app.pc = "start" /\ app.conns < ConnsMax /\ toServer' = <<>> /\ toClient' = <<>>
      /\ UNCHANGED <<gpios, raised, effects, seen>>
  BY DEF Connect
<1>2. LinesInv' /\ OneEnd(toClient')
  BY <1>1, EmptyIs DEF LinesInv
<1>3. app.conns + 1 \in 0..ConnsMax
  BY <1>1, LimitsAssumption DEF Invs, CallerInv
<1>4. PICK c \in IF Session THEN {NoCmd} ELSE CmdLines :
         \/ /\ Session \/ get_command(c)
            /\ \/ /\ conn' = [fd |-> TRUE, state |-> "OK"]
                  /\ srv' = [state |-> "pending", waiting |-> <<>>, idle |-> 0]
                  /\ app' = [app EXCEPT !.pc = "handshake", !.cmd = c, !.conns = @ + 1]
               \/ /\ conn' = [fd |-> FALSE, state |-> "FATAL"]
                  /\ app' = [Return(FALSE) EXCEPT !.conns = @ + 1]
                  /\ UNCHANGED srv
         \/ /\ ~Session /\ ~get_command(c)
            /\ app' = Return(FALSE)
            /\ UNCHANGED <<conn, srv>>
  BY DEF Connect
<1>5. seen = Nothing /\ seen.cmd.name = "none" /\ seen.verdict = "none" /\ app.rc = "none"
  BY <1>1 DEF Invs, ProgramInv, Nothing, NoCmd
<1>6. "none" \notin Acts
  BY DEF Acts, Setters
<1>7. app'.no = app.no => NumberInv' /\ TellInv'
  BY <1>1, <1>5 DEF Invs, NumberInv, TellInv
<1>8. CASE /\ conn' = [fd |-> TRUE, state |-> "OK"]
           /\ srv' = [state |-> "pending", waiting |-> <<>>, idle |-> 0]
           /\ app' = [app EXCEPT !.pc = "handshake", !.cmd = c, !.conns = @ + 1]
  <2>1. IsSeq(srv'.waiting) /\ Len(srv'.waiting) <= WAITING_EVENTS_MAX
    BY <1>8, EmptyIs, LimitsAssumption
  <2>2. DaemonInv'
    BY <1>1, <1>8, <2>1 DEF Invs, DaemonInv
  <2>3. CallerInv' /\ app'.no = app.no
    <3>1. DOMAIN c = {"name", "args"}
      BY ShapesAssumption DEF NoCmd
    <3> QED
      BY <1>1, <1>3, <1>8, <3>1 DEF Invs, CallerInv
  <2>4. ProgramInv'
    BY <1>1, <1>5, <1>6, <1>8 DEF Invs, CallerInv, ProgramInv, Session
  <2>5. PhaseInv'
    BY <1>1, <1>2, <1>8 DEF Invs, CallerInv, PhaseInv, Phase, Opening
  <2> QED
    BY <1>2, <1>7, <2>2, <2>3, <2>4, <2>5 DEF Invs
<1>9. CASE /\ conn' = [fd |-> FALSE, state |-> "FATAL"]
           /\ app' = [Return(FALSE) EXCEPT !.conns = @ + 1]
           /\ UNCHANGED srv
  <2>1. DaemonInv'
    BY <1>1, <1>9 DEF Invs, DaemonInv
  <2>2. CallerInv' /\ app'.no = app.no
    BY <1>1, <1>3, <1>9 DEF Invs, CallerInv, Return, Session
  <2>3. ProgramInv'
    BY <1>1, <1>5, <1>6, <1>9 DEF Invs, CallerInv, ProgramInv, Session, Return
  <2>4. PhaseInv'
    BY <1>1, <1>2, <1>9 DEF Invs, CallerInv, PhaseInv, Phase, Return, Session
  <2> QED
    BY <1>2, <1>7, <2>1, <2>2, <2>3, <2>4 DEF Invs
<1>10. CASE ~Session /\ app' = Return(FALSE) /\ UNCHANGED <<conn, srv>>
  <2>1. DaemonInv'
    BY <1>1, <1>10 DEF Invs, DaemonInv
  <2>2. CallerInv' /\ app'.no = app.no
    BY <1>1, <1>10 DEF Invs, CallerInv, Return, Session
  <2>3. ProgramInv'
    BY <1>1, <1>5, <1>6, <1>10 DEF Invs, CallerInv, ProgramInv, Session, Return
  <2>4. PhaseInv'
    BY <1>1, <1>2, <1>10 DEF Invs, CallerInv, PhaseInv, Phase, Return, Session
  <2> QED
    BY <1>2, <1>7, <2>1, <2>2, <2>3, <2>4 DEF Invs
<1> QED
  BY <1>4, <1>8, <1>9, <1>10

(* Steps of the caller alone: the daemon and the commands under way stay.  *)
LEMMA DaemonKept ==
    ASSUME Invs, UNCHANGED <<daemon, toServer>>, IsSeq(toClient'), app'.no = app.no
    PROVE  DaemonInv' /\ LinesInv' /\ NumberInv'
  BY DEF Invs, DaemonInv, LinesInv, NumberInv, daemon

LEMMA TellKept ==
    ASSUME Invs, UNCHANGED <<daemon, toServer>>, app'.no = app.no, app'.crossed = app.crossed,
           seen'.of = seen.of, seen'.no = seen.no, seen'.cmd = seen.cmd,
           seen'.verdict = seen.verdict
    PROVE  TellInv'
  BY DEF Invs, TellInv, daemon

LEMMA CallerKeeps ==
    ASSUME Invs, UNCHANGED <<daemon, toServer>>, IsSeq(toClient'),
           app'.no = app.no, app'.crossed = app.crossed,
           seen'.of = seen.of, seen'.no = seen.no, seen'.cmd = seen.cmd,
           seen'.verdict = seen.verdict,
           CallerInv', ProgramInv', ~app.crossed => Phase'
    PROVE  Invs'
<1>1. DaemonInv' /\ LinesInv' /\ NumberInv'
  BY DaemonKept
<1>2. TellInv'
  BY TellKept
<1>3. PhaseInv'
  BY DEF PhaseInv
<1> QED
  BY <1>1, <1>2, <1>3 DEF Invs

LEMMA HandshakeKeeps == ASSUME Invs, Handshake PROVE Invs'
<1>1. app.pc = "handshake" /\ UNCHANGED <<daemon, toServer, seen>> /\ IsSeq(toClient)
  BY DEF Handshake, Invs, LinesInv
<1>2. app.rc = "none"
  BY <1>1 DEF Invs, ProgramInv
<1>3. IsSeq(toClient')
  <2>1. toClient' = toClient \/ toClient' = AfterEnd(toClient)
    BY DEF Handshake
  <2> QED
    BY <1>1, <2>1, AfterEndSeq
<1>4. CASE Fail("FATAL") /\ app' = Return(FALSE)
  <2>1. CallerInv' /\ app'.no = app.no /\ app'.crossed = app.crossed
    BY <1>1, <1>4 DEF Invs, CallerInv, Return, Session, Fail
  <2>2. ProgramInv'
    BY <1>1, <1>2, <1>4 DEF Invs, CallerInv, ProgramInv, Session, Return
  <2>3. Phase'
    BY <1>1, <1>4 DEF Invs, CallerInv, Phase, Return, Session, Fail
  <2> QED
    BY <1>1, <1>3, <2>1, <2>2, <2>3, CallerKeeps
<1>5. CASE /\ app' = [app EXCEPT !.pc = "ready"] /\ UNCHANGED conn
           /\ toClient # <<>> /\ toClient' = AfterEnd(toClient)
  <2>1. CallerInv' /\ app'.no = app.no /\ app'.crossed = app.crossed /\ app'.pc = "ready"
    BY <1>1, <1>5 DEF Invs, CallerInv
  <2>2. ProgramInv'
    BY <1>1, <1>2, <1>5 DEF Invs, CallerInv, ProgramInv, Session
  <2>3. ASSUME ~app.crossed PROVE Phase'
    <3>1. Opening
      BY <1>1, <2>3 DEF Invs, PhaseInv, Phase
    <3>2. OneEnd(toClient) /\ Served
      BY <1>5, <3>1 DEF Opening, Served
    <3>3. toClient' = <<>>
      BY <1>1, <1>5, <3>2, AfterEndEmpty
    <3>4. Live' /\ Served'
      BY <1>1, <1>5, <3>1, <3>2 DEF Opening, Live, Served, daemon
    <3> QED
      BY <2>1, <3>3, <3>4 DEF Phase
  <2> QED
    BY <1>1, <1>3, <2>1, <2>2, <2>3, CallerKeeps
<1> QED
  BY <1>4, <1>5 DEF Handshake

LEMMA WaitIdleKeeps == ASSUME Invs, WaitIdle PROVE Invs'
<1>1. /\ app.pc = "idle" /\ app' = [app EXCEPT !.pc = "body"]
      /\ UNCHANGED <<daemon, toServer, toClient, conn, seen>>
      /\ toClient # <<>> \/ srv.state = "closed"
  BY DEF WaitIdle
<1>2. CallerInv' /\ app'.no = app.no /\ app'.crossed = app.crossed /\ app'.pc = "body"
  BY <1>1 DEF Invs, CallerInv
<1>3. ProgramInv'
  BY <1>1 DEF Invs, CallerInv, ProgramInv, Session, Acts, Setters
<1>4. ASSUME ~app.crossed PROVE Phase'
  <2>1. Live /\ (Dead \/ IdleSent \/ IdleMode \/ IdleTold)
    BY <1>1, <1>4 DEF Invs, PhaseInv, Phase
  <2>2. Reading
    BY <1>1, <2>1 DEF IdleSent, IdleMode, IdleTold, Reading
  <2>3. Live' /\ Reading'
    BY <1>1, <2>1, <2>2 DEF Live, Reading, Dead, Served, OneEnd, daemon
  <2> QED
    BY <1>2, <2>3 DEF Phase
<1>5. IsSeq(toClient')
  BY <1>1 DEF Invs, LinesInv
<1> QED
  BY <1>1, <1>2, <1>3, <1>4, <1>5, CallerKeeps

LEMMA WaitIdleTimeoutKeeps == ASSUME Invs, WaitIdleTimeout PROVE Invs'
<1>1. /\ app.pc = "idle"
      /\ app' = IF Session THEN [app EXCEPT !.pc = "quiet"] ELSE Return(FALSE)
      /\ UNCHANGED <<daemon, toServer, toClient, conn, seen>>
  BY DEF WaitIdleTimeout
<1>2. /\ CallerInv' /\ app'.no = app.no /\ app'.crossed = app.crossed
      /\ app'.pc \in {"quiet", "exit"}
  BY <1>1 DEF Invs, CallerInv, Session, Return
<1>3. ProgramInv'
  BY <1>1 DEF Invs, CallerInv, ProgramInv, Session, Return
<1>4. ASSUME ~app.crossed PROVE Phase'
  <2>1. Live /\ (Dead \/ IdleSent \/ IdleMode \/ IdleTold)
    BY <1>1, <1>4 DEF Invs, PhaseInv, Phase
  <2>2. Live' /\ (Dead' \/ IdleSent' \/ IdleMode' \/ IdleTold')
    BY <1>1, <2>1 DEF Live, Dead, IdleSent, IdleMode, IdleTold, Served, OneEnd, daemon
  <2> QED
    BY <1>2, <2>2 DEF Phase
<1>5. IsSeq(toClient')
  BY <1>1 DEF Invs, LinesInv
<1> QED
  BY <1>1, <1>2, <1>3, <1>4, <1>5, CallerKeeps

LEMMA QuietEndKeeps == ASSUME Invs, QuietEnd PROVE Invs'
<1>1. /\ app.pc = "quiet" /\ app' = [app EXCEPT !.pc = "leaving"]
      /\ toClient' = AfterEnd(toClient)
      /\ UNCHANGED <<daemon, toServer, conn, seen>>
  BY DEF QuietEnd
<1>2. CallerInv' /\ app'.no = app.no /\ app'.crossed = app.crossed /\ app'.pc = "leaving"
  BY <1>1 DEF Invs, CallerInv
<1>3. ProgramInv'
  BY <1>1 DEF Invs, CallerInv, ProgramInv, Session
<1>4. IsSeq(toClient) /\ IsSeq(toClient')
  BY <1>1, AfterEndSeq DEF Invs, LinesInv
<1>5. ASSUME ~app.crossed PROVE Phase'
  <2>1. Live /\ (Dead \/ IdleSent \/ IdleMode \/ IdleTold)
    BY <1>1, <1>5 DEF Invs, PhaseInv, Phase
  <2>2. OneEnd(toClient)
    <3>1. OneEnd(<<>>)
      BY EmptyIs
    <3> QED
      BY <2>1, <3>1 DEF Dead, IdleSent, IdleMode, IdleTold
  <2>3. toClient' = <<>> /\ OneEnd(toClient')
    BY <1>1, <1>4, <2>2, AfterEndEmpty, EmptyIs
  <2>4. Live' /\ (Dead' \/ IdleSent' \/ IdleMode' \/ IdleTold')
    BY <1>1, <2>1, <2>3 DEF Live, Dead, IdleSent, IdleMode, IdleTold, Served, daemon
  <2> QED
    BY <1>2, <2>4 DEF Phase
<1> QED
  BY <1>1, <1>2, <1>3, <1>4, <1>5, CallerKeeps

LEMMA ClearErrorKeeps == ASSUME Invs, ClearError PROVE Invs'
<1>1. /\ app.pc = "failed" /\ conn.state # "FATAL" /\ app' = [app EXCEPT !.pc = "ready"]
      /\ conn' = [conn EXCEPT !.state = "OK"]
      /\ toClient' = AfterEnd(toClient)
      /\ UNCHANGED <<daemon, toServer, seen>>
  BY DEF ClearError
<1>2. CallerInv' /\ app'.no = app.no /\ app'.crossed = app.crossed /\ app'.pc = "ready"
  BY <1>1 DEF Invs, CallerInv
<1>3. ProgramInv'
  BY <1>1 DEF Invs, CallerInv, ProgramInv, Session
<1>4. IsSeq(toClient) /\ IsSeq(toClient')
  BY <1>1, AfterEndSeq DEF Invs, LinesInv
<1>5. ASSUME ~app.crossed PROVE Phase'
  <2>1. conn.fd /\ Reading
    BY <1>1, <1>5 DEF Invs, PhaseInv, Phase
  <2>2. OneEnd(toClient)
    <3>1. OneEnd(<<>>)
      BY EmptyIs
    <3> QED
      BY <2>1, <3>1 DEF Reading, Dead
  <2>3. toClient' = <<>>
    BY <1>1, <1>4, <2>2, AfterEndEmpty
  <2>4. Live' /\ (Served \/ Dead)'
    BY <1>1, <2>1, <2>3 DEF Live, Dead, Reading, Served, daemon, Invs, CallerInv
  <2> QED
    BY <1>2, <2>3, <2>4 DEF Phase
<1> QED
  BY <1>1, <1>2, <1>3, <1>4, <1>5, CallerKeeps

LEMMA ReceiveKeeps == ASSUME Invs, Receive PROVE Invs'
<1> DEFINE r == IF connection_check THEN Received(app.cmd.name, toClient)
                ELSE [ok |-> FALSE, rest |-> toClient, elem |-> NoElem]
<1>1. /\ app.pc = "body" /\ toClient' = r.rest
      /\ UNCHANGED <<daemon, toServer, conn>>
      /\ \E x, y : seen' = [seen EXCEPT !.elem = x, !.events = y]
      /\ \E pc \in {"body", "ending"} : \E read :
            app' = [app EXCEPT !.pc = pc, !.read = read]
  BY Zenon DEF Receive
<1>2. PICK n \in Nat : r.rest = toClient \/ r.rest = SubSeq(toClient, n + 1, Len(toClient))
  <2>1. IsSeq(toClient)
    BY DEF Invs, LinesInv
  <2>2. CASE connection_check
    BY <2>1, <2>2, ReceivedRest
  <2>3. CASE ~connection_check
    BY <2>3
  <2> QED
    BY <2>2, <2>3
<1> HIDE DEF r
<1>3. /\ CallerInv' /\ app'.no = app.no /\ app'.crossed = app.crossed
      /\ app'.pc \in {"body", "ending"} /\ app'.cmd = app.cmd /\ app'.prog = app.prog
      /\ app'.rc = app.rc
      /\ seen'.of = seen.of /\ seen'.no = seen.no /\ seen'.cmd = seen.cmd
      /\ seen'.verdict = seen.verdict
  BY <1>1 DEF Invs, CallerInv
<1>4. ProgramInv'
  BY <1>1, <1>3 DEF Invs, ProgramInv, Session
<1>5. IsSeq(toClient) /\ IsSeq(toClient')
  <2>1. IsSeq(toClient)
    BY DEF Invs, LinesInv
  <2>2. IsSeq(SubSeq(toClient, n + 1, Len(toClient)))
    BY <2>1, RestSeq
  <2> QED
    BY <1>1, <1>2, <2>1, <2>2, Zenon
<1>6. ASSUME ~app.crossed PROVE Phase'
  <2>1. Live /\ Reading
    BY <1>1, <1>6 DEF Invs, PhaseInv, Phase
  <2>2. OneEnd(toClient)
    <3>1. OneEnd(<<>>)
      BY EmptyIs
    <3> QED
      BY <2>1, <3>1 DEF Reading, Dead
  <2>3. OneEnd(toClient') /\ (toClient = <<>> => toClient' = <<>>)
    <3> DEFINE rest == SubSeq(toClient, n + 1, Len(toClient))
    <3>1. OneEnd(rest) /\ (toClient = <<>> => rest = <<>>)
      BY <1>5, <2>2, RestOneEnd
    <3>2. toClient' = toClient \/ toClient' = rest
      BY <1>1, <1>2
    <3> HIDE DEF rest
    <3> QED
      BY <2>2, <3>1, <3>2
  <2>4. Live' /\ Reading'
    BY <1>1, <2>1, <2>3 DEF Live, Reading, Dead, Served, daemon
  <2> QED
    BY <1>3, <2>4 DEF Phase
<1> QED
  BY <1>1, <1>3, <1>4, <1>5, <1>6, CallerKeeps

LEMMA ResponseEndKeeps == ASSUME Invs, ResponseEnd PROVE Invs'
<1>1. /\ app.pc \in {"body", "ending"}
      /\ toClient' = IF connection_check THEN AfterEnd(toClient) ELSE toClient
      /\ app' = IF Session THEN Return(TRUE) ELSE Return(app.read)
      /\ seen' = [seen EXCEPT !.elem = NoElem]
      /\ UNCHANGED <<daemon, toServer, conn>>
  BY DEF ResponseEnd
<1>2. /\ CallerInv' /\ app'.no = app.no /\ app'.crossed = app.crossed
      /\ app'.pc = IF Session THEN "ready" ELSE "exit"
      /\ app'.cmd = app.cmd /\ app'.prog = app.prog
      /\ seen'.of = seen.of /\ seen'.no = seen.no /\ seen'.cmd = seen.cmd
      /\ seen'.verdict = seen.verdict
  BY <1>1 DEF Invs, CallerInv, Session, Return
<1>3. app'.rc # "none" <=> ~Session
  BY <1>1 DEF Invs, CallerInv, ProgramInv, Session, Return
<1>4. ~Session => seen.cmd.name \notin Acts
  <2>1. app.cmd.name \notin Acts /\ "none" \notin Acts
    BY <1>1 DEF Invs, ProgramInv, Acts, Setters
  <2> QED
    BY <2>1 DEF Invs, ProgramInv
<1>5. app'.rc = "EXIT_SUCCESS" => ~Session
  BY <1>3
<1>6. ProgramInv'
  BY <1>2, <1>3, <1>4, <1>5 DEF Invs, ProgramInv, Session
<1>7. IsSeq(toClient) /\ IsSeq(toClient')
  BY <1>1, AfterEndSeq DEF Invs, LinesInv
<1>8. ASSUME ~app.crossed PROVE Phase'
  <2>1. Live /\ Reading
    BY <1>1, <1>8 DEF Invs, PhaseInv, Phase
  <2>2. OneEnd(toClient)
    <3>1. OneEnd(<<>>)
      BY EmptyIs
    <3> QED
      BY <2>1, <3>1 DEF Reading, Dead
  <2>3. toClient' = <<>>
    <3>1. CASE connection_check
      BY <1>1, <1>7, <2>2, <3>1, AfterEndEmpty
    <3>2. CASE ~connection_check
      BY <1>1, <2>1, <3>2 DEF connection_check, Live, Dead
    <3> QED
      BY <3>1, <3>2
  <2>4. Live' /\ (Served \/ Dead)'
    BY <1>1, <2>1, <2>3 DEF Live, Dead, Reading, Served, daemon
  <2> QED
    BY <1>2, <2>3, <2>4 DEF Phase
<1> QED
  BY <1>1, <1>2, <1>6, <1>7, <1>8, CallerKeeps

LEMMA FreeKeeps == ASSUME Invs, Free PROVE Invs'
<1>1. /\ srv' = [srv EXCEPT !.state = "none", !.waiting = <<>>]
      /\ conn' = [conn EXCEPT !.fd = FALSE]
      /\ toServer' = <<>> /\ toClient' = <<>>
      /\ UNCHANGED <<gpios, raised, effects>>
  BY DEF Free
<1>2. LinesInv'
  BY <1>1, EmptyIs DEF LinesInv
<1>3. DaemonInv'
  <2>1. IsSeq(srv'.waiting) /\ Len(srv'.waiting) <= WAITING_EVENTS_MAX
    BY <1>1, EmptyIs, LimitsAssumption DEF Invs, DaemonInv
  <2> QED
    BY <1>1, <2>1 DEF Invs, DaemonInv
<1>4. CASE /\ Session /\ app' = [app EXCEPT !.pc = "start", !.crossed = FALSE]
           /\ seen' = Nothing /\ app.pc \in {"ready", "failed"}
  <2>1. CallerInv' /\ app'.no = app.no /\ app'.pc = "start"
    BY <1>1, <1>4 DEF Invs, CallerInv, Nothing
  <2>2. ProgramInv'
    BY <1>1, <1>4 DEF Invs, CallerInv, ProgramInv, Session, Nothing, Acts, Setters
  <2>3. NumberInv' /\ TellInv' /\ PhaseInv'
    BY <1>1, <1>4, <2>1 DEF Invs, NumberInv, TellInv, PhaseInv, Phase, Nothing
  <2> QED
    BY <1>2, <1>3, <2>1, <2>2, <2>3 DEF Invs
<1>5. CASE ~Session /\ app' = app /\ seen' = seen /\ app.pc = "exit"
  <2>1. CallerInv'
    BY <1>1, <1>5 DEF Invs, CallerInv
  <2>2. ProgramInv'
    BY <1>1, <1>5 DEF Invs, CallerInv, ProgramInv, Session
  <2>3. NumberInv'
    BY <1>1, <1>5 DEF Invs, NumberInv
  <2>4. TellInv'
    BY <1>1, <1>5 DEF Invs, TellInv
  <2>5. PhaseInv'
    BY <1>1, <1>5 DEF PhaseInv, Phase
  <2> QED
    BY <1>2, <1>3, <2>1, <2>2, <2>3, <2>4, <2>5 DEF Invs
<1>6. app.pc = "exit" => ~Session
  BY DEF Invs, ProgramInv
<1> QED
  BY <1>4, <1>5, <1>6 DEF Free

LEMMA StatusTimeoutKeeps == ASSUME Invs, StatusTimeout PROVE Invs'
<1>1. /\ app.pc = "sent" /\ Fail("FATAL") /\ app' = Return(FALSE)
      /\ seen' = Told("fatal", app.no)
      /\ UNCHANGED <<daemon, toServer, toClient>>
  BY DEF StatusTimeout
<1>2. /\ CallerInv' /\ app'.no = app.no /\ app'.cmd = app.cmd /\ app'.prog = app.prog
      /\ app'.pc = IF Session THEN "failed" ELSE "exit"
      /\ seen'.cmd = app.cmd /\ seen'.verdict = "fatal"
      /\ conn'.state = "FATAL"
  BY <1>1 DEF Invs, CallerInv, Session, Return, Fail, Told
<1>3. app'.rc = IF Session THEN "none" ELSE "EXIT_FAILURE"
  BY <1>1 DEF Invs, CallerInv, ProgramInv, Session, Return
<1>4. ProgramInv'
  BY <1>2, <1>3 DEF ProgramInv, Session
<1>5. IsSeq(toClient')
  BY <1>1 DEF Invs, LinesInv
<1>6. DaemonInv' /\ LinesInv' /\ NumberInv'
  BY <1>1, <1>2, <1>5, DaemonKept
<1>7. PhaseInv' /\ TellInv'
  BY <1>2 DEF PhaseInv, Phase, TellInv
<1> QED
  BY <1>2, <1>4, <1>6, <1>7 DEF Invs

(* What is read as a status is the answer, unless noidle has crossed.      *)
LEMMA StatusIsAnswer ==
    ASSUME Invs, ~app.crossed, app.pc = "sent", toClient # <<>>,
           toClient[1].key = "OK" \/ app.cmd.name # "noidle"
    PROVE  conn.fd /\ conn.state = "OK" /\ Answered
  BY DEF Invs, PhaseInv, Phase, Dead, Sending, Leaving, IdleSent, IdleMode

(* The caller is told of the command that was answered.                    *)
LEMMA TellsAnswer ==
    ASSUME Invs, Answered, NEW verdict \in {"ok", "error"},
           verdict = "ok" <=> toClient[1].key = "OK",
           seen' = Told(verdict, toClient[1].of), app'.no = app.no,
           UNCHANGED <<daemon, toServer>>
    PROVE  TellInv'
<1>1. /\ seen'.of = app.no /\ seen'.no = app.no /\ seen'.cmd = app.cmd
      /\ seen'.verdict = verdict /\ toServer' = <<>> /\ effects' = effects
  BY DEF Invs, CallerInv, Told, Answered, Served, daemon
<1>2. app.no \in 0..app.no
  BY LimitsAssumption DEF Invs, CallerInv
<1>3. app.cmd.name \in Acts => Honest(verdict = "ok", app.cmd, effects[app.no])
  BY DEF Answered
<1> QED
  BY <1>1, <1>2, <1>3 DEF TellInv

LEMMA StatusErrorKeeps == ASSUME Invs, StatusError PROVE Invs'
<1>1. /\ app.pc = "sent" /\ Fail("ERROR") /\ toClient # <<>> /\ toClient[1].key # "OK"
      /\ app' = [Return(FALSE) EXCEPT !.crossed = @ \/ app.cmd.name = "noidle"]
      /\ seen' = Told("error", toClient[1].of)
      /\ toClient' = Tail(toClient)
      /\ UNCHANGED <<daemon, toServer>>
  BY DEF StatusError
<1>2. /\ CallerInv' /\ app'.no = app.no /\ app'.cmd = app.cmd /\ app'.prog = app.prog
      /\ app'.pc = IF Session THEN "failed" ELSE "exit"
      /\ app'.crossed = (app.crossed \/ app.cmd.name = "noidle")
      /\ seen'.cmd = app.cmd /\ conn'.fd = conn.fd
  BY <1>1 DEF Invs, CallerInv, Session, Return, Fail, Told
<1>3. app'.rc = IF Session THEN "none" ELSE "EXIT_FAILURE"
  BY <1>1 DEF Invs, CallerInv, ProgramInv, Session, Return
<1>4. ProgramInv'
  BY <1>2, <1>3 DEF ProgramInv, Session
<1>5. IsSeq(toClient) /\ IsSeq(toClient')
  BY <1>1, TailSeq DEF Invs, LinesInv
<1>6. DaemonInv' /\ LinesInv' /\ NumberInv'
  BY <1>1, <1>2, <1>5, DaemonKept
<1>7. PhaseInv' /\ TellInv'
  <2>1. CASE app'.crossed
    BY <2>1 DEF PhaseInv, TellInv
  <2>2. CASE ~app'.crossed
    <3>1. conn.fd /\ Answered
      BY <1>1, <1>2, <2>2, StatusIsAnswer
    <3>2. TellInv'
      BY <1>1, <1>2, <3>1, TellsAnswer
    <3>3. OneEnd(toClient')
      BY <1>1, <1>5, <3>1, TailOneEnd DEF Answered, Response
    <3>4. Reading'
      BY <1>1, <3>1, <3>3 DEF Answered, Reading, Served, daemon
    <3> QED
      BY <1>2, <3>1, <3>2, <3>4 DEF PhaseInv, Phase
  <2> QED
    BY <2>1, <2>2
<1> QED
  BY <1>2, <1>4, <1>6, <1>7 DEF Invs

LEMMA StatusOkKeeps == ASSUME Invs, StatusOk PROVE Invs'
<1> DEFINE ends == HasEnd(Tail(toClient))
           Over == /\ app.cmd.name \in Acts /\ app' = Return(ends)
                   /\ toClient' = AfterEnd(Tail(toClient))
           More == /\ app.cmd.name \notin Acts /\ app' = [app EXCEPT !.pc = "body"]
                   /\ toClient' = Tail(toClient)
<1>1. /\ app.pc = "sent" /\ toClient # <<>> /\ toClient[1].key = "OK"
      /\ seen' = Told("ok", toClient[1].of)
      /\ UNCHANGED <<daemon, toServer, conn>>
  BY DEF StatusOk
<1>2. Over \/ More
  BY DEF StatusOk, Acts
<1>3. ends \in BOOLEAN
  BY DEF HasEnd
<1> HIDE DEF ends
<1>4. /\ CallerInv' /\ app'.no = app.no /\ app'.cmd = app.cmd /\ app'.prog = app.prog
      /\ app'.crossed = app.crossed
      /\ app'.pc \in IF app.cmd.name \notin Acts THEN {"body"}
                     ELSE IF Session THEN {"ready", "failed"} ELSE {"exit"}
      /\ seen'.cmd = app.cmd /\ seen'.verdict = "ok"
  BY <1>1, <1>2, <1>3 DEF Invs, CallerInv, Session, Return, Told
<1>5. app.rc = "none" /\ app.cmd.name # "idle"
  BY <1>1 DEF Invs, ProgramInv
<1>6. (app'.rc # "none") <=> (app'.pc = "exit")
  BY <1>1, <1>2, <1>3, <1>5 DEF Invs, CallerInv, Session, Return
<1>7. ProgramInv'
  BY <1>4, <1>5, <1>6 DEF ProgramInv, Session
<1>8. /\ IsSeq(toClient) /\ IsSeq(Tail(toClient)) /\ IsSeq(toClient')
  <2>1. IsSeq(toClient) /\ IsSeq(Tail(toClient))
    BY <1>1, TailSeq DEF Invs, LinesInv
  <2>2. IsSeq(AfterEnd(Tail(toClient)))
    BY <2>1, AfterEndSeq
  <2> QED
    BY <1>2, <2>1, <2>2, Zenon
<1>9. DaemonInv' /\ LinesInv' /\ NumberInv'
  BY <1>1, <1>4, <1>8, DaemonKept
<1>10. ASSUME ~app.crossed PROVE Phase' /\ TellInv'
  <2>1. conn.fd /\ conn.state = "OK" /\ Answered
    BY <1>1, <1>10, StatusIsAnswer
  <2>2. TellInv'
    BY <1>1, <1>4, <2>1, TellsAnswer
  <2>3. OneEnd(Tail(toClient))
    BY <1>1, <1>8, <2>1, TailOneEnd DEF Answered, Response
  <2>4. Live' /\ Served'
    BY <1>1, <2>1 DEF Live, Answered, Served, daemon
  <2>5. CASE More
    <3>1. Reading'
      BY <2>3, <2>4, <2>5 DEF Reading
    <3> QED
      BY <1>4, <2>2, <2>4, <2>5, <3>1 DEF Phase
  <2>6. CASE Over
    <3>1. toClient' = <<>> /\ OneEnd(toClient')
      BY <1>8, <2>3, <2>6, AfterEndEmpty, EmptyIs
    <3>2. Reading'
      BY <2>4, <3>1 DEF Reading
    <3>3. conn'.fd
      BY <1>1, <2>1
    <3> QED
      BY <1>4, <2>2, <2>4, <2>6, <3>1, <3>2, <3>3 DEF Phase
  <2> QED
    BY <1>2, <2>2, <2>5, <2>6
<1>11. PhaseInv' /\ TellInv'
  BY <1>4, <1>10 DEF PhaseInv, TellInv
<1> QED
  BY <1>4, <1>7, <1>9, <1>11 DEF Invs

LEMMA AppendIs ==
    ASSUME NEW s, IsSeq(s), NEW e
    PROVE  LET a == Append(s, e) IN
           /\ \A i \in DOMAIN a : a[i] = e \/ (i \in DOMAIN s /\ a[i] = s[i])
           /\ s = <<>> => Len(a) = 1 /\ a[1] = e
           /\ s # <<>> => a[1] = s[1]
<1>1. PICK T : s \in Seq(T)
  BY DEF IsSeq
<1> DEFINE U == T \cup {e}
<1>2. s \in Seq(U) /\ e \in U
  BY <1>1
<1> HIDE DEF U
<1> QED
  BY <1>2

(* A command is sent: its number is new.                                   *)
LEMMA SentNumbers ==
    ASSUME Invs, NEW m, m.no = app.no + 1, app.no < CmdsMax,
           toServer' = Append(toServer, m), app'.no = app.no + 1,
           app'.crossed = app.crossed, UNCHANGED <<daemon, toClient, seen>>
    PROVE  /\ DaemonInv' /\ LinesInv' /\ NumberInv' /\ TellInv'
           /\ app'.no \in 0..CmdsMax /\ effects'[app'.no] = {}
           /\ toServer = <<>> => Len(toServer') = 1 /\ toServer'[1] = m
           /\ toServer # <<>> => toServer'[1] = toServer[1]
           /\ toServer' # <<>>
<1>1. IsSeq(toServer) /\ IsSeq(toClient) /\ app.no \in Nat
  BY LimitsAssumption DEF Invs, LinesInv, CallerInv
<1>2. IsSeq(toServer') /\ toServer' # <<>>
  BY <1>1, AppendSeq
<1>3. /\ \A i \in DOMAIN toServer' :
            toServer'[i] = m \/ (i \in DOMAIN toServer /\ toServer'[i] = toServer[i])
      /\ toServer = <<>> => Len(toServer') = 1 /\ toServer'[1] = m
      /\ toServer # <<>> => toServer'[1] = toServer[1]
  BY <1>1, AppendIs
<1>4. DaemonInv' /\ LinesInv'
  BY <1>1, <1>2 DEF Invs, DaemonInv, LinesInv, daemon
<1>5. effects' = effects /\ \A n \in 1..CmdsMax : n > app.no => effects[n] = {}
  BY DEF Invs, NumberInv, daemon
<1>6. app'.no \in 0..CmdsMax /\ effects'[app'.no] = {}
  BY <1>1, <1>5, LimitsAssumption
<1>7. NumberInv'
  <2>1. \A i \in DOMAIN toServer : toServer[i].no \in 1..app.no
    BY DEF Invs, NumberInv
  <2>2. \A i \in DOMAIN toServer' : toServer'[i].no \in 1..app'.no
    BY <1>1, <1>3, <2>1
  <2> QED
    BY <1>1, <1>5, <2>2 DEF NumberInv
<1>8. TellInv'
  <2> SUFFICES ASSUME ~app.crossed, seen.verdict \in {"ok", "error"}
               PROVE  /\ seen.of = seen.no /\ seen.no \in 0..app'.no
                      /\ \A i \in DOMAIN toServer' : seen.no < toServer'[i].no
                      /\ seen.cmd.name \in Acts =>
                            Honest(seen.verdict = "ok", seen.cmd, effects'[seen.no])
    BY DEF TellInv
  <2>1. /\ seen.of = seen.no /\ seen.no \in 0..app.no
        /\ \A i \in DOMAIN toServer : seen.no < toServer[i].no
        /\ seen.cmd.name \in Acts => Honest(seen.verdict = "ok", seen.cmd, effects[seen.no])
    BY DEF Invs, TellInv
  <2>2. seen.no \in 0..app'.no /\ seen.no < m.no
    BY <1>1, <2>1
  <2>3. \A i \in DOMAIN toServer' : seen.no < toServer'[i].no
    BY <1>3, <2>1, <2>2
  <2> QED
    BY <1>5, <2>1, <2>2, <2>3
<1> QED
  BY <1>2, <1>3, <1>4, <1>6, <1>7, <1>8

LEMMA LeaveIdleKeeps == ASSUME Invs, LeaveIdle PROVE Invs'
<1> DEFINE c == [name |-> "noidle", args |-> <<>>]
           m == [no |-> app.no + 1, cmd |-> Worded(c)]
           Sent == /\ toServer' = Append(toServer, m) /\ connection_check
                   /\ srv.state # "closed" /\ UNCHANGED conn
                   /\ app' = [app EXCEPT !.pc = "sent", !.cmd = c, !.no = @ + 1]
           Unsent == /\ app' = Return(FALSE) /\ UNCHANGED toServer
                     /\ Fail(IF connection_check THEN "FATAL" ELSE conn.state)
<1>1. /\ app.pc = "leaving" /\ app.no < CmdsMax
      /\ UNCHANGED <<daemon, toClient, seen>>
      /\ Sent \/ Unsent
  BY DEF LeaveIdle, SendLine
<1>2. c.name = "noidle" /\ DOMAIN c = {"name", "args"} /\ c.name \notin Acts
  BY DEF Acts, Setters
<1>3. m.no = app.no + 1 /\ m.cmd.name = "noidle" /\ m.cmd = Worded(c)
  BY <1>2, WordedName
<1> HIDE DEF c, m
<1>4. Session /\ app.rc = "none"
  BY <1>1 DEF Invs, ProgramInv
<1>5. ~app.crossed => Live /\ (Dead \/ IdleSent \/ IdleMode \/ IdleTold)
  BY <1>1 DEF Invs, PhaseInv, Phase
<1>6. CASE Sent
  <2>1. app'.no = app.no + 1 /\ app'.crossed = app.crossed
    BY <1>6 DEF Invs, CallerInv
  <2>2. /\ DaemonInv' /\ LinesInv' /\ NumberInv' /\ TellInv'
        /\ app'.no \in 0..CmdsMax /\ effects'[app'.no] = {}
        /\ toServer = <<>> => Len(toServer') = 1 /\ toServer'[1] = m
        /\ toServer # <<>> => toServer'[1] = toServer[1]
        /\ toServer' # <<>>
    BY <1>1, <1>3, <1>6, <2>1, SentNumbers
  <2>3. CallerInv' /\ app'.cmd = c /\ app'.pc = "sent"
    BY <1>1, <1>2, <1>6, <2>1, <2>2 DEF Invs, CallerInv
  <2>4. ProgramInv'
    BY <1>1, <1>2, <1>4, <1>6 DEF Invs, CallerInv, ProgramInv, Session
  <2>5. ASSUME ~app.crossed PROVE Sending' \/ Leaving'
    <3>1. ~Dead
      BY <1>6 DEF Dead
    <3>2. CASE IdleSent
      <4>1. IdleSent'
        BY <1>1, <2>2, <3>2 DEF IdleSent, daemon
      <4> QED
        BY <1>2, <2>3, <4>1 DEF Leaving
    <3>3. CASE IdleMode
      <4>1. /\ toClient' = <<>> /\ srv'.state = "idle" /\ toServer' # <<>>
            /\ toServer'[1].cmd.name = "noidle" /\ toServer'[1].no = app'.no
        BY <1>1, <1>3, <2>1, <2>2, <3>3 DEF IdleMode, daemon
      <4> QED
        BY <1>2, <2>3, <4>1 DEF Leaving
    <3>4. CASE IdleTold /\ toClient = <<>>
      <4>1. srv'.state = "reading" /\ toServer = <<>> /\ toClient' = <<>>
        BY <1>1, <1>6, <3>4 DEF IdleTold, Served, daemon
      <4> QED
        BY <1>2, <1>3, <2>1, <2>2, <2>3, <4>1 DEF Sending
    <3>5. CASE IdleTold /\ toClient # <<>>
      BY <1>1, <1>2, <2>3, <3>5 DEF IdleTold, Leaving
    <3> QED
      BY <1>5, <2>5, <3>1, <3>2, <3>3, <3>4, <3>5
  <2>6. conn'.fd /\ conn'.state = "OK"
    BY <1>6 DEF connection_check
  <2>7. PhaseInv'
    BY <2>1, <2>3, <2>5, <2>6 DEF PhaseInv, Phase
  <2> QED
    BY <2>2, <2>3, <2>4, <2>7 DEF Invs
<1>7. CASE Unsent
  <2>1. CallerInv' /\ app'.no = app.no /\ app'.crossed = app.crossed /\ app'.pc = "failed"
    BY <1>1, <1>4, <1>7 DEF Invs, CallerInv, Return, Fail
  <2>2. ProgramInv'
    BY <1>1, <1>4, <1>7 DEF Invs, CallerInv, ProgramInv, Return, Session
  <2>3. ~app.crossed => conn'.state = "FATAL"
    BY <1>5, <1>7 DEF Fail, Live, connection_check, Invs, CallerInv
  <2>4. IsSeq(toClient')
    BY <1>1 DEF Invs, LinesInv
  <2>5. ~app.crossed => Phase'
    BY <2>1, <2>3 DEF Phase
  <2> QED
    BY <1>1, <1>7, <2>1, <2>2, <2>4, <2>5, CallerKeeps
<1> QED
  BY <1>1, <1>6, <1>7

LEMMA CallKeeps == ASSUME Invs, Call PROVE Invs'
<1>1. app.pc = "ready" /\ UNCHANGED <<daemon, toClient, seen>>
  BY DEF Call, SendLine
<1>2. app.rc = "none"
  BY <1>1 DEF Invs, ProgramInv
<1>3. ~app.crossed => Live /\ toClient = <<>> /\ (Served \/ Dead)
  BY <1>1 DEF Invs, PhaseInv, Phase
<1>4. IsSeq(toClient')
  BY <1>1 DEF Invs, LinesInv
<1>5. CASE ~Session /\ app' = Return(FALSE) /\ UNCHANGED <<toServer, conn>>
  <2>1. CallerInv' /\ app'.no = app.no /\ app'.crossed = app.crossed /\ app'.pc = "exit"
    BY <1>1, <1>5 DEF Invs, CallerInv, Return
  <2>2. ProgramInv'
    BY <1>1, <1>2, <1>5 DEF Invs, CallerInv, ProgramInv, Return, Session
  <2>3. Phase'
    BY <2>1 DEF Phase
  <2> QED
    BY <1>1, <1>4, <1>5, <2>1, <2>2, <2>3, CallerKeeps
<1>6. ASSUME NEW c \in IF Session THEN Commands ELSE {app.cmd},
             SendLine(c, IF c.name = "idle" THEN "idle" ELSE "sent")
      PROVE  Invs'
  <2> DEFINE next == IF c.name = "idle" THEN "idle" ELSE "sent"
             m == [no |-> app.no + 1, cmd |-> Worded(c)]
             Sent == /\ toServer' = Append(toServer, m) /\ connection_check
                     /\ srv.state # "closed" /\ UNCHANGED conn
                     /\ app' = [app EXCEPT !.pc = next, !.cmd = c, !.no = @ + 1]
             Unsent == /\ app' = IF c.name = "idle" THEN [app EXCEPT !.pc = next, !.cmd = c]
                                 ELSE Return(FALSE)
                       /\ UNCHANGED toServer
                       /\ Fail(IF connection_check THEN "FATAL" ELSE conn.state)
                       /\ ~connection_check \/ srv.state = "closed"
  <2>1. app.no < CmdsMax /\ (Sent \/ Unsent)
    BY <1>6 DEF SendLine
  <2>2. DOMAIN c = {"name", "args"} /\ (~Session => c = app.cmd)
    BY ShapesAssumption DEF Invs, CallerInv
  <2>3. m.no = app.no + 1 /\ m.cmd.name = c.name /\ m.cmd = Worded(c)
    BY <2>2, WordedName
  <2> HIDE DEF m
  <2>4. next \in {"idle", "sent"} /\ (next = "idle" <=> c.name = "idle")
    OBVIOUS
  <2> HIDE DEF next
  <2>5. CASE Sent
    <3>1. app'.no = app.no + 1 /\ app'.crossed = app.crossed
      BY <2>5 DEF Invs, CallerInv
    <3>2. /\ DaemonInv' /\ LinesInv' /\ NumberInv' /\ TellInv'
          /\ app'.no \in 0..CmdsMax /\ effects'[app'.no] = {}
          /\ toServer = <<>> => Len(toServer') = 1 /\ toServer'[1] = m
          /\ toServer' # <<>>
      BY <1>1, <2>1, <2>3, <2>5, <3>1, SentNumbers
    <3>3. CallerInv' /\ app'.cmd = c /\ app'.pc = next
      BY <1>1, <2>2, <2>4, <2>5, <3>1, <3>2 DEF Invs, CallerInv
    <3>4. ProgramInv'
      BY <1>1, <1>2, <2>2, <2>4, <2>5 DEF Invs, CallerInv, ProgramInv, Session
    <3>5. ASSUME ~app.crossed PROVE Phase'
      <4>1. srv.state = "reading" /\ toServer = <<>> /\ toClient = <<>>
        BY <1>3, <2>5, <3>5 DEF Served, Dead
      <4>2. conn'.fd /\ conn'.state = "OK" /\ Live'
        BY <2>5 DEF connection_check, Live
      <4>3. CASE next = "sent"
        <5>1. Sending'
          BY <1>1, <2>3, <3>1, <3>2, <3>3, <4>1 DEF Sending, daemon
        <5> QED
          BY <3>3, <4>2, <4>3, <5>1 DEF Phase
      <4>4. CASE next = "idle"
        <5>1. IdleSent'
          BY <1>1, <2>3, <2>4, <3>2, <4>1, <4>4 DEF IdleSent, daemon
        <5> QED
          BY <3>3, <4>2, <4>4, <5>1 DEF Phase
      <4> QED
        BY <2>4, <4>3, <4>4
    <3>6. PhaseInv'
      BY <3>1, <3>5 DEF PhaseInv
    <3> QED
      BY <3>2, <3>3, <3>4, <3>6 DEF Invs
  <2>6. CASE Unsent
    <3>1. /\ CallerInv' /\ app'.no = app.no /\ app'.crossed = app.crossed
          /\ app'.pc \in {"idle", "failed", "exit"}
      BY <1>1, <2>2, <2>4, <2>6 DEF Invs, CallerInv, Return, Fail
    <3>2. ProgramInv'
      BY <1>1, <1>2, <2>2, <2>4, <2>6 DEF Invs, CallerInv, ProgramInv, Return, Session
    <3>3. ASSUME ~app.crossed PROVE Phase'
      <4>1. conn'.fd /\ conn'.state = "FATAL"
        BY <1>3, <2>6, <3>3 DEF Fail, Live, connection_check, Invs, CallerInv
      <4>2. Dead'
        BY <1>1, <1>3, <2>6, <3>3 DEF Live, connection_check, Dead, daemon
      <4> QED
        BY <3>1, <4>1, <4>2 DEF Phase, Live
    <3> QED
      BY <1>1, <1>4, <2>6, <3>1, <3>2, <3>3, CallerKeeps
  <2> QED
    BY <2>1, <2>5, <2>6
<1> QED
  BY <1>5, <1>6 DEF Call

-----------------------------------------------------------------------------
(* The invariant and what follows from it.                                 *)

LEMMA InitInvs == ASSUME Init PROVE Invs
<1>1. gpios \in Settings /\ IsSeq(gpios)
  BY ShapesAssumption, Zenon DEF Init, IsSeq
<1>2. /\ srv = [state |-> "none", waiting |-> <<>>, idle |-> 0]
      /\ toServer = <<>> /\ toClient = <<>> /\ raised = <<>>
      /\ effects = [n \in 0..CmdsMax |-> {}]
      /\ conn = [fd |-> FALSE, state |-> "OK"] /\ seen = Nothing
  BY DEF Init
<1>3. PICK prog \in {"mygpioc", "session"} :
          app = [prog |-> prog, pc |-> "start", cmd |-> NoCmd, no |-> 0,
                 conns |-> 0, rc |-> "none", read |-> FALSE, crossed |-> FALSE]
  BY DEF Init
<1>4. IsSeq(<<>>)
  BY EmptyIs
<1>5. DaemonInv /\ LinesInv
  BY <1>1, <1>2, <1>4, LimitsAssumption DEF DaemonInv, LinesInv
<1>6. CallerInv
  BY <1>2, <1>3, LimitsAssumption DEF CallerInv, NoCmd, Nothing
<1>7. ProgramInv
  BY <1>2, <1>3 DEF ProgramInv, Nothing, Session, Acts, Setters
<1>8. NumberInv /\ PhaseInv /\ TellInv
  BY <1>2, <1>3 DEF NumberInv, PhaseInv, Phase, TellInv, Nothing
<1> QED
  BY <1>5, <1>6, <1>7, <1>8 DEF Invs

LEMMA NextInvs == ASSUME Invs, [Next]_vars PROVE Invs'
<1>1. DaemonInv /\ LinesInv
  BY DEF Invs
<1>2. CASE Accept
  BY <1>1, <1>2, AcceptIs, DaemonKeeps
<1>3. CASE ServerCommand
  BY <1>1, <1>3, CommandIs, DaemonKeeps
<1>4. ASSUME NEW type, NEW gpio, RaiseEvent(type, gpio) PROVE Invs'
  BY <1>1, <1>4, RaiseIs, DaemonKeeps
<1>5. CASE ServerTimeout
  BY <1>1, <1>5, TimeoutIs, DaemonKeeps
<1>6. CASE ClientStep
  BY <1>6, ConnectKeeps, HandshakeKeeps, CallKeeps, StatusTimeoutKeeps, StatusOkKeeps,
     StatusErrorKeeps, ReceiveKeeps, ResponseEndKeeps, WaitIdleKeeps, WaitIdleTimeoutKeeps,
     QuietEndKeeps, LeaveIdleKeeps, ClearErrorKeeps, FreeKeeps
  DEF ClientStep, Status
<1>7. CASE UNCHANGED vars
  <2>1. DaemonInv' /\ LinesInv' /\ CallerInv' /\ ProgramInv' /\ NumberInv'
    BY <1>7 DEF vars, daemon, Invs, DaemonInv, LinesInv, CallerInv, ProgramInv, NumberInv, Session
  <2>2. TellInv'
    BY <1>7 DEF vars, daemon, Invs, TellInv, Honest
  <2>3. Sending => Sending'
    BY <1>7 DEF vars, daemon, Sending
  <2>4. Answered => Answered'
    BY <1>7 DEF vars, daemon, Answered, Served, OneEnd, Honest
  <2>5. PhaseInv'
    BY <1>7, <2>3, <2>4 DEF vars, daemon, Invs, PhaseInv, Phase, Live, Dead, Served, Reading,
       Opening, IdleSent, IdleMode, IdleTold, Leaving, OneEnd
  <2> QED
    BY <2>1, <2>2, <2>5 DEF Invs
<1> QED
  BY <1>2, <1>3, <1>4, <1>5, <1>6, <1>7 DEF Next, ServerStep

LEMMA SpecInvs == Spec => []Invs
<1>1. Init => Invs
  BY InitInvs
<1>2. Invs /\ [Next]_vars => Invs'
  BY NextInvs
<1> QED
  BY <1>1, <1>2, PTL DEF Spec

(* The states of connection, caller and daemon, the numbers of commands    *)
(* and connections, and the bound of the events that wait for a client.    *)
THEOREM TypeCorrect == Spec => []TypeOK
<1>1. Invs => TypeOK
  <2> SUFFICES ASSUME Invs PROVE TypeOK
    OBVIOUS
  <2> QED
    BY DEF Invs, CallerInv, DaemonInv, TypeOK
<1> QED
  BY <1>1, SpecInvs, PTL

(* libmygpio_recv_response_status: what a caller takes for the answer of a *)
(* command is the answer of that command, whatever timed out, was lost or  *)
(* was not read before; noidle crossing an event is the one exception.     *)
THEOREM AnswerCorrect == Spec => []OwnAnswer
<1>1. Invs => OwnAnswer
  BY DEF Invs, TellInv, OwnAnswer
<1> QED
  BY <1>1, SpecInvs, PTL

(* The result of gpioset, gpiotoggle, gpioblink and hook, and mygpioc's    *)
(* exit code, say what the daemon has done.                                *)
THEOREM ResultCorrect == Spec => []ResultTrue
<1>1. Invs => ResultTrue
  BY DEF Invs, TellInv, ProgramInv, ResultTrue, Acts, Honest
<1> QED
  BY <1>1, SpecInvs, PTL

(* mygpio_response_end empties the input: when the caller may send its     *)
(* next command nothing of an earlier response is left, unless noidle has  *)
(* crossed an event on this connection.  The exception cannot be dropped.  *)
THEOREM EmptiedUnlessCrossed == Spec => [](app.crossed \/ InputEmptied)
<1>1. Invs => app.crossed \/ InputEmptied
  BY DEF Invs, PhaseInv, Phase, InputEmptied
<1> QED
  BY <1>1, SpecInvs, PTL

-----------------------------------------------------------------------------
(* The daemon's GPIOs, each with a number of its own.                      *)
GpiosOk ==
    /\ gpios \in Seq(GpioData)
    /\ \A i, j \in DOMAIN gpios : gpios[i].id = gpios[j].id => i = j

(* What a line says of GPIO g, after the library has decoded it.           *)
Describes(l, g) ==
    \/ Decoded(l.key, l.val) = g[l.key]
    \/ l.key \in Enums /\ Decoded(l.key, l.val) = "UNKNOWN"

(* The lines between a gpio line and the next entry describe that GPIO.    *)
Bounds == {"OK", "ERROR", "END", "gpio", "event"}
Describing(ls, gs) ==
    \A i, j \in DOMAIN ls :
        /\ i < j /\ ls[i].key = "gpio"
        /\ \A k \in (i + 1)..j : ls[k].key \notin Bounds
        => Describes(ls[j], Gpio(gs, ls[i].val))

(* Events in lines: a name and a number that belong together, the numbers  *)
(* increasing and between x and y.                                         *)
Names(ls, i, evs) ==
    ls[i].key = "event" /\ i + 1 \in DOMAIN ls /\ ls[i + 1].key = "timestamp_ms" =>
        /\ ls[i].val = mygpiod_event_name[evs[ls[i + 1].val].type]
        /\ i + 2 \in DOMAIN ls /\ ls[i + 2].key = "gpio" =>
              ls[i + 2].val = evs[ls[i + 1].val].gpio

Reports(ls, evs, x, y) ==
    /\ \A i \in DOMAIN ls : Names(ls, i, evs)
    /\ \A i \in DOMAIN ls : ls[i].key = "timestamp_ms" => ls[i].val \in (x + 1)..y
    /\ \A i, j \in DOMAIN ls :
         i < j /\ ls[i].key = "timestamp_ms" /\ ls[j].key = "timestamp_ms" => ls[i].val < ls[j].val

(* Events that were raised, in order, with numbers between x and y.        *)
EventTypes == {"GPIO_RISING", "GPIO_FALLING", "INPUT"}
Numbered(evs) ==
    \A n \in DOMAIN evs : evs[n].no = n /\ evs[n].type \in EventTypes

Waits(es, evs, x) ==
    /\ \A i \in DOMAIN es : es[i].no \in (x + 1)..Len(evs) /\ es[i] = evs[es[i].no]
    /\ \A i, j \in DOMAIN es : i < j => es[i].no < es[j].no

ToldUpTo(es, x) ==
    /\ \A i \in DOMAIN es : es[i].timestamp_ms \in 1..x
    /\ \A i, j \in DOMAIN es : i < j => es[i].timestamp_ms < es[j].timestamp_ms

(* The caller was told of events up to x, those up to y are on their way,  *)
(* later ones wait.                                                        *)
EventInv ==
    /\ Numbered(raised) /\ IsSeq(seen.events)
    /\ \E x, y \in 0..Len(raised) :
         /\ x <= y
         /\ ToldUpTo(seen.events, x)
         /\ Reports(toClient, raised, x, y)
         /\ Waits(srv.waiting, raised, y)

(* The value that a response to gpioget brings.                            *)
Values(ls, v) ==
    \A i \in DOMAIN ls : ls[i].key = "value" => Decoded("value", ls[i].val) \in {v, "UNKNOWN"}

(* What is on its way to a caller who reads GPIOs.                         *)
ListInv ==
    ~app.crossed /\ app.pc \in {"sent", "body"} =>
        /\ app.cmd.name \in {"gpiolist", "gpioinfo"} => Describing(toClient, gpios)
        /\ app.cmd.name = "gpioget" =>
             /\ toServer # <<>> => toServer[1].cmd = app.cmd
             /\ Values(toClient, Gpio(gpios, app.cmd.args[1]).value)

(* The element just returned.                                              *)
Returned ==
    LET e == seen.elem IN
    CASE app.cmd.name \in {"gpiolist", "gpioinfo"} ->
            \A f \in DOMAIN e \ {"gpio"} : e[f] = Gpio(gpios, e.gpio)[f]
      [] app.cmd.name = "gpioget" -> e.value = Gpio(gpios, app.cmd.args[1]).value
      [] app.cmd.name \in {"idle", "noidle"} ->
            /\ e.timestamp_ms \in DOMAIN raised
            /\ e.event = raised[e.timestamp_ms].type
            /\ e.gpio = raised[e.timestamp_ms].gpio
      [] OTHER -> TRUE

ElemInv ==
    /\ app.pc \notin {"body", "ending"} => seen.elem = NoElem
    /\ ~app.crossed /\ seen.elem # NoElem => Returned

FaithInv == GpiosOk /\ EventInv /\ ListInv /\ ElemInv

-----------------------------------------------------------------------------
(* The names of the two sides.                                             *)

LEMMA SpelledIs ==
    ASSUME NEW table, NEW e \in DOMAIN table, NEW default,
           \A d \in DOMAIN table : table[d] = table[e] => d = e
    PROVE  Spelled(table, table[e], default) = e
<1>1. \E d \in DOMAIN table : table[d] = table[e]
  OBVIOUS
<1>2. (CHOOSE d \in DOMAIN table : table[d] = table[e]) = e
  BY <1>1
<1> QED
  BY <1>1, <1>2 DEF Spelled

LEMMA NotSpelled ==
    ASSUME NEW table, NEW str, NEW default, \A d \in DOMAIN table : table[d] # str
    PROVE  Spelled(table, str, default) = default
  BY DEF Spelled

(* What the daemon calls a value, the library takes for that value, or     *)
(* does not know.                                                          *)
LEMMA DecodesValue ==
    ASSUME NEW v \in DOMAIN lookup_gpio_value
    PROVE  Decoded("value", lookup_gpio_value[v]) \in {v, "UNKNOWN"}
<1> DEFINE table == mygpio_gpio_lookup_value
           str == lookup_gpio_value[v]
<1>1. Decoded("value", str) = Spelled(table, str, "UNKNOWN")
  BY DEF Decoded, mygpio_gpio_parse_value
<1>2. /\ DOMAIN table = {"ACTIVE", "INACTIVE", "UNKNOWN"} /\ v \in {"ERROR", "INACTIVE", "ACTIVE"}
      /\ \A d, e \in DOMAIN table : table[d] = table[e] => d = e
  BY DEF mygpio_gpio_lookup_value, lookup_gpio_value
<1>3. v # "ERROR" => v \in DOMAIN table /\ str = table[v]
  BY <1>2 DEF mygpio_gpio_lookup_value, lookup_gpio_value
<1>4. v = "ERROR" => \A d \in DOMAIN table : table[d] # str
  BY DEF mygpio_gpio_lookup_value, lookup_gpio_value
<1> HIDE DEF table, str
<1>5. Decoded("value", str) \in {v, "UNKNOWN"}
  BY <1>1, <1>2, <1>3, <1>4, SpelledIs, NotSpelled
<1> QED
  BY <1>5 DEF str

LEMMA DecodesBias ==
    ASSUME NEW v \in DOMAIN lookup_bias
    PROVE  Decoded("bias", lookup_bias[v]) = v
<1> DEFINE table == mygpio_gpio_lookup_bias
           str == lookup_bias[v]
<1>1. Decoded("bias", str) = Spelled(table, str, "UNKNOWN")
  BY DEF Decoded, mygpio_gpio_parse_bias
<1>2. /\ DOMAIN table = {"AS_IS", "DISABLED", "PULL_DOWN", "PULL_UP", "UNKNOWN"}
      /\ \A d, e \in DOMAIN table : table[d] = table[e] => d = e
  BY DEF mygpio_gpio_lookup_bias
<1>3. v \in DOMAIN table /\ str = table[v]
  BY DEF mygpio_gpio_lookup_bias, lookup_bias
<1> HIDE DEF table, str
<1>4. Decoded("bias", str) = v
  BY <1>1, <1>2, <1>3, SpelledIs
<1> QED
  BY <1>4 DEF str

LEMMA DecodesRequest ==
    ASSUME NEW v \in DOMAIN lookup_event_request
    PROVE  Decoded("event_request", lookup_event_request[v]) \in {v, "UNKNOWN"}
<1> DEFINE table == mygpio_gpio_lookup_event_request
           str == lookup_event_request[v]
<1>1. Decoded("event_request", str) = Spelled(table, str, "UNKNOWN")
  BY DEF Decoded, mygpio_gpio_parse_event_request
<1>2. \A d, e \in DOMAIN table : table[d] = table[e] => d = e
  BY DEF mygpio_gpio_lookup_event_request
<1>3. v # "NONE" => v \in DOMAIN table /\ str = table[v]
  BY DEF mygpio_gpio_lookup_event_request, lookup_event_request
<1>4. v = "NONE" => \A d \in DOMAIN table : table[d] # str
  BY DEF mygpio_gpio_lookup_event_request, lookup_event_request
<1> HIDE DEF table, str
<1>5. Decoded("event_request", str) \in {v, "UNKNOWN"}
  BY <1>1, <1>2, <1>3, <1>4, SpelledIs, NotSpelled
<1> QED
  BY <1>5 DEF str

LEMMA DecodesClock ==
    ASSUME NEW v \in DOMAIN lookup_event_clock
    PROVE  Decoded("event_clock", lookup_event_clock[v]) = v
<1> DEFINE table == mygpio_gpio_lookup_event_clock
           str == lookup_event_clock[v]
<1>1. Decoded("event_clock", str) = Spelled(table, str, "UNKNOWN")
  BY DEF Decoded, mygpio_gpio_parse_event_clock
<1>2. \A d, e \in DOMAIN table : table[d] = table[e] => d = e
  BY DEF mygpio_gpio_lookup_event_clock
<1>3. v \in DOMAIN table /\ str = table[v]
  BY DEF mygpio_gpio_lookup_event_clock, lookup_event_clock
<1> HIDE DEF table, str
<1>4. Decoded("event_clock", str) = v
  BY <1>1, <1>2, <1>3, SpelledIs
<1> QED
  BY <1>4 DEF str

LEMMA DecodesDrive ==
    ASSUME NEW v \in DOMAIN lookup_drive
    PROVE  Decoded("drive", lookup_drive[v]) = v
<1> DEFINE table == mygpio_gpio_lookup_drive
           str == lookup_drive[v]
<1>1. Decoded("drive", str) = Spelled(table, str, "UNKNOWN")
  BY DEF Decoded, mygpio_gpio_parse_drive
<1>2. \A d, e \in DOMAIN table : table[d] = table[e] => d = e
  BY DEF mygpio_gpio_lookup_drive
<1>3. v \in DOMAIN table /\ str = table[v]
  BY DEF mygpio_gpio_lookup_drive, lookup_drive
<1> HIDE DEF table, str
<1>4. Decoded("drive", str) = v
  BY <1>1, <1>2, <1>3, SpelledIs
<1> QED
  BY <1>4 DEF str

LEMMA DecodesDirection ==
    Decoded("direction", "in") = "IN" /\ Decoded("direction", "out") = "OUT"
<1> DEFINE table == mygpio_gpio_lookup_direction
<1>1. \A str : Decoded("direction", str) = Spelled(table, str, "UNKNOWN")
  BY DEF Decoded, mygpio_gpio_parse_direction
<1>2. \A d, e \in DOMAIN table : table[d] = table[e] => d = e
  BY DEF mygpio_gpio_lookup_direction
<1>3. "IN" \in DOMAIN table /\ table["IN"] = "in" /\ "OUT" \in DOMAIN table /\ table["OUT"] = "out"
  BY DEF mygpio_gpio_lookup_direction
<1> HIDE DEF table
<1>4. /\ Spelled(table, table["IN"], "UNKNOWN") = "IN"
      /\ Spelled(table, table["OUT"], "UNKNOWN") = "OUT"
  BY <1>2, <1>3, SpelledIs
<1> QED
  BY <1>1, <1>3, <1>4

LEMMA DecodesBool ==
    ASSUME NEW v \in BOOLEAN
    PROVE  /\ Decoded("active_low", mygpio_bool_to_str(v)) = v
           /\ Decoded("is_debounced", mygpio_bool_to_str(v)) = v
<1>1. /\ \A str : Decoded("active_low", str) = mygpio_parse_bool(str)
      /\ \A str : Decoded("is_debounced", str) = mygpio_parse_bool(str)
  BY DEF Decoded
<1>2. mygpio_parse_bool(mygpio_bool_to_str(v)) = v
  BY DEF mygpio_parse_bool, mygpio_bool_to_str
<1> QED
  BY <1>1, <1>2

LEMMA DecodesPlain ==
    ASSUME NEW key \in {"gpio", "name", "debounce_period_us", "timestamp_ms"}, NEW val
    PROVE  Decoded(key, val) = val /\ key \notin Enums
  BY DEF Decoded, Enums

(* Events: an input event has another name in the library.                 *)
LEMMA DecodesEvent ==
    ASSUME NEW t \in EventTypes
    PROVE  /\ mygpio_parse_event(mygpiod_event_name[t]) = Decoded("event", mygpiod_event_name[t])
           /\ Decoded("event", mygpiod_event_name[t]) = IF t = "INPUT" THEN "UNKNOWN" ELSE t
<1> DEFINE table == [GPIO_FALLING |-> "gpio_falling", GPIO_RISING |-> "gpio_rising",
                     GPIO_LONG_PRESS |-> "gpio_long_press",
                     GPIO_LONG_PRESS_RELEASE |-> "gpio_long_press_release",
                     INPUT |-> "gpio_input"]
           str == mygpiod_event_name[t]
<1>1. /\ Decoded("event", str) = Spelled(table, str, "UNKNOWN")
      /\ mygpio_parse_event(str) = Spelled(table, str, "UNKNOWN")
  BY DEF Decoded, mygpio_parse_event
<1>2. \A d, e \in DOMAIN table : table[d] = table[e] => d = e
  OBVIOUS
<1>3. t # "INPUT" => t \in DOMAIN table /\ str = table[t]
  BY DEF mygpiod_event_name, EventTypes
<1>4. t = "INPUT" => \A d \in DOMAIN table : table[d] # str
  BY DEF mygpiod_event_name
<1> HIDE DEF table, str
<1>5. Spelled(table, str, "UNKNOWN") = IF t = "INPUT" THEN "UNKNOWN" ELSE t
  BY <1>2, <1>3, <1>4, SpelledIs, NotSpelled
<1> QED
  BY <1>1, <1>5 DEF str

-----------------------------------------------------------------------------
(* Lines on their way: what is left of them, what is put behind them.      *)

(* r is the end of ls.                                                     *)
Suffix(r, ls) ==
    \E n, m \in Nat :
        /\ DOMAIN r = 1..m /\ DOMAIN ls = 1..(n + m)
        /\ \A i \in 1..m : r[i] = ls[i + n]

LEMMA SeqSuffix == ASSUME NEW ls, IsSeq(ls) PROVE Suffix(ls, ls) /\ Suffix(<<>>, ls)
<1>1. PICK T : ls \in Seq(T)
  BY DEF IsSeq
<1>2. Len(ls) \in Nat /\ DOMAIN ls = 1..Len(ls)
  BY <1>1
<1>3. DOMAIN ls = 1..(0 + Len(ls)) /\ \A i \in 1..Len(ls) : ls[i] = ls[i + 0]
  BY <1>2
<1>4. Suffix(ls, ls)
  BY <1>2, <1>3 DEF Suffix
<1>5. DOMAIN <<>> = 1..0 /\ DOMAIN ls = 1..(Len(ls) + 0)
  BY <1>2
<1>6. \A i \in 1..0 : <<>>[i] = ls[i + Len(ls)]
  OBVIOUS
<1>7. Suffix(<<>>, ls)
  BY <1>2, <1>5, <1>6 DEF Suffix
<1> QED
  BY <1>4, <1>7

LEMMA SubSuffix ==
    ASSUME NEW ls, IsSeq(ls), NEW n \in Nat
    PROVE  Suffix(SubSeq(ls, n + 1, Len(ls)), ls)
<1> DEFINE r == SubSeq(ls, n + 1, Len(ls))
<1>1. PICK T : ls \in Seq(T)
  BY DEF IsSeq
<1>2. CASE n <= Len(ls)
  <2>1. /\ Len(ls) - n \in Nat /\ DOMAIN r = 1..(Len(ls) - n)
        /\ \A i \in 1..(Len(ls) - n) : r[i] = ls[i + n]
    BY <1>1, <1>2
  <2>2. DOMAIN ls = 1..(n + (Len(ls) - n))
    BY <1>1, <1>2
  <2> HIDE DEF r
  <2>3. Suffix(r, ls)
    BY <2>1, <2>2 DEF Suffix
  <2> QED
    BY <2>3 DEF r
<1>3. CASE ~(n <= Len(ls))
  <2>1. r = <<>>
    BY <1>1, <1>3
  <2> QED
    BY <2>1, SeqSuffix
<1> QED
  BY <1>2, <1>3

LEMMA TailSuffix == ASSUME NEW ls, IsSeq(ls), ls # <<>> PROVE Suffix(Tail(ls), ls)
<1>1. PICK T : ls \in Seq(T)
  BY DEF IsSeq
<1>2. Tail(ls) = SubSeq(ls, 1 + 1, Len(ls))
  BY <1>1
<1> QED
  BY <1>2, SubSuffix

LEMMA AfterEndSuffix == ASSUME NEW ls, IsSeq(ls) PROVE Suffix(AfterEnd(ls), ls)
<1> DEFINE ends == {i \in DOMAIN ls : ls[i].key = "END"}
           first == CHOOSE i \in ends : \A j \in ends : i <= j
<1>1. PICK T : ls \in Seq(T)
  BY DEF IsSeq
<1>2. CASE ends = {}
  <2>1. AfterEnd(ls) = <<>>
    BY <1>2, Zenon DEF AfterEnd
  <2> QED
    BY <2>1, SeqSuffix
<1>3. CASE ends # {}
  <2>1. ends \subseteq Nat
    BY <1>1
  <2>2. first \in Nat
    <3> HIDE DEF ends
    <3> QED
      BY <1>3, <2>1, NatMin
  <2>3. AfterEnd(ls) = SubSeq(ls, first + 1, Len(ls))
    BY <1>3, Zenon DEF AfterEnd
  <2> HIDE DEF first
  <2> QED
    BY <2>2, <2>3, SubSuffix
<1> QED
  BY <1>2, <1>3

LEMMA SuffixSuffix ==
    ASSUME NEW q, NEW r, NEW ls, Suffix(q, r), Suffix(r, ls)
    PROVE  Suffix(q, ls)
<1>1. PICK n, m \in Nat : /\ DOMAIN r = 1..m /\ DOMAIN ls = 1..(n + m)
                          /\ \A i \in 1..m : r[i] = ls[i + n]
  BY DEF Suffix
<1>2. PICK k, l \in Nat : /\ DOMAIN q = 1..l /\ DOMAIN r = 1..(k + l)
                          /\ \A i \in 1..l : q[i] = r[i + k]
  BY DEF Suffix
<1>3. m = k + l
  BY <1>1, <1>2
<1>4. n + k \in Nat /\ DOMAIN ls = 1..((n + k) + l)
  BY <1>1, <1>2, <1>3
<1>5. \A i \in 1..l : q[i] = ls[i + (n + k)]
  BY <1>1, <1>2, <1>3
<1> QED
  BY <1>2, <1>4, <1>5 DEF Suffix

LEMMA SuffixDescribing ==
    ASSUME NEW r, NEW ls, NEW gs, Suffix(r, ls), Describing(ls, gs)
    PROVE  Describing(r, gs)
<1>1. PICK n, m \in Nat : /\ DOMAIN r = 1..m /\ DOMAIN ls = 1..(n + m)
                          /\ \A i \in 1..m : r[i] = ls[i + n]
  BY DEF Suffix
<1>2. SUFFICES ASSUME NEW i \in 1..m, NEW j \in 1..m, i < j, r[i].key = "gpio",
                      \A k \in (i + 1)..j : r[k].key \notin Bounds
               PROVE  Describes(r[j], Gpio(gs, r[i].val))
  BY <1>1 DEF Describing
<1>3. i + n \in DOMAIN ls /\ j + n \in DOMAIN ls /\ i + n < j + n
  BY <1>1, <1>2
<1>4. ASSUME NEW k \in (i + n + 1)..(j + n) PROVE ls[k].key \notin Bounds
  <2>1. k - n \in (i + 1)..j /\ k - n \in 1..m /\ (k - n) + n = k
    BY <1>2, <1>4
  <2> QED
    BY <1>1, <1>2, <2>1
<1>5. ls[i + n] = r[i] /\ ls[j + n] = r[j]
  BY <1>1
<1> QED
  BY <1>2, <1>3, <1>4, <1>5 DEF Describing

LEMMA SuffixReports ==
    ASSUME NEW r, NEW ls, NEW evs, NEW x, NEW y, Suffix(r, ls), Reports(ls, evs, x, y)
    PROVE  Reports(r, evs, x, y)
<1>1. PICK n, m \in Nat : /\ DOMAIN r = 1..m /\ DOMAIN ls = 1..(n + m)
                          /\ \A i \in 1..m : r[i] = ls[i + n]
  BY DEF Suffix
<1>2. \A i \in 1..m : i + n \in DOMAIN ls
  BY <1>1
<1>3. ASSUME NEW i \in DOMAIN r PROVE Names(r, i, evs)
  <2>1. Names(ls, i + n, evs)
    BY <1>1, <1>2 DEF Reports
  <2>2. i + 1 \in DOMAIN r => (i + n) + 1 \in DOMAIN ls /\ ls[(i + n) + 1] = r[i + 1]
    BY <1>1
  <2>3. i + 2 \in DOMAIN r => (i + n) + 2 \in DOMAIN ls /\ ls[(i + n) + 2] = r[i + 2]
    BY <1>1
  <2>4. ls[i + n] = r[i]
    BY <1>1
  <2> QED
    BY <2>1, <2>2, <2>3, <2>4, Zenon DEF Names
<1>4. ASSUME NEW i \in DOMAIN r, r[i].key = "timestamp_ms" PROVE r[i].val \in (x + 1)..y
  BY <1>1, <1>2, <1>4, Zenon DEF Reports
<1>5. ASSUME NEW i \in DOMAIN r, NEW j \in DOMAIN r, i < j, r[i].key = "timestamp_ms",
             r[j].key = "timestamp_ms"
      PROVE  r[i].val < r[j].val
  <2>1. i + n < j + n
    BY <1>1, <1>5
  <2> QED
    BY <1>1, <1>2, <1>5, <2>1, Zenon DEF Reports
<1> QED
  BY <1>3, <1>4, <1>5 DEF Reports

(* A response begins with its status or with an event.                     *)
Starts(ls) == ls # <<>> => ls[1].key \notin {"timestamp_ms", "gpio"}

Joined(c, a, b, n, m) ==
    /\ DOMAIN a = 1..n /\ DOMAIN b = 1..m /\ DOMAIN c = 1..(n + m)
    /\ (m = 0 <=> b = <<>>) /\ (n = 0 <=> a = <<>>)
    /\ \A i \in 1..n : c[i] = a[i]
    /\ \A i \in (n + 1)..(n + m) : c[i] = b[i - n] /\ i - n \in 1..m

LEMMA ConcatIs ==
    ASSUME NEW a, NEW b, IsSeq(a), IsSeq(b)
    PROVE  \E n, m \in Nat : Joined(a \o b, a, b, n, m)
<1>1. PICK T : a \in Seq(T)
  BY DEF IsSeq
<1>2. PICK U : b \in Seq(U)
  BY DEF IsSeq
<1>3. a \in Seq(T \cup U) /\ b \in Seq(T \cup U)
  BY <1>1, <1>2
<1> DEFINE n == Len(a)
           m == Len(b)
<1>4. n \in Nat /\ m \in Nat
  BY <1>3
<1>5. /\ DOMAIN a = 1..n /\ DOMAIN b = 1..m /\ DOMAIN (a \o b) = 1..(n + m)
      /\ (m = 0 <=> b = <<>>) /\ (n = 0 <=> a = <<>>)
  BY <1>3
<1>6. /\ \A i \in 1..n : (a \o b)[i] = a[i]
      /\ \A i \in (n + 1)..(n + m) : (a \o b)[i] = b[i - n] /\ i - n \in 1..m
  BY <1>3
<1>7. Joined(a \o b, a, b, n, m)
  BY <1>5, <1>6, Zenon DEF Joined
<1> HIDE DEF n, m
<1> QED
  BY <1>4, <1>7

LEMMA ConcatReports ==
    ASSUME NEW a, NEW b, IsSeq(a), IsSeq(b), Starts(b), NEW evs,
           NEW x \in Nat, NEW y \in Nat, NEW z \in Nat, x <= y, y <= z,
           Reports(a, evs, x, y), Reports(b, evs, y, z)
    PROVE  Reports(a \o b, evs, x, z)
<1> DEFINE c == a \o b
<1>0. PICK n, m \in Nat : Joined(c, a, b, n, m)
  BY ConcatIs
<1> HIDE DEF c
<1>1. /\ n \in Nat /\ m \in Nat
      /\ DOMAIN a = 1..n /\ DOMAIN b = 1..m /\ DOMAIN c = 1..(n + m)
      /\ (m = 0 <=> b = <<>>) /\ (n = 0 <=> a = <<>>)
      /\ \A i \in 1..n : c[i] = a[i]
      /\ \A i \in (n + 1)..(n + m) : c[i] = b[i - n] /\ i - n \in 1..m
  BY <1>0, Zenon DEF Joined
<1>2. m # 0 => b[1].key \notin {"timestamp_ms", "gpio"} /\ c[n + 1] = b[1]
  BY <1>1 DEF Starts
<1>3. ASSUME NEW i \in DOMAIN c PROVE Names(c, i, evs)
  <2>1. CASE i \in 1..n
    <3>1. Names(a, i, evs) /\ c[i] = a[i]
      BY <1>1, <2>1 DEF Reports
    <3>2. CASE i + 2 <= n
      <4>1. /\ i + 1 \in DOMAIN a /\ c[i + 1] = a[i + 1]
            /\ i + 2 \in DOMAIN a /\ c[i + 2] = a[i + 2]
        BY <1>1, <2>1, <3>2
      <4> QED
        BY <3>1, <4>1, Zenon DEF Names
    <3>3. CASE i + 1 = n
      <4>1. i + 1 \in DOMAIN a /\ c[i + 1] = a[i + 1]
        BY <1>1, <2>1, <3>3
      <4>2. i + 2 \in DOMAIN c => c[i + 2].key # "gpio"
        BY <1>1, <1>2, <3>3
      <4> QED
        BY <3>1, <4>1, <4>2, Zenon DEF Names
    <3>4. CASE i = n
      <4>1. i + 1 \in DOMAIN c => c[i + 1].key # "timestamp_ms"
        BY <1>1, <1>2, <3>4
      <4> QED
        BY <4>1, Zenon DEF Names
    <3> QED
      BY <1>1, <2>1, <3>2, <3>3, <3>4
  <2>2. CASE i \in (n + 1)..(n + m)
    <3>1. Names(b, i - n, evs) /\ c[i] = b[i - n]
      BY <1>1, <2>2 DEF Reports
    <3>2. i + 1 \in DOMAIN c => (i - n) + 1 \in DOMAIN b /\ c[i + 1] = b[(i - n) + 1]
      BY <1>1, <2>2
    <3>3. i + 2 \in DOMAIN c => (i - n) + 2 \in DOMAIN b /\ c[i + 2] = b[(i - n) + 2]
      BY <1>1, <2>2
    <3> QED
      BY <3>1, <3>2, <3>3, Zenon DEF Names
  <2> QED
    BY <1>1, <2>1, <2>2
<1>4. /\ \A i \in 1..n : a[i].key = "timestamp_ms" => a[i].val \in (x + 1)..y
      /\ \A i \in 1..m : b[i].key = "timestamp_ms" => b[i].val \in (y + 1)..z
      /\ \A i, j \in 1..n :
           i < j /\ a[i].key = "timestamp_ms" /\ a[j].key = "timestamp_ms" => a[i].val < a[j].val
      /\ \A i, j \in 1..m :
           i < j /\ b[i].key = "timestamp_ms" /\ b[j].key = "timestamp_ms" => b[i].val < b[j].val
  BY <1>1 DEF Reports
<1>5. ASSUME NEW i \in DOMAIN c, c[i].key = "timestamp_ms" PROVE c[i].val \in (x + 1)..z
  <2>1. CASE i \in 1..n
    <3>1. c[i].val \in (x + 1)..y
      BY <1>1, <1>4, <1>5, <2>1
    <3> QED
      BY <3>1
  <2>2. CASE i \in (n + 1)..(n + m)
    <3>1. c[i].val \in (y + 1)..z
      BY <1>1, <1>4, <1>5, <2>2
    <3> QED
      BY <3>1
  <2> QED
    BY <1>1, <2>1, <2>2
<1>6. ASSUME NEW i \in DOMAIN c, NEW j \in DOMAIN c, i < j, c[i].key = "timestamp_ms",
             c[j].key = "timestamp_ms"
      PROVE  c[i].val < c[j].val
  <2>1. CASE j \in 1..n
    <3>1. i \in 1..n
      BY <1>1, <1>6, <2>1
    <3> QED
      BY <1>1, <1>4, <1>6, <2>1, <3>1
  <2>2. CASE i \in (n + 1)..(n + m)
    <3>1. j \in (n + 1)..(n + m) /\ i - n < j - n
      BY <1>1, <1>6, <2>2
    <3> QED
      BY <1>1, <1>4, <1>6, <2>2, <3>1
  <2>3. CASE i \in 1..n /\ j \in (n + 1)..(n + m)
    <3>1. c[i].val \in (x + 1)..y
      BY <1>1, <1>4, <1>6, <2>3
    <3>2. c[j].val \in (y + 1)..z
      BY <1>1, <1>4, <1>6, <2>3
    <3> QED
      BY <3>1, <3>2
  <2> QED
    BY <1>1, <2>1, <2>2, <2>3
<1>7. Reports(c, evs, x, z)
  BY <1>3, <1>5, <1>6, Zenon DEF Reports
<1> QED
  BY <1>7 DEF c

-----------------------------------------------------------------------------
(* Induction over a sequence: what holds of its first element and of the   *)
(* next whenever of one holds of all.                                      *)
LEMMA UpTo ==
    ASSUME NEW n \in Nat, NEW S, 1 \in S, \A k \in 1..n : k # 1 /\ k - 1 \in S => k \in S
    PROVE  \A k \in 1..n : k \in S
<1> DEFINE Bad == {k \in 1..n : k \notin S}
<1>1. SUFFICES ASSUME Bad # {} PROVE FALSE
  OBVIOUS
<1>2. Bad \subseteq Nat
  OBVIOUS
<1>3. PICK m \in Bad : \A k \in Bad : m <= k
  <2> HIDE DEF Bad
  <2> QED
    BY <1>1, <1>2, NatMin
<1>4. m \in 1..n /\ m \notin S /\ m # 1
  OBVIOUS
<1>5. m - 1 \in 1..n /\ m - 1 < m
  BY <1>4
<1>6. m - 1 \in S
  BY <1>3, <1>4, <1>5
<1> QED
  BY <1>4, <1>6

LEMMA FlattenIs ==
    ASSUME NEW T, NEW seqs \in Seq(T), seqs # <<>>
    PROVE  \E f : /\ FlattenSeq(seqs) = f[Len(seqs)]
                  /\ \A k \in 1..Len(seqs) :
                        f[k] = IF k = 1 THEN seqs[k] ELSE f[k - 1] \o seqs[k]
<1> DEFINE n == Len(seqs)
           flatten == CHOOSE f : Flattens(f, seqs, n)
<1>1. n \in Nat /\ n # 0
  OBVIOUS
<1> HIDE DEF n
<1>2. Flattens(flatten, seqs, n)
  <2>1. \E f : Flattens(f, seqs, n)
    BY <1>1, FlattenExists
  <2> QED
    BY <2>1, Zenon
<1>3. FlattenSeq(seqs) = flatten[n]
  BY <1>1, Zenon DEF FlattenSeq, Flattens, n
<1> HIDE DEF flatten
<1>4. \A k \in 1..n : flatten[k] = IF k = 1 THEN seqs[k] ELSE flatten[k - 1] \o seqs[k]
  BY <1>2, Zenon DEF Flattens
<1> QED
  BY <1>3, <1>4 DEF n

-----------------------------------------------------------------------------
(* The lines of events.                                                    *)

Lines6(c, x, y, z, u, v, w) ==
    /\ DOMAIN c = 1..6 /\ c[1] = x /\ c[2] = y /\ c[3] = z
    /\ c[4] = u /\ c[5] = v /\ c[6] = w
Lines3(c, x, y, z) == DOMAIN c = 1..3 /\ c[1] = x /\ c[2] = y /\ c[3] = z

LEMMA Join6 ==
    ASSUME NEW x, NEW y, NEW z, NEW u, NEW v, NEW w
    PROVE  Lines6(<<x, y>> \o <<z, u, v, w>>, x, y, z, u, v, w)
<1>1. ASSUME NEW c, c = <<x, y>> \o <<z, u, v, w>> PROVE Lines6(c, x, y, z, u, v, w)
  BY <1>1 DEF Lines6
<1> QED
  BY <1>1, Zenon

LEMMA Join3 ==
    ASSUME NEW x, NEW y, NEW z
    PROVE  Lines3(<<x, y>> \o <<z>>, x, y, z)
<1>1. ASSUME NEW c, c = <<x, y>> \o <<z>> PROVE Lines3(c, x, y, z)
  BY <1>1 DEF Lines3
<1> QED
  BY <1>1, Zenon

LEMMA EventLinesIs ==
    ASSUME NEW e
    PROVE  LET ls == EventLines(e) IN
           /\ IsSeq(ls) /\ DOMAIN ls \in {1..3, 1..6}
           /\ ls[1] = Line("event", mygpiod_event_name[e.type])
           /\ ls[2] = Line("timestamp_ms", e.no)
           /\ ls[3].key = "gpio" => ls[3].val = e.gpio
           /\ ls[3].key \in {"gpio", "device"}
           /\ \A i \in DOMAIN ls : i > 3 => ls[i].key \in {"type", "code", "value"}
<1> DEFINE ls == EventLines(e)
           l1 == Line("event", mygpiod_event_name[e.type])
           l2 == Line("timestamp_ms", e.no)
           l3 == Line("device", "device")
           l4 == Line("type", "type")
           l5 == Line("code", "code")
           l6 == Line("value", "1")
           l7 == Line("gpio", e.gpio)
<1>1. ls = <<l1, l2>> \o (IF e.type = "INPUT" THEN <<l3, l4, l5, l6>> ELSE <<l7>>)
  BY DEF EventLines
<1>2. /\ l3.key = "device" /\ l4.key = "type" /\ l5.key = "code" /\ l6.key = "value"
      /\ l7.key = "gpio" /\ l7.val = e.gpio
  BY DEF Line
<1>3. IsSeq(ls)
  BY EventLinesBody DEF Body
<1> HIDE DEF ls, l1, l2, l3, l4, l5, l6, l7
<1>4. CASE e.type = "INPUT"
  <2>1. ls = <<l1, l2>> \o <<l3, l4, l5, l6>>
    BY <1>1, <1>4
  <2>2. /\ DOMAIN ls = 1..6 /\ ls[1] = l1 /\ ls[2] = l2 /\ ls[3] = l3
        /\ ls[4] = l4 /\ ls[5] = l5 /\ ls[6] = l6
    <3>1. Lines6(<<l1, l2>> \o <<l3, l4, l5, l6>>, l1, l2, l3, l4, l5, l6)
      BY Join6, Zenon
    <3>2. Lines6(ls, l1, l2, l3, l4, l5, l6)
      BY <2>1, <3>1, Zenon
    <3> QED
      BY <3>2 DEF Lines6
  <2> QED
    BY <1>2, <1>3, <2>2 DEF ls, l1, l2
<1>5. CASE e.type # "INPUT"
  <2>1. ls = <<l1, l2>> \o <<l7>>
    BY <1>1, <1>5
  <2>2. DOMAIN ls = 1..3 /\ ls[1] = l1 /\ ls[2] = l2 /\ ls[3] = l7
    <3>1. Lines3(<<l1, l2>> \o <<l7>>, l1, l2, l7)
      BY Join3, Zenon
    <3>2. Lines3(ls, l1, l2, l7)
      BY <2>1, <3>1, Zenon
    <3> QED
      BY <3>2 DEF Lines3
  <2> QED
    BY <1>2, <1>3, <2>2 DEF ls, l1, l2
<1> QED
  BY <1>4, <1>5

LEMMA EventLinesReport ==
    ASSUME NEW evs, NEW e, e = evs[e.no], NEW x \in Nat, e.no \in Nat, x < e.no
    PROVE  Reports(EventLines(e), evs, x, e.no) /\ Starts(EventLines(e))
<1> DEFINE ls == EventLines(e)
<1>1. /\ DOMAIN ls \in {1..3, 1..6}
      /\ ls[1] = Line("event", mygpiod_event_name[e.type])
      /\ ls[2] = Line("timestamp_ms", e.no)
      /\ ls[3].key = "gpio" => ls[3].val = e.gpio
      /\ ls[3].key \in {"gpio", "device"}
      /\ \A i \in DOMAIN ls : i > 3 => ls[i].key \in {"type", "code", "value"}
  BY EventLinesIs
<1> HIDE DEF ls
<1>2. /\ ls[1].key = "event" /\ ls[1].val = mygpiod_event_name[e.type]
      /\ ls[2].key = "timestamp_ms" /\ ls[2].val = e.no
  BY <1>1 DEF Line
<1>3. \A i \in DOMAIN ls : i \in Nat /\ i >= 1
  BY <1>1
<1>4. \A i \in DOMAIN ls : (ls[i].key = "event" => i = 1) /\ (ls[i].key = "timestamp_ms" => i = 2)
  BY <1>1, <1>2, <1>3
<1>5. ASSUME NEW i \in DOMAIN ls PROVE Names(ls, i, evs)
  <2>1. CASE i = 1
    <3>1. ls[i + 1] = ls[2] /\ ls[i + 2] = ls[3]
      BY <2>1
    <3>2. evs[ls[i + 1].val] = e
      BY <1>2, <3>1
    <3> QED
      BY <1>1, <1>2, <2>1, <3>1, <3>2 DEF Names
  <2>2. CASE i # 1
    BY <1>4, <2>2 DEF Names
  <2> QED
    BY <2>1, <2>2
<1>6. e.no \in (x + 1)..e.no
  OBVIOUS
<1>7. Reports(ls, evs, x, e.no)
  BY <1>2, <1>3, <1>4, <1>5, <1>6 DEF Reports
<1>8. Starts(ls)
  BY <1>2 DEF Starts
<1> QED
  BY <1>7, <1>8 DEF ls

LEMMA ReportsMore ==
    ASSUME NEW ls, NEW evs, NEW x, NEW y \in Nat, NEW z \in Nat, y <= z, Reports(ls, evs, x, y),
           x \in Nat
    PROVE  Reports(ls, evs, x, z)
<1>1. \A v : v \in (x + 1)..y => v \in (x + 1)..z
  OBVIOUS
<1> QED
  BY <1>1, Zenon DEF Reports

LEMMA NoneReport ==
    ASSUME NEW ls, NEW evs, NEW x, NEW y,
           \A i \in DOMAIN ls : ls[i].key \notin {"event", "timestamp_ms"}
    PROVE  Reports(ls, evs, x, y)
  BY DEF Reports, Names

(* EventsBody of events that wait.                                         *)
LEMMA EventsBodyReports ==
    ASSUME NEW es, IsSeq(es), NEW evs, Len(evs) \in Nat, NEW x \in Nat, x <= Len(evs),
           Waits(es, evs, x)
    PROVE  Reports(EventsBody(es), evs, x, Len(evs)) /\ Starts(EventsBody(es))
<1> DEFINE seqs == [i \in DOMAIN es |-> EventLines(es[i])]
           T == {EventLines(es[i]) : i \in DOMAIN es}
           n == Len(es)
<1>1. PICK U : es \in Seq(U)
  BY DEF IsSeq
<1>2. /\ seqs \in Seq(T) /\ Len(seqs) = n /\ n \in Nat /\ DOMAIN es = 1..n
      /\ (es = <<>> <=> seqs = <<>>) /\ (es # <<>> => 1 \in 1..n /\ n \in 1..n)
  BY <1>1
<1>3. \A i \in 1..n : seqs[i] = EventLines(es[i])
  BY <1>2
<1>4. EventsBody(es) = FlattenSeq(seqs)
  BY DEF EventsBody
<1>5. ASSUME NEW i \in 1..n
      PROVE  es[i].no \in Nat /\ x < es[i].no /\ es[i].no <= Len(evs) /\ es[i] = evs[es[i].no]
  <2>1. es[i].no \in (x + 1)..Len(evs) /\ es[i] = evs[es[i].no]
    BY <1>2 DEF Waits
  <2> QED
    BY <2>1
<1> HIDE DEF seqs, T, n
<1>6. CASE es = <<>>
  <2>1. FlattenSeq(seqs) = <<>>
    BY <1>2, <1>6 DEF FlattenSeq
  <2>2. DOMAIN <<>> = {}
    OBVIOUS
  <2>3. Reports(<<>>, evs, x, Len(evs)) /\ Starts(<<>>)
    BY <2>2, NoneReport, Zenon DEF Starts
  <2> QED
    BY <1>4, <2>1, <2>3
<1>7. CASE es # <<>>
  <2>1. PICK f : /\ FlattenSeq(seqs) = f[n]
                 /\ \A k \in 1..n : f[k] = IF k = 1 THEN seqs[k] ELSE f[k - 1] \o seqs[k]
    BY <1>2, <1>7, FlattenIs
  <2> DEFINE Good(k) == /\ IsSeq(f[k]) /\ f[k] # <<>> /\ f[k][1].key = "event"
                        /\ Reports(f[k], evs, x, es[k].no)
             S == {k \in 1..n : Good(k)}
  <2>2. 1 \in S
    <3>1. f[1] = EventLines(es[1]) /\ 1 \in 1..n
      BY <1>2, <1>3, <1>7, <2>1
    <3>2. Reports(EventLines(es[1]), evs, x, es[1].no)
      BY <1>5, <3>1, EventLinesReport
    <3>3. Body(EventLines(es[1])) /\ EventLines(es[1]) # <<>> /\ EventLines(es[1])[1].key = "event"
      BY EventLinesBody
    <3> QED
      BY <3>1, <3>2, <3>3 DEF Body
  <2>3. ASSUME NEW k \in 1..n, k # 1, k - 1 \in S PROVE k \in S
    <3> DEFINE a == f[k - 1]
               b == EventLines(es[k])
    <3>1. f[k] = a \o b
      BY <1>3, <2>1, <2>3
    <3>2. IsSeq(a) /\ a # <<>> /\ a[1].key = "event" /\ Reports(a, evs, x, es[k - 1].no)
      BY <2>3
    <3>3. k - 1 \in 1..n /\ k - 1 < k
      BY <1>2, <2>3
    <3>4. es[k - 1].no \in Nat /\ es[k].no \in Nat /\ x <= es[k - 1].no /\ es[k - 1].no < es[k].no
      <4>1. es[k - 1].no < es[k].no
        BY <1>2, <3>3 DEF Waits
      <4> QED
        BY <1>5, <3>3, <4>1
    <3>5. Reports(b, evs, es[k - 1].no, es[k].no) /\ Starts(b)
      BY <1>5, <3>4, EventLinesReport
    <3>6. Body(b)
      BY EventLinesBody
    <3> HIDE DEF a, b
    <3>7. Reports(a \o b, evs, x, es[k].no)
      BY <3>2, <3>4, <3>5, <3>6, ConcatReports DEF Body
    <3>8. IsSeq(a \o b) /\ a \o b # <<>> /\ (a \o b)[1] = a[1]
      <4>1. PICK V : a \in Seq(V)
        BY <3>2 DEF IsSeq
      <4>2. PICK W : b \in Seq(W)
        BY <3>6 DEF Body, IsSeq
      <4>3. a \in Seq(V \cup W) /\ b \in Seq(V \cup W)
        BY <4>1, <4>2
      <4>4. a \o b # <<>> /\ (a \o b)[1] = a[1]
        BY <3>2, <4>3
      <4> QED
        BY <3>2, <3>6, <4>4, ConcatSeq DEF Body
    <3>9. Good(k)
      BY <3>1, <3>2, <3>7, <3>8, Zenon
    <3> HIDE DEF Good
    <3> QED
      BY <3>9
  <2> HIDE DEF S
  <2>4. n \in S
    BY <1>2, <1>7, <2>2, <2>3, UpTo
  <2>5. Good(n)
    BY <2>4 DEF S
  <2>6. Reports(f[n], evs, x, Len(evs))
    <3>1. es[n].no \in Nat /\ es[n].no <= Len(evs)
      BY <1>2, <1>5, <1>7
    <3> QED
      BY <2>5, <3>1, ReportsMore
  <2> QED
    BY <1>4, <2>1, <2>5, <2>6 DEF Starts
<1> QED
  BY <1>6, <1>7

-----------------------------------------------------------------------------
(* The lines about GPIOs.                                                  *)

Unlike(gs) == \A i, j \in DOMAIN gs : gs[i].id = gs[j].id => i = j
Eventless(ls) == \A i \in DOMAIN ls : ls[i].key \notin {"event", "timestamp_ms"}
Bounded(ls) == ls # <<>> => ls[1].key \in Bounds

LEMMA GpioIs ==
    ASSUME NEW gs, Unlike(gs), NEW i \in DOMAIN gs
    PROVE  Gpio(gs, gs[i].id) = gs[i]
<1>1. (CHOOSE j \in DOMAIN gs : gs[j].id = gs[i].id) = i
  BY DEF Unlike
<1> QED
  BY <1>1, Zenon DEF Gpio

LEMMA GpioOf ==
    ASSUME NEW gs \in Seq(GpioData), NEW id \in Ids(gs), Unlike(gs)
    PROVE  Gpio(gs, id) \in GpioData /\ Gpio(gs, id).id = id /\ Gpio(gs, Gpio(gs, id).id) = Gpio(gs, id)
<1>1. PICK i \in DOMAIN gs : gs[i].id = id
  BY DEF Ids
<1>2. Gpio(gs, id) = gs[i]
  BY <1>1, GpioIs
<1>3. gs[i] \in GpioData
  OBVIOUS
<1> QED
  BY <1>1, <1>2, <1>3

(* A line of an entry about g, its first line included.                    *)
About(l, g) ==
    /\ l.key = "gpio" => l.val = g.id
    /\ l.key \in Bounds \/ Describes(l, g)
    /\ l.key \notin {"event", "timestamp_ms"}

LEMMA AboutDescribing ==
    ASSUME NEW gs, NEW g, Gpio(gs, g.id) = g, NEW T, NEW ls \in Seq(T), \A l \in T : About(l, g)
    PROVE  Describing(ls, gs) /\ Eventless(ls)
<1>1. \A i \in DOMAIN ls : About(ls[i], g) /\ i \in Nat
  OBVIOUS
<1>2. Eventless(ls)
  BY <1>1 DEF Eventless, About
<1>3. ASSUME NEW i \in DOMAIN ls, NEW j \in DOMAIN ls, i < j, ls[i].key = "gpio",
             \A k \in (i + 1)..j : ls[k].key \notin Bounds
      PROVE  Describes(ls[j], Gpio(gs, ls[i].val))
  <2>1. ls[i].val = g.id
    BY <1>1, <1>3 DEF About
  <2>2. j \in (i + 1)..j
    BY <1>1, <1>3
  <2>3. Describes(ls[j], g)
    BY <1>1, <1>3, <2>2 DEF About
  <2> QED
    BY <2>1, <2>3
<1> QED
  BY <1>2, <1>3 DEF Describing

LEMMA AboutLine ==
    ASSUME NEW g \in GpioData
    PROVE  /\ About(Line("gpio", g.id), g)
           /\ g.direction = "IN" => About(Line("direction", "in"), g)
           /\ g.direction # "IN" => About(Line("direction", "out"), g)
           /\ About(Line("value", lookup_gpio_value[g.value]), g)
           /\ About(Line("active_low", mygpio_bool_to_str(g.active_low)), g)
           /\ About(Line("bias", lookup_bias[g.bias]), g)
           /\ About(Line("event_request", lookup_event_request[g.event_request]), g)
           /\ About(Line("is_debounced", mygpio_bool_to_str(g.is_debounced)), g)
           /\ About(Line("debounce_period_us", g.debounce_period_us), g)
           /\ About(Line("event_clock", lookup_event_clock[g.event_clock]), g)
           /\ About(Line("drive", lookup_drive[g.drive]), g)
           /\ About(Line("name", g.name), g)
<1>1. \A key, val : Line(key, val).key = key /\ Line(key, val).val = val
  BY DEF Line
<1>2. ASSUME NEW key, NEW val, key \notin Bounds, key \notin {"event", "timestamp_ms"},
             \/ Decoded(key, val) = g[key]
             \/ key \in Enums /\ Decoded(key, val) = "UNKNOWN"
      PROVE  About(Line(key, val), g)
  BY <1>1, <1>2, Zenon DEF About, Describes, Bounds
<1>3. /\ g.direction \in {"IN", "OUT"} /\ g.value \in DOMAIN lookup_gpio_value
      /\ g.active_low \in BOOLEAN /\ g.bias \in DOMAIN lookup_bias
      /\ g.event_request \in DOMAIN lookup_event_request /\ g.is_debounced \in BOOLEAN
      /\ g.event_clock \in DOMAIN lookup_event_clock /\ g.drive \in DOMAIN lookup_drive
  BY DEF GpioData
<1>4. About(Line("gpio", g.id), g)
  BY <1>1 DEF About, Bounds
<1>5. /\ g.direction = "IN" => About(Line("direction", "in"), g)
      /\ g.direction # "IN" => About(Line("direction", "out"), g)
  <2>1. "direction" \notin Bounds /\ "direction" \notin {"event", "timestamp_ms"}
    BY DEF Bounds
  <2> QED
    BY <1>2, <1>3, <2>1, DecodesDirection
<1>6. About(Line("value", lookup_gpio_value[g.value]), g)
  <2>1. "value" \notin Bounds /\ "value" \notin {"event", "timestamp_ms"} /\ "value" \in Enums
    BY DEF Bounds, Enums
  <2>2. Decoded("value", lookup_gpio_value[g.value]) \in {g.value, "UNKNOWN"}
    BY <1>3, DecodesValue
  <2> QED
    BY <1>2, <2>1, <2>2
<1>7. About(Line("active_low", mygpio_bool_to_str(g.active_low)), g)
  <2>1. "active_low" \notin Bounds /\ "active_low" \notin {"event", "timestamp_ms"}
    BY DEF Bounds
  <2>2. Decoded("active_low", mygpio_bool_to_str(g.active_low)) = g.active_low
    BY <1>3, DecodesBool, Zenon
  <2> QED
    BY <1>2, <2>1, <2>2
<1>8. About(Line("bias", lookup_bias[g.bias]), g)
  <2>1. "bias" \notin Bounds /\ "bias" \notin {"event", "timestamp_ms"}
    BY DEF Bounds
  <2> QED
    BY <1>2, <1>3, <2>1, DecodesBias
<1>9. About(Line("event_request", lookup_event_request[g.event_request]), g)
  <2>1. /\ "event_request" \notin Bounds /\ "event_request" \notin {"event", "timestamp_ms"}
        /\ "event_request" \in Enums
    BY DEF Bounds, Enums
  <2>2. Decoded("event_request", lookup_event_request[g.event_request])
          \in {g.event_request, "UNKNOWN"}
    BY <1>3, DecodesRequest
  <2> QED
    BY <1>2, <2>1, <2>2
<1>10. About(Line("is_debounced", mygpio_bool_to_str(g.is_debounced)), g)
  <2>1. "is_debounced" \notin Bounds /\ "is_debounced" \notin {"event", "timestamp_ms"}
    BY DEF Bounds
  <2>2. Decoded("is_debounced", mygpio_bool_to_str(g.is_debounced)) = g.is_debounced
    BY <1>3, DecodesBool, Zenon
  <2> QED
    BY <1>2, <2>1, <2>2
<1>11. About(Line("debounce_period_us", g.debounce_period_us), g)
  <2>1. "debounce_period_us" \notin Bounds /\ "debounce_period_us" \notin {"event", "timestamp_ms"}
    BY DEF Bounds
  <2> QED
    BY <1>2, <2>1, DecodesPlain
<1>12. About(Line("event_clock", lookup_event_clock[g.event_clock]), g)
  <2>1. "event_clock" \notin Bounds /\ "event_clock" \notin {"event", "timestamp_ms"}
    BY DEF Bounds
  <2> QED
    BY <1>2, <1>3, <2>1, DecodesClock
<1>13. About(Line("drive", lookup_drive[g.drive]), g)
  <2>1. "drive" \notin Bounds /\ "drive" \notin {"event", "timestamp_ms"}
    BY DEF Bounds
  <2> QED
    BY <1>2, <1>3, <2>1, DecodesDrive
<1>14. About(Line("name", g.name), g)
  <2>1. "name" \notin Bounds /\ "name" \notin {"event", "timestamp_ms"}
    BY DEF Bounds
  <2> QED
    BY <1>2, <2>1, DecodesPlain
<1> QED
  BY <1>4, <1>5, <1>6, <1>7, <1>8, <1>9, <1>10, <1>11, <1>12, <1>13, <1>14

LEMMA ListEntryAbout ==
    ASSUME NEW gs, NEW g \in GpioData, Gpio(gs, g.id) = g
    PROVE  /\ Describing(ListEntry(g), gs) /\ Eventless(ListEntry(g))
           /\ ListEntry(g) # <<>> /\ ListEntry(g)[1].key = "gpio"
<1> DEFINE l1 == Line("gpio", g.id)
           l2 == Line("direction", IF g.direction = "IN" THEN "in" ELSE "out")
           l3 == Line("value", lookup_gpio_value[g.value])
           l4 == Line("name", g.name)
<1>1. ListEntry(g) = <<l1, l2, l3, l4>>
  BY DEF ListEntry
<1>2. About(l1, g) /\ About(l2, g) /\ About(l3, g) /\ About(l4, g) /\ l1.key = "gpio"
  <2>1. l1.key = "gpio"
    BY DEF Line
  <2>2. About(l2, g)
    <3>1. CASE g.direction = "IN"
      BY <3>1, AboutLine
    <3>2. CASE g.direction # "IN"
      BY <3>2, AboutLine
    <3> QED
      BY <3>1, <3>2
  <2>3. About(l1, g) /\ About(l3, g) /\ About(l4, g)
    BY AboutLine
  <2> QED
    BY <2>1, <2>2, <2>3
<1> HIDE DEF l1, l2, l3, l4
<1> DEFINE T == {l1, l2, l3, l4}
           ls == <<l1, l2, l3, l4>>
<1>3. ls \in Seq(T) /\ ls # <<>> /\ ls[1] = l1
  OBVIOUS
<1>4. \A l \in T : About(l, g)
  BY <1>2
<1> HIDE DEF T, ls
<1>5. Describing(ls, gs) /\ Eventless(ls)
  BY <1>3, <1>4, AboutDescribing
<1> QED
  BY <1>1, <1>2, <1>3, <1>5 DEF ls

LEMMA ConcatDescribing ==
    ASSUME NEW a, NEW b, IsSeq(a), IsSeq(b), Bounded(b), NEW gs, Describing(a, gs), Describing(b, gs)
    PROVE  Describing(a \o b, gs)
<1> DEFINE c == a \o b
<1>1. PICK n, m \in Nat : Joined(c, a, b, n, m)
  BY ConcatIs
<1> HIDE DEF c
<1>2. /\ n \in Nat /\ m \in Nat
      /\ DOMAIN a = 1..n /\ DOMAIN b = 1..m /\ DOMAIN c = 1..(n + m)
      /\ (m = 0 <=> b = <<>>) /\ (n = 0 <=> a = <<>>)
      /\ \A i \in 1..n : c[i] = a[i]
      /\ \A i \in (n + 1)..(n + m) : c[i] = b[i - n] /\ i - n \in 1..m
  BY <1>1, Zenon DEF Joined
<1>3. m # 0 => c[n + 1].key \in Bounds
  BY <1>2 DEF Bounded
<1>4. SUFFICES ASSUME NEW i \in DOMAIN c, NEW j \in DOMAIN c, i < j, c[i].key = "gpio",
                      \A k \in (i + 1)..j : c[k].key \notin Bounds
               PROVE  Describes(c[j], Gpio(gs, c[i].val))
  <2>1. Describing(c, gs)
    BY <1>4 DEF Describing
  <2> QED
    BY <2>1 DEF c
<1>5. CASE j \in 1..n
  <2>1. i \in 1..n
    BY <1>2, <1>4, <1>5
  <2>2. \A k \in (i + 1)..j : a[k].key \notin Bounds
    BY <1>2, <1>4, <1>5, <2>1
  <2>3. c[i] = a[i] /\ c[j] = a[j]
    BY <1>2, <1>5, <2>1
  <2> QED
    BY <1>2, <1>4, <1>5, <2>1, <2>2, <2>3 DEF Describing
<1>6. CASE i \in (n + 1)..(n + m)
  <2>1. /\ j \in (n + 1)..(n + m) /\ i - n < j - n
        /\ i - n \in DOMAIN b /\ j - n \in DOMAIN b
    BY <1>2, <1>4, <1>6
  <2>2. ASSUME NEW k \in ((i - n) + 1)..(j - n) PROVE b[k].key \notin Bounds
    <3>1. k + n \in (i + 1)..j /\ k + n \in (n + 1)..(n + m) /\ (k + n) - n = k
      BY <1>2, <1>4, <1>6, <2>1, <2>2
    <3> QED
      BY <1>2, <1>4, <3>1
  <2>3. c[i] = b[i - n] /\ c[j] = b[j - n]
    BY <1>2, <1>6, <2>1
  <2> QED
    BY <1>4, <2>1, <2>2, <2>3 DEF Describing
<1>7. CASE i \in 1..n /\ j \in (n + 1)..(n + m)
  <2>1. n + 1 \in (i + 1)..j /\ m # 0
    BY <1>2, <1>7
  <2> QED
    BY <1>3, <1>4, <2>1
<1> QED
  BY <1>2, <1>5, <1>6, <1>7

LEMMA ConcatEventless ==
    ASSUME NEW a, NEW b, IsSeq(a), IsSeq(b), Eventless(a), Eventless(b)
    PROVE  Eventless(a \o b)
<1> DEFINE c == a \o b
<1>1. PICK n, m \in Nat : Joined(c, a, b, n, m)
  BY ConcatIs
<1> HIDE DEF c
<1>2. /\ n \in Nat /\ m \in Nat
      /\ DOMAIN a = 1..n /\ DOMAIN b = 1..m /\ DOMAIN c = 1..(n + m)
      /\ \A i \in 1..n : c[i] = a[i]
      /\ \A i \in (n + 1)..(n + m) : c[i] = b[i - n] /\ i - n \in 1..m
  BY <1>1, Zenon DEF Joined
<1>3. ASSUME NEW i \in DOMAIN c PROVE c[i].key \notin {"event", "timestamp_ms"}
  <2>1. CASE i \in 1..n
    BY <1>2, <2>1 DEF Eventless
  <2>2. CASE i \in (n + 1)..(n + m)
    BY <1>2, <2>2 DEF Eventless
  <2> QED
    BY <1>2, <2>1, <2>2
<1>4. Eventless(c)
  BY <1>3 DEF Eventless
<1> QED
  BY <1>4 DEF c

LEMMA SingleIs ==
    ASSUME NEW x
    PROVE  /\ IsSeq(<<x>>) /\ (x.key \notin {"event", "timestamp_ms"} => Eventless(<<x>>))
           /\ (x.key \in Bounds => Bounded(<<x>>)) /\ \A gs : Describing(<<x>>, gs)
           /\ (x.key \notin {"timestamp_ms", "gpio"} => Starts(<<x>>))
<1> DEFINE s == <<x>>
<1>1. s \in Seq({x}) /\ DOMAIN s = {1} /\ s[1] = x
  OBVIOUS
<1> HIDE DEF s
<1>2. IsSeq(s)
  BY <1>1, Zenon DEF IsSeq
<1>3. /\ x.key \notin {"event", "timestamp_ms"} => Eventless(s)
      /\ x.key \in Bounds => Bounded(s)
      /\ x.key \notin {"timestamp_ms", "gpio"} => Starts(s)
  BY <1>1 DEF Eventless, Bounded, Starts
<1>4. \A gs : Describing(s, gs)
  BY <1>1 DEF Describing
<1> QED
  BY <1>2, <1>3, <1>4 DEF s

LEMMA OkIs ==
    ASSUME NEW body, IsSeq(body), NEW gs
    PROVE  /\ Eventless(body) => Eventless(Ok(body))
           /\ Describing(body, gs) /\ Bounded(body) => Describing(Ok(body), gs)
           /\ Starts(Ok(body))
<1> DEFINE ok == Line("OK", "")
           end == Line("END", "")
           b == <<ok>> \o body
<1>1. ok.key = "OK" /\ end.key = "END"
  BY DEF Line
<1>2. Ok(body) = b \o <<end>>
  BY DEF Ok
<1>3. "OK" \in Bounds /\ "END" \in Bounds
  BY DEF Bounds
<1> HIDE DEF ok, end
<1>4. /\ IsSeq(<<ok>>) /\ Eventless(<<ok>>) /\ Describing(<<ok>>, gs)
      /\ IsSeq(<<end>>) /\ Eventless(<<end>>) /\ Describing(<<end>>, gs) /\ Bounded(<<end>>)
  BY <1>1, <1>3, SingleIs
<1>5. IsSeq(b) /\ (Eventless(body) => Eventless(b))
  BY <1>4, ConcatSeq, ConcatEventless
<1>6. Describing(body, gs) /\ Bounded(body) => Describing(b, gs)
  BY <1>4, ConcatDescribing
<1> HIDE DEF b
<1>7. /\ Eventless(b) => Eventless(b \o <<end>>)
      /\ Describing(b, gs) => Describing(b \o <<end>>, gs)
  BY <1>4, <1>5, ConcatEventless, ConcatDescribing
<1>8. Starts(b \o <<end>>)
  <2>1. PICK T : body \in Seq(T)
    BY DEF IsSeq
  <2>2. body \in Seq(T \cup {ok, end})
    BY <2>1
  <2>3. b \o <<end>> # <<>> /\ (b \o <<end>>)[1] = ok
    BY <2>2 DEF b
  <2> QED
    BY <1>1, <2>3 DEF Starts
<1> QED
  BY <1>2, <1>5, <1>6, <1>7, <1>8

-----------------------------------------------------------------------------
(* The responses: what they say of GPIOs, and that only EventsBody tells   *)
(* of events.                                                              *)

LEMMA ListDescribes ==
    ASSUME NEW gs \in Seq(GpioData), Unlike(gs)
    PROVE  LET ls == handle_gpiolist(gs) IN Describing(ls, gs) /\ Eventless(ls) /\ Starts(ls)
<1> DEFINE seqs == [i \in DOMAIN gs |-> ListEntry(gs[i])]
           T == {ListEntry(gs[i]) : i \in DOMAIN gs}
           n == Len(gs)
<1>1. /\ seqs \in Seq(T) /\ Len(seqs) = n /\ n \in Nat /\ DOMAIN gs = 1..n
      /\ (gs = <<>> <=> seqs = <<>>) /\ (gs # <<>> => 1 \in 1..n /\ n \in 1..n)
  OBVIOUS
<1>2. ASSUME NEW i \in 1..n
      PROVE  /\ seqs[i] = ListEntry(gs[i])
             /\ IsSeq(seqs[i]) /\ seqs[i] # <<>> /\ seqs[i][1].key = "gpio"
             /\ Describing(seqs[i], gs) /\ Eventless(seqs[i])
  <2>1. seqs[i] = ListEntry(gs[i]) /\ gs[i] \in GpioData
    BY <1>1
  <2>2. Gpio(gs, gs[i].id) = gs[i]
    BY <1>1, GpioIs
  <2>3. /\ Describing(ListEntry(gs[i]), gs) /\ Eventless(ListEntry(gs[i]))
        /\ ListEntry(gs[i]) # <<>> /\ ListEntry(gs[i])[1].key = "gpio"
    BY <2>1, <2>2, ListEntryAbout
  <2>4. IsSeq(ListEntry(gs[i]))
    BY ListEntryBody, Zenon DEF Body
  <2> HIDE DEF seqs
  <2> QED
    BY <2>1, <2>3, <2>4
<1>3. handle_gpiolist(gs) = Ok(FlattenSeq(seqs))
  BY DEF handle_gpiolist
<1> HIDE DEF seqs, T, n
<1>4. /\ IsSeq(FlattenSeq(seqs)) /\ Describing(FlattenSeq(seqs), gs)
      /\ Eventless(FlattenSeq(seqs)) /\ Bounded(FlattenSeq(seqs))
  <2>1. CASE gs = <<>>
    <3>1. FlattenSeq(seqs) = <<>>
      BY <1>1, <2>1 DEF FlattenSeq
    <3>2. IsSeq(<<>>) /\ DOMAIN <<>> = {}
      BY EmptyIs
    <3> QED
      BY <3>1, <3>2 DEF Describing, Eventless, Bounded
  <2>2. CASE gs # <<>>
    <3>1. PICK f : /\ FlattenSeq(seqs) = f[n]
                   /\ \A k \in 1..n : f[k] = IF k = 1 THEN seqs[k] ELSE f[k - 1] \o seqs[k]
      BY <1>1, <2>2, FlattenIs
    <3> DEFINE Good(k) == /\ IsSeq(f[k]) /\ f[k] # <<>> /\ f[k][1].key = "gpio"
                          /\ Describing(f[k], gs) /\ Eventless(f[k])
               S == {k \in 1..n : Good(k)}
    <3>2. 1 \in S
      <4>1. f[1] = seqs[1] /\ 1 \in 1..n
        BY <1>1, <2>2, <3>1
      <4> QED
        BY <1>2, <4>1
    <3>3. ASSUME NEW k \in 1..n, k # 1, k - 1 \in S PROVE k \in S
      <4> DEFINE a == f[k - 1]
                 b == seqs[k]
      <4>1. f[k] = a \o b
        BY <3>1, <3>3
      <4>2. IsSeq(a) /\ a # <<>> /\ a[1].key = "gpio" /\ Describing(a, gs) /\ Eventless(a)
        BY <3>3
      <4>3. IsSeq(b) /\ b # <<>> /\ b[1].key = "gpio" /\ Describing(b, gs) /\ Eventless(b)
        BY <1>2
      <4> HIDE DEF a, b
      <4>4. Bounded(b)
        BY <4>3 DEF Bounded, Bounds
      <4>5. Describing(a \o b, gs) /\ Eventless(a \o b) /\ IsSeq(a \o b)
        BY <4>2, <4>3, <4>4, ConcatDescribing, ConcatEventless, ConcatSeq
      <4>6. a \o b # <<>> /\ (a \o b)[1] = a[1]
        <5>1. PICK V : a \in Seq(V)
          BY <4>2 DEF IsSeq
        <5>2. PICK W : b \in Seq(W)
          BY <4>3 DEF IsSeq
        <5>3. a \in Seq(V \cup W) /\ b \in Seq(V \cup W)
          BY <5>1, <5>2
        <5> QED
          BY <4>2, <5>3
      <4>7. Good(k)
        BY <4>1, <4>2, <4>5, <4>6, Zenon
      <4> HIDE DEF Good
      <4> QED
        BY <4>7
    <3> HIDE DEF S
    <3>4. n \in S
      BY <1>1, <2>2, <3>2, <3>3, UpTo
    <3>5. Good(n)
      BY <3>4 DEF S
    <3>6. Bounded(f[n])
      BY <3>5 DEF Bounded, Bounds
    <3> QED
      BY <3>1, <3>5, <3>6
  <2> QED
    BY <2>1, <2>2
<1> QED
  BY <1>3, <1>4, OkIs

LEMMA InfoAbout ==
    ASSUME NEW g \in GpioData
    PROVE  /\ g.direction = "IN" => \E T : InfoIn(g) \in Seq(T) /\ \A l \in T : About(l, g)
           /\ g.direction # "IN" => \E T : InfoOut(g) \in Seq(T) /\ \A l \in T : About(l, g)
<1> DEFINE l1 == Line("direction", "in")
           l2 == Line("value", lookup_gpio_value[g.value])
           l3 == Line("active_low", mygpio_bool_to_str(g.active_low))
           l4 == Line("bias", lookup_bias[g.bias])
           l5 == Line("event_request", lookup_event_request[g.event_request])
           l6 == Line("is_debounced", mygpio_bool_to_str(g.is_debounced))
           l7 == Line("debounce_period_us", g.debounce_period_us)
           l8 == Line("event_clock", lookup_event_clock[g.event_clock])
           l9 == Line("name", g.name)
           o1 == Line("direction", "out")
           o3 == Line("drive", lookup_drive[g.drive])
<1>1. InfoIn(g) = <<l1, l2, l3, l4, l5, l6, l7, l8, l9>>
  BY DEF InfoIn
<1>2. InfoOut(g) = <<o1, l2, o3, l9>>
  BY DEF InfoOut
<1>3. /\ g.direction = "IN" => About(l1, g)
      /\ g.direction # "IN" => About(o1, g)
      /\ About(l2, g) /\ About(l3, g) /\ About(l4, g) /\ About(l5, g) /\ About(l6, g)
      /\ About(l7, g) /\ About(l8, g) /\ About(l9, g) /\ About(o3, g)
  BY AboutLine
<1> HIDE DEF l1, l2, l3, l4, l5, l6, l7, l8, l9, o1, o3
<1> DEFINE T == {l1, l2, l3, l4, l5, l6, l7, l8, l9}
           U == {o1, l2, o3, l9}
<1>4. <<l1, l2, l3, l4, l5, l6, l7, l8, l9>> \in Seq(T)
  OBVIOUS
<1>5. <<o1, l2, o3, l9>> \in Seq(U)
  OBVIOUS
<1>6. /\ g.direction = "IN" => \A l \in T : About(l, g)
      /\ g.direction # "IN" => \A l \in U : About(l, g)
  BY <1>3
<1> HIDE DEF T, U
<1> QED
  BY <1>1, <1>2, <1>4, <1>5, <1>6, Zenon

LEMMA ErrorIs ==
    /\ IsSeq(Error) /\ Eventless(Error) /\ Starts(Error) /\ \A gs : Describing(Error, gs)
    /\ \A i \in DOMAIN Error : Error[i].key # "value"
<1> DEFINE l == Line("ERROR", "")
<1>1. l.key = "ERROR" /\ Error = <<l>>
  BY DEF Line, Error
<1> HIDE DEF l
<1>2. IsSeq(<<l>>) /\ Eventless(<<l>>) /\ Starts(<<l>>) /\ \A gs : Describing(<<l>>, gs)
  BY <1>1, SingleIs
<1>3. \A i \in DOMAIN <<l>> : <<l>>[i].key # "value"
  BY <1>1
<1> QED
  BY <1>1, <1>2, <1>3

LEMMA InfoDescribes ==
    ASSUME NEW gs \in Seq(GpioData), Unlike(gs), NEW args, NEW ok \in BOOLEAN
    PROVE  LET ls == handle_gpioinfo(args, gs, ok) IN Describing(ls, gs) /\ Eventless(ls) /\ Starts(ls)
<1> DEFINE g == Gpio(gs, args[1])
           info == IF ~ok THEN <<>> ELSE IF g.direction = "IN" THEN InfoIn(g) ELSE InfoOut(g)
           l == Line("gpio", g.id)
           body == <<l>> \o info
<1>1. CASE handle_gpioinfo(args, gs, ok) = Error
  BY <1>1, ErrorIs
<1>2. CASE handle_gpioinfo(args, gs, ok) # Error
  <2>1. handle_gpioinfo(args, gs, ok) = Ok(body) /\ args[1] \in Ids(gs)
    BY <1>2 DEF handle_gpioinfo
  <2>2. g \in GpioData /\ Gpio(gs, g.id) = g
    BY <2>1, GpioOf
  <2> HIDE DEF g
  <2>3. \E T : info \in Seq(T) /\ \A m \in T : About(m, g)
    <3>1. CASE ~ok
      <4> DEFINE T == {l}
      <4>1. info = <<>> /\ <<>> \in Seq(T)
        BY <3>1
      <4>2. \A m \in T : About(m, g)
        BY <2>2, AboutLine
      <4> HIDE DEF info, T
      <4> QED
        BY <4>1, <4>2, Zenon
    <3>2. CASE ok /\ g.direction = "IN"
      <4>1. info = InfoIn(g)
        BY <3>2
      <4> QED
        BY <2>2, <3>2, <4>1, InfoAbout, Zenon
    <3>3. CASE ok /\ g.direction # "IN"
      <4>1. info = InfoOut(g)
        BY <3>3
      <4> QED
        BY <2>2, <3>3, <4>1, InfoAbout, Zenon
    <3> QED
      BY <3>1, <3>2, <3>3
  <2> HIDE DEF info
  <2>4. PICK T : info \in Seq(T) /\ \A m \in T : About(m, g)
    BY <2>3
  <2>5. About(l, g) /\ l.key = "gpio"
    BY <2>2, AboutLine DEF Line
  <2> HIDE DEF l
  <2>6. body \in Seq(T \cup {l}) /\ \A m \in T \cup {l} : About(m, g)
    BY <2>4, <2>5
  <2>7. body # <<>> /\ body[1] = l
    BY <2>4
  <2> HIDE DEF body
  <2>8. Describing(body, gs) /\ Eventless(body)
    BY <2>2, <2>6, AboutDescribing
  <2>9. Bounded(body) /\ IsSeq(body)
    BY <2>5, <2>6, <2>7 DEF Bounded, Bounds, IsSeq
  <2> QED
    BY <2>1, <2>8, <2>9, OkIs
<1> QED
  BY <1>1, <1>2

LEMMA SingleOk ==
    ASSUME NEW x, x.key \notin {"event", "timestamp_ms"}
    PROVE  /\ Eventless(Ok(<<x>>)) /\ Starts(Ok(<<x>>))
           /\ \A i \in DOMAIN Ok(<<x>>) : Ok(<<x>>)[i].key = "value" => Ok(<<x>>)[i] = x
<1>1. IsSeq(<<x>>) /\ Eventless(<<x>>)
  BY SingleIs
<1>2. Eventless(Ok(<<x>>)) /\ Starts(Ok(<<x>>))
  BY <1>1, OkIs
<1> DEFINE ok == Line("OK", "")
           end == Line("END", "")
           b == <<ok>> \o <<x>>
<1>3. ok.key = "OK" /\ end.key = "END" /\ Ok(<<x>>) = b \o <<end>>
  BY DEF Ok, Line
<1> HIDE DEF ok, end
<1>4. ASSUME NEW c, c = (<<ok>> \o <<x>>) \o <<end>>
      PROVE  \A i \in DOMAIN c : c[i] \in {ok, x, end}
  BY <1>4
<1>5. \A i \in DOMAIN Ok(<<x>>) : Ok(<<x>>)[i] \in {ok, x, end}
  BY <1>3, <1>4, Zenon
<1> QED
  BY <1>2, <1>3, <1>5

LEMMA GetValues ==
    ASSUME NEW gs \in Seq(GpioData), Unlike(gs), NEW args
    PROVE  LET ls == handle_gpioget(args, gs) IN
           Values(ls, Gpio(gs, args[1]).value) /\ Eventless(ls) /\ Starts(ls)
<1> DEFINE v == Gpio(gs, args[1]).value
           l == Line("value", lookup_gpio_value[v])
<1>1. CASE handle_gpioget(args, gs) = Error
  BY <1>1, ErrorIs DEF Values
<1>2. CASE handle_gpioget(args, gs) # Error
  <2>1. handle_gpioget(args, gs) = Ok(<<l>>) /\ args[1] \in Ids(gs)
    BY <1>2 DEF handle_gpioget
  <2>2. v \in DOMAIN lookup_gpio_value
    BY <2>1, GpioOf DEF GpioData
  <2>3. l.key = "value" /\ Decoded("value", l.val) \in {v, "UNKNOWN"}
    BY <2>2, DecodesValue DEF Line
  <2> HIDE DEF l, v
  <2>4. /\ Eventless(Ok(<<l>>)) /\ Starts(Ok(<<l>>))
        /\ \A i \in DOMAIN Ok(<<l>>) : Ok(<<l>>)[i].key = "value" => Ok(<<l>>)[i] = l
    BY <2>3, SingleOk
  <2>5. Values(Ok(<<l>>), v)
    BY <2>3, <2>4 DEF Values
  <2> QED
    BY <2>1, <2>4, <2>5 DEF v
<1> QED
  BY <1>1, <1>2

LEMMA VcioEventless ==
    ASSUME NEW ok
    PROVE  Eventless(handle_raspberry_vcio(ok)) /\ Starts(handle_raspberry_vcio(ok))
<1> DEFINE l == Line("value", "mailbox")
<1>1. handle_raspberry_vcio(ok) \in {Error, Ok(<<l>>)}
  BY DEF handle_raspberry_vcio
<1>2. l.key = "value"
  BY DEF Line
<1> HIDE DEF l
<1> QED
  BY <1>1, <1>2, SingleOk, ErrorIs

LEMMA GreetingEventless ==
    LET ls == Ok(<<Line("version", <<1, 2, 3>>)>>) IN Eventless(ls) /\ Starts(ls)
<1> DEFINE l == Line("version", <<1, 2, 3>>)
<1>1. l.key = "version"
  BY DEF Line
<1> HIDE DEF l
<1>2. Eventless(Ok(<<l>>)) /\ Starts(Ok(<<l>>))
  BY <1>1, SingleOk
<1> QED
  BY <1>2 DEF l

LEMMA DoneEventless == Eventless(Done) /\ Starts(Done)
<1>1. IsSeq(<<>>) /\ Eventless(<<>>)
  BY EmptyIs DEF Eventless
<1> QED
  BY <1>1, OkIs DEF Done

(* The responses of idle and noidle tell of the events that waited.        *)
LEMMA IdleReports ==
    ASSUME NEW es, IsSeq(es), es # <<>>, NEW evs, Len(evs) \in Nat, NEW x \in Nat, x <= Len(evs),
           Waits(es, evs, x)
    PROVE  LET ls == EventsBody(es) \o <<Line("END", "")>> IN
           Reports(ls, evs, x, Len(evs)) /\ Starts(ls)
<1> DEFINE b == EventsBody(es)
           l == Line("END", "")
<1>1. l.key = "END"
  BY DEF Line
<1>2. IsSeq(b) /\ Reports(b, evs, x, Len(evs))
  BY EventsBodyIs, EventsBodyReports DEF Body
<1>3. (b \o <<l>>)[1].key = "event"
  BY IdleResponse
<1> HIDE DEF b, l
<1>4. IsSeq(<<l>>) /\ Starts(<<l>>) /\ Eventless(<<l>>)
  BY <1>1, SingleIs
<1>5. Reports(<<l>>, evs, Len(evs), Len(evs))
  BY <1>4, NoneReport DEF Eventless
<1>6. Reports(b \o <<l>>, evs, x, Len(evs))
  BY <1>2, <1>4, <1>5, ConcatReports
<1> QED
  BY <1>3, <1>6 DEF Starts, b, l

LEMMA NoidleReports ==
    ASSUME NEW es, IsSeq(es), NEW evs, Len(evs) \in Nat, NEW x \in Nat, x <= Len(evs),
           Waits(es, evs, x)
    PROVE  Reports(Ok(EventsBody(es)), evs, x, Len(evs)) /\ Starts(Ok(EventsBody(es)))
<1> DEFINE b == EventsBody(es)
           ok == Line("OK", "")
           end == Line("END", "")
<1>1. ok.key = "OK" /\ end.key = "END" /\ Ok(b) = (<<ok>> \o b) \o <<end>>
  BY DEF Line, Ok
<1>2. Body(b) /\ IsSeq(b) /\ Reports(b, evs, x, Len(evs)) /\ Starts(b)
  BY EventsBodyIs, EventsBodyReports DEF Body
<1>3. Starts(Ok(b))
  BY <1>2, OkIs
<1> HIDE DEF b, ok, end
<1>4. /\ IsSeq(<<ok>>) /\ Eventless(<<ok>>)
      /\ IsSeq(<<end>>) /\ Eventless(<<end>>) /\ Starts(<<end>>)
  BY <1>1, SingleIs
<1>5. Reports(<<ok>>, evs, x, x) /\ Reports(<<end>>, evs, Len(evs), Len(evs))
  BY <1>4, NoneReport DEF Eventless
<1>6. Reports(<<ok>> \o b, evs, x, Len(evs)) /\ IsSeq(<<ok>> \o b)
  BY <1>2, <1>4, <1>5, ConcatReports, ConcatSeq
<1>7. Reports((<<ok>> \o b) \o <<end>>, evs, x, Len(evs))
  <2> DEFINE c == <<ok>> \o b
  <2>1. Reports(c, evs, x, Len(evs)) /\ IsSeq(c)
    BY <1>6
  <2> HIDE DEF c
  <2>2. Reports(c \o <<end>>, evs, x, Len(evs))
    BY <1>4, <1>5, <2>1, ConcatReports
  <2> QED
    BY <2>2 DEF c
<1> QED
  BY <1>1, <1>3, <1>7 DEF b

(* The number that a line carries does not matter.                         *)
LEMMA StampedIs ==
    ASSUME NEW ls, IsSeq(ls), NEW no
    PROVE  LET st == Stamped(ls, no) IN
           /\ IsSeq(st) /\ DOMAIN st = DOMAIN ls /\ (st # <<>> => ls # <<>>)
           /\ \A i \in DOMAIN ls : st[i].key = ls[i].key /\ st[i].val = ls[i].val
<1> DEFINE st == Stamped(ls, no)
           U == {[key |-> l.key, val |-> l.val, of |-> no] : l \in {ls[i] : i \in DOMAIN ls}}
<1>1. PICK T : ls \in Seq(T)
  BY DEF IsSeq
<1>2. st \in Seq(U) /\ DOMAIN st = DOMAIN ls /\ (st # <<>> => ls # <<>>)
  BY <1>1 DEF Stamped
<1>3. \A i \in DOMAIN ls : st[i].key = ls[i].key /\ st[i].val = ls[i].val
  BY DEF Stamped
<1> HIDE DEF st, U
<1> QED
  BY <1>2, <1>3 DEF IsSeq, st

LEMMA StampedSame ==
    ASSUME NEW ls, IsSeq(ls), NEW no
    PROVE  LET st == Stamped(ls, no) IN
           /\ IsSeq(st)
           /\ Starts(ls) => Starts(st)
           /\ \A evs, x, y : Reports(ls, evs, x, y) => Reports(st, evs, x, y)
           /\ \A gs : Describing(ls, gs) => Describing(st, gs)
           /\ \A v : Values(ls, v) => Values(st, v)
<1> DEFINE st == Stamped(ls, no)
<1>1. /\ IsSeq(st) /\ DOMAIN st = DOMAIN ls /\ (st # <<>> => ls # <<>>)
      /\ \A i \in DOMAIN ls : st[i].key = ls[i].key /\ st[i].val = ls[i].val
  BY StampedIs
<1> HIDE DEF st
<1>2. st # <<>> => 1 \in DOMAIN st
  <2>1. PICK T : st \in Seq(T)
    BY <1>1 DEF IsSeq
  <2> QED
    BY <2>1
<1>3. Starts(ls) => Starts(st)
  BY <1>1, <1>2 DEF Starts
<1>4. ASSUME NEW evs, NEW x, NEW y, Reports(ls, evs, x, y) PROVE Reports(st, evs, x, y)
  <2>1. ASSUME NEW i \in DOMAIN st PROVE Names(st, i, evs)
    <3>1. Names(ls, i, evs)
      BY <1>1, <1>4 DEF Reports
    <3> QED
      BY <1>1, <2>1, <3>1, Zenon DEF Names
  <2> QED
    BY <1>1, <1>4, <2>1, Zenon DEF Reports
<1>5. ASSUME NEW gs, Describing(ls, gs) PROVE Describing(st, gs)
  <2>1. PICK T : ls \in Seq(T)
    BY DEF IsSeq
  <2>2. SUFFICES ASSUME NEW i \in DOMAIN st, NEW j \in DOMAIN st, i < j, st[i].key = "gpio",
                        \A k \in (i + 1)..j : st[k].key \notin Bounds
                 PROVE  Describes(st[j], Gpio(gs, st[i].val))
    BY DEF Describing
  <2>3. \A k \in (i + 1)..j : ls[k].key \notin Bounds
    <3>1. \A k \in (i + 1)..j : k \in DOMAIN ls
      BY <1>1, <2>1, <2>2
    <3> QED
      BY <1>1, <2>2, <3>1
  <2>4. Describes(ls[j], Gpio(gs, ls[i].val))
    BY <1>1, <1>5, <2>2, <2>3 DEF Describing
  <2> QED
    BY <1>1, <2>2, <2>4, Zenon DEF Describes
<1>6. ASSUME NEW v, Values(ls, v) PROVE Values(st, v)
  BY <1>1, <1>6 DEF Values
<1> QED
  BY <1>1, <1>3, <1>4, <1>5, <1>6 DEF st

LEMMA RespondReports ==
    ASSUME NEW ls, IsSeq(ls), Starts(ls), NEW no, IsSeq(toClient), Respond(ls, no), NEW evs,
           NEW x \in Nat, NEW y \in Nat, NEW z \in Nat, x <= y, y <= z,
           Reports(toClient, evs, x, y), Reports(ls, evs, y, z)
    PROVE  Reports(toClient', evs, x, z)
<1> DEFINE st == Stamped(ls, no)
<1>1. IsSeq(st) /\ Starts(st) /\ Reports(st, evs, y, z)
  BY StampedSame
<1>2. toClient' = toClient \o st
  BY DEF Respond
<1> HIDE DEF st
<1>3. Reports(toClient \o st, evs, x, z)
  BY <1>1, ConcatReports
<1> QED
  BY <1>2, <1>3

LEMMA RespondFirst ==
    ASSUME NEW ls, IsSeq(ls), NEW no, toClient = <<>>, Respond(ls, no)
    PROVE  /\ \A gs : Describing(ls, gs) => Describing(toClient', gs)
           /\ \A v : Values(ls, v) => Values(toClient', v)
<1> DEFINE st == Stamped(ls, no)
<1>1. IsSeq(st)
  BY StampedSame
<1>2. toClient' = toClient \o st
  BY DEF Respond
<1>3. toClient' = st
  <2> HIDE DEF st
  <2>1. PICK T : st \in Seq(T)
    BY <1>1 DEF IsSeq
  <2> QED
    BY <1>2, <2>1
<1> QED
  BY <1>3, StampedSame

-----------------------------------------------------------------------------
(* Events that are raised, wait and are told.                              *)

Extends(evs, more) == Len(evs) <= Len(more) /\ \A n \in 1..Len(evs) : more[n] = evs[n]

LEMMA AppendExtends ==
    ASSUME NEW evs, IsSeq(evs), NEW e
    PROVE  /\ Len(evs) \in Nat /\ DOMAIN evs = 1..Len(evs)
           /\ Len(Append(evs, e)) = Len(evs) + 1
           /\ DOMAIN Append(evs, e) = 1..(Len(evs) + 1)
           /\ Append(evs, e)[Len(evs) + 1] = e
           /\ Extends(evs, Append(evs, e))
<1>1. PICK T : evs \in Seq(T)
  BY DEF IsSeq
<1>2. evs \in Seq(T \cup {e})
  BY <1>1
<1> QED
  BY <1>2 DEF Extends

LEMMA ReportsExtend ==
    ASSUME NEW ls, NEW evs, NEW more, Extends(evs, more), Len(evs) \in Nat,
           NEW x \in Nat, NEW y \in Nat, y <= Len(evs), Reports(ls, evs, x, y)
    PROVE  Reports(ls, more, x, y)
<1>1. \A v : v \in (x + 1)..y => more[v] = evs[v]
  BY DEF Extends
<1>2. ASSUME NEW i \in DOMAIN ls PROVE Names(ls, i, more)
  <2>1. Names(ls, i, evs)
    BY DEF Reports
  <2>2. CASE i + 1 \in DOMAIN ls /\ ls[i + 1].key = "timestamp_ms"
    <3>1. more[ls[i + 1].val] = evs[ls[i + 1].val]
      BY <1>1, <2>2 DEF Reports
    <3> QED
      BY <2>1, <3>1, Zenon DEF Names
  <2>3. CASE ~(i + 1 \in DOMAIN ls /\ ls[i + 1].key = "timestamp_ms")
    BY <2>3, Zenon DEF Names
  <2> QED
    BY <2>2, <2>3
<1> QED
  BY <1>2, Zenon DEF Reports

LEMMA WaitsTail ==
    ASSUME NEW es, IsSeq(es), es # <<>>, NEW evs, NEW x, Waits(es, evs, x)
    PROVE  Waits(Tail(es), evs, x)
<1>1. Suffix(Tail(es), es)
  BY TailSuffix
<1>2. PICK n, m \in Nat : /\ DOMAIN Tail(es) = 1..m /\ DOMAIN es = 1..(n + m)
                          /\ \A i \in 1..m : Tail(es)[i] = es[i + n]
  BY <1>1 DEF Suffix
<1> DEFINE r == Tail(es)
<1> HIDE DEF r
<1>3. DOMAIN r = 1..m /\ \A i \in 1..m : r[i] = es[i + n] /\ i + n \in DOMAIN es
  BY <1>2 DEF r
<1>4. \A i, j \in 1..m : i < j => i + n < j + n
  OBVIOUS
<1>5. Waits(r, evs, x)
  BY <1>3, <1>4 DEF Waits
<1> QED
  BY <1>5 DEF r

LEMMA WaitsMore ==
    ASSUME NEW es, IsSeq(es), NEW evs, IsSeq(evs), NEW e, e.no = Len(evs) + 1,
           NEW x \in Nat, x <= Len(evs), Waits(es, evs, x)
    PROVE  /\ Waits(Append(es, e), Append(evs, e), x)
           /\ Waits(Kept(Append(es, e)), Append(evs, e), x)
<1> DEFINE q == Append(es, e)
           more == Append(evs, e)
           n == Len(es)
           k == Len(evs)
<1>1. PICK T : es \in Seq(T)
  BY DEF IsSeq
<1>2. es \in Seq(T \cup {e})
  BY <1>1
<1>3. /\ n \in Nat /\ DOMAIN es = 1..n /\ DOMAIN q = 1..(n + 1)
      /\ q[n + 1] = e /\ \A i \in 1..n : q[i] = es[i]
  BY <1>2
<1>4. /\ k \in Nat /\ Len(more) = k + 1 /\ more[k + 1] = e /\ \A i \in 1..k : more[i] = evs[i]
  BY AppendExtends DEF Extends
<1>5. IsSeq(q) /\ q # <<>>
  BY AppendSeq
<1>6. e.no = k + 1 /\ x <= k
  OBVIOUS
<1>7. /\ \A i \in 1..n : es[i].no \in (x + 1)..k /\ es[i] = evs[es[i].no]
      /\ \A i, j \in 1..n : i < j => es[i].no < es[j].no
  BY <1>3 DEF Waits
<1> HIDE DEF q, more, n, k
<1>8. ASSUME NEW i \in 1..(n + 1) PROVE q[i].no \in (x + 1)..(k + 1) /\ q[i] = more[q[i].no]
  <2>1. CASE i = n + 1
    BY <1>3, <1>4, <1>6, <2>1
  <2>2. CASE i \in 1..n
    BY <1>3, <1>4, <1>7, <2>2
  <2> QED
    BY <1>3, <2>1, <2>2
<1>9. ASSUME NEW i \in 1..(n + 1), NEW j \in 1..(n + 1), i < j PROVE q[i].no < q[j].no
  <2>1. i \in 1..n
    BY <1>3, <1>9
  <2>2. q[i] = es[i] /\ es[i].no \in (x + 1)..k
    BY <1>3, <1>7, <2>1
  <2>3. CASE j = n + 1
    BY <1>3, <1>4, <1>6, <2>2, <2>3
  <2>4. CASE j \in 1..n
    BY <1>3, <1>7, <1>9, <2>1, <2>4
  <2> QED
    BY <1>3, <2>3, <2>4
<1>10. Waits(q, more, x)
  BY <1>3, <1>4, <1>8, <1>9 DEF Waits
<1>11. Waits(Kept(q), more, x)
  BY <1>5, <1>10, WaitsTail DEF Kept
<1> QED
  BY <1>10, <1>11 DEF q, more

LEMMA NumberedMore ==
    ASSUME NEW evs, IsSeq(evs), Numbered(evs), NEW e, e.no = Len(evs) + 1, e.type \in EventTypes
    PROVE  Numbered(Append(evs, e))
<1> DEFINE more == Append(evs, e)
           k == Len(evs)
<1>1. /\ k \in Nat /\ DOMAIN evs = 1..k /\ DOMAIN more = 1..(k + 1)
      /\ more[k + 1] = e /\ \A i \in 1..k : more[i] = evs[i]
  BY AppendExtends DEF Extends
<1>2. e.no = k + 1
  OBVIOUS
<1> HIDE DEF more, k
<1>3. Numbered(more)
  BY <1>1, <1>2 DEF Numbered
<1> QED
  BY <1>3 DEF more

(* An eventless response tells of nothing.                                 *)
LEMMA RespondEventless ==
    ASSUME NEW ls, Response(ls), Eventless(ls), Starts(ls), NEW no, IsSeq(toClient), Respond(ls, no),
           NEW evs, NEW x \in Nat, NEW y \in Nat, x <= y, Reports(toClient, evs, x, y)
    PROVE  Reports(toClient', evs, x, y)
<1>1. Reports(ls, evs, y, y)
  BY NoneReport DEF Eventless
<1> QED
  BY <1>1, RespondReports DEF Response

-----------------------------------------------------------------------------
(* The daemon's steps keep the events in order and the GPIOs apart.        *)

Under(x, y, evs, ls, es) ==
    /\ x \in Nat /\ y \in Nat /\ x <= y /\ y <= Len(evs)
    /\ Reports(ls, evs, x, y) /\ Waits(es, evs, y)

(* What was under way stays so, what waited may be under way now.          *)
Advances ==
    \A x, y : Under(x, y, raised, toClient, srv.waiting) =>
        \E z : y <= z /\ Under(x, z, raised', toClient', srv'.waiting)

DaemonFaith == GpiosOk /\ Numbered(raised)

LEMMA SameAdvances ==
    ASSUME DaemonInv, UNCHANGED <<raised, toClient>>, srv'.waiting = srv.waiting
    PROVE  Advances
<1>1. ASSUME NEW x, NEW y, Under(x, y, raised, toClient, srv.waiting)
      PROVE  y <= y /\ Under(x, y, raised', toClient', srv'.waiting)
  BY <1>1 DEF Under
<1> QED
  BY <1>1 DEF Advances

LEMMA EventlessAdvances ==
    ASSUME DaemonInv, LinesInv, UNCHANGED raised, srv'.waiting = srv.waiting,
           NEW ls, Response(ls), Eventless(ls), Starts(ls), NEW no, Respond(ls, no)
    PROVE  Advances
<1>1. ASSUME NEW x, NEW y, Under(x, y, raised, toClient, srv.waiting)
      PROVE  y <= y /\ Under(x, y, raised', toClient', srv'.waiting)
  <2>1. Reports(toClient', raised, x, y)
    BY <1>1, RespondEventless DEF Under, LinesInv
  <2> QED
    BY <1>1, <2>1 DEF Under
<1> QED
  BY <1>1 DEF Advances

LEMMA WaitsNothing == ASSUME NEW es, es = <<>>, NEW evs, NEW x PROVE Waits(es, evs, x)
<1>1. DOMAIN es = {}
  OBVIOUS
<1> QED
  BY <1>1, Zenon DEF Waits

LEMMA TellAdvances ==
    ASSUME DaemonInv, LinesInv, UNCHANGED raised, srv'.waiting = <<>>,
           NEW ls, Response(ls), Starts(ls), NEW no, Respond(ls, no),
           \A y \in Nat : y <= Len(raised) /\ Waits(srv.waiting, raised, y) =>
                            Reports(ls, raised, y, Len(raised))
    PROVE  Advances
<1>1. Len(raised) \in Nat
  BY AppendSeq DEF DaemonInv
<1>2. ASSUME NEW x, NEW y, Under(x, y, raised, toClient, srv.waiting)
      PROVE  y <= Len(raised) /\ Under(x, Len(raised), raised', toClient', srv'.waiting)
  <2>1. Reports(ls, raised, y, Len(raised))
    BY <1>2 DEF Under
  <2>2. Reports(toClient', raised, x, Len(raised))
    BY <1>1, <1>2, <2>1, RespondReports DEF Under, LinesInv, Response
  <2>3. Waits(srv'.waiting, raised, Len(raised))
    BY WaitsNothing
  <2>4. x <= Len(raised) /\ x \in Nat /\ y <= Len(raised)
    BY <1>1, <1>2 DEF Under
  <2> QED
    BY <1>1, <2>2, <2>3, <2>4 DEF Under
<1> QED
  BY <1>2 DEF Advances

(* A new event, for all clients.                                           *)
LEMMA Grows ==
    ASSUME DaemonInv, Numbered(raised), NEW e, e.no = Len(raised) + 1, e.type \in EventTypes,
           NEW x, NEW y, Under(x, y, raised, toClient, srv.waiting)
    PROVE  LET evs == Append(raised, e)  es == Append(srv.waiting, e) IN
           /\ IsSeq(es) /\ es # <<>> /\ Len(evs) \in Nat /\ y <= Len(evs)
           /\ Reports(toClient, evs, x, y)
           /\ Waits(es, evs, y) /\ Waits(Kept(es), evs, y)
<1> DEFINE evs == Append(raised, e)
           es == Append(srv.waiting, e)
<1>1. IsSeq(es) /\ es # <<>>
  BY AppendSeq DEF DaemonInv
<1>2. Len(evs) = Len(raised) + 1 /\ Len(raised) \in Nat /\ Extends(raised, evs)
  BY AppendExtends DEF DaemonInv
<1>3. x \in Nat /\ y \in Nat /\ y <= Len(raised)
  BY DEF Under
<1>4. Reports(toClient, evs, x, y)
  <2> HIDE DEF evs
  <2> QED
    BY <1>2, <1>3, ReportsExtend DEF Under
<1>5. Waits(es, evs, y) /\ Waits(Kept(es), evs, y)
  BY <1>3, WaitsMore DEF Under, DaemonInv
<1>6. Len(evs) \in Nat /\ y <= Len(evs)
  <2> HIDE DEF evs
  <2> QED
    BY <1>2, <1>3
<1> QED
  BY <1>1, <1>4, <1>5, <1>6

LEMMA NewEventIs ==
    ASSUME NEW type, NEW gpio
    PROVE  NewEvent(type, gpio).no = Len(raised) + 1 /\ NewEvent(type, gpio).type = type
  BY DEF NewEvent

LEMMA RaiseFaith ==
    ASSUME DaemonInv, LinesInv, DaemonFaith, NEW type \in EventTypes, NEW gpio,
           RaiseEvent(type, gpio)
    PROVE  DaemonFaith' /\ Advances
<1> DEFINE e == NewEvent(type, gpio)
           es == Append(srv.waiting, e)
           evs == Append(raised, e)
           ls == EventsBody(es) \o <<Line("END", "")>>
           Idle == /\ srv.state = "idle"
                   /\ srv' = [srv EXCEPT !.state = "reading", !.waiting = <<>>]
                   /\ Respond(ls, srv.idle)
           Ready == /\ srv.state = "reading"
                    /\ srv' = [srv EXCEPT !.waiting = Kept(es)]
                    /\ UNCHANGED toClient
<1>1. /\ raised' = evs /\ UNCHANGED gpios
      /\ Idle \/ Ready
  BY Zenon DEF RaiseEvent
<1>2. e.no = Len(raised) + 1 /\ e.type \in EventTypes
  BY NewEventIs
<1> HIDE DEF e
<1>3. Numbered(evs)
  BY <1>2, NumberedMore DEF DaemonInv, DaemonFaith
<1>4. DaemonFaith'
  BY <1>1, <1>3 DEF DaemonFaith, GpiosOk
<1>5. ASSUME NEW x, NEW y, Under(x, y, raised, toClient, srv.waiting)
      PROVE  /\ IsSeq(es) /\ es # <<>> /\ Len(evs) \in Nat /\ y <= Len(evs)
             /\ Reports(toClient, evs, x, y)
             /\ Waits(es, evs, y) /\ Waits(Kept(es), evs, y)
  BY <1>2, <1>5, Grows DEF DaemonFaith
<1>6. CASE Ready
  <2>1. srv'.waiting = Kept(es) /\ toClient' = toClient
    BY <1>6 DEF DaemonInv
  <2> HIDE DEF es, evs
  <2>2. ASSUME NEW x, NEW y, Under(x, y, raised, toClient, srv.waiting)
        PROVE  y <= y /\ Under(x, y, raised', toClient', srv'.waiting)
    <3>1. x \in Nat /\ y \in Nat /\ x <= y /\ y <= y
      BY <2>2 DEF Under
    <3>2. y <= Len(evs) /\ Reports(toClient, evs, x, y) /\ Waits(Kept(es), evs, y)
      BY <1>5, <2>2
    <3>3. raised' = evs
      BY <1>1
    <3> QED
      BY <2>1, <3>1, <3>2, <3>3, Zenon DEF Under
  <2>3. Advances
    BY <2>2, Zenon DEF Advances
  <2> QED
    BY <1>4, <2>3
<1>7. CASE Idle
  <2>1. srv'.waiting = <<>> /\ Respond(ls, srv.idle)
    BY <1>7 DEF DaemonInv
  <2>2. IsSeq(es) /\ es # <<>>
    BY AppendSeq DEF DaemonInv
  <2>3. Response(ls)
    BY <2>2, IdleResponse
  <2> HIDE DEF es, evs
  <2>4. ASSUME NEW x, NEW y, Under(x, y, raised, toClient, srv.waiting)
        PROVE  y <= Len(evs) /\ Under(x, Len(evs), raised', toClient', srv'.waiting)
    <3>1. x \in Nat /\ y \in Nat /\ x <= y
      BY <2>4 DEF Under
    <3>2. /\ Len(evs) \in Nat /\ y <= Len(evs)
          /\ Reports(toClient, evs, x, y) /\ Waits(es, evs, y)
      BY <1>5, <2>4
    <3>3. Reports(ls, evs, y, Len(evs)) /\ Starts(ls)
      BY <2>2, <3>1, <3>2, IdleReports
    <3> HIDE DEF ls
    <3>4. Reports(toClient', evs, x, Len(evs))
      BY <2>1, <2>3, <3>1, <3>2, <3>3, RespondReports DEF Response, LinesInv
    <3>5. Waits(srv'.waiting, evs, Len(evs))
      BY <2>1, WaitsNothing
    <3>6. raised' = evs /\ x <= Len(evs) /\ Len(evs) <= Len(evs)
      BY <1>1, <3>1, <3>2
    <3> QED
      BY <3>1, <3>2, <3>4, <3>5, <3>6, Zenon DEF Under
  <2>5. Advances
    BY <2>4, Zenon DEF Advances
  <2> QED
    BY <1>4, <2>5
<1> QED
  BY <1>1, <1>6, <1>7

LEMMA NewValueIs ==
    ASSUME NEW c, NEW gs
    PROVE  NewValue(c, gs) \in DOMAIN lookup_gpio_value
<1>1. DOMAIN lookup_gpio_value = {"ERROR", "INACTIVE", "ACTIVE"}
  BY DEF lookup_gpio_value
<1>2. \A str : parse_gpio_value(str) \in DOMAIN lookup_gpio_value
  BY <1>1, Zenon DEF parse_gpio_value, Spelled
<1> QED
  BY <1>1, <1>2 DEF NewValue

LEMMA SetValueOk ==
    ASSUME GpiosOk, NEW id, NEW v \in DOMAIN lookup_gpio_value,
           gpios' = SetValue(gpios, id, v)
    PROVE  GpiosOk'
<1>1. gpios \in Seq(GpioData)
  BY DEF GpiosOk
<1>2. /\ DOMAIN gpios' = DOMAIN gpios
      /\ \A i \in DOMAIN gpios :
           gpios'[i] = IF gpios[i].id = id THEN [gpios[i] EXCEPT !.value = v] ELSE gpios[i]
  BY DEF SetValue
<1>3. ASSUME NEW g \in GpioData
      PROVE  [g EXCEPT !.value = v] \in GpioData /\ [g EXCEPT !.value = v].id = g.id
  BY DEF GpioData
<1>4. ASSUME NEW i \in DOMAIN gpios PROVE gpios'[i] \in GpioData /\ gpios'[i].id = gpios[i].id
  <2>1. gpios[i] \in GpioData
    BY <1>1
  <2> QED
    BY <1>2, <1>3, <2>1
<1>5. gpios' \in Seq(GpioData)
  <2>1. Len(gpios) \in Nat /\ DOMAIN gpios = 1..Len(gpios)
    BY <1>1
  <2>2. gpios' = [i \in 1..Len(gpios) |-> gpios'[i]]
    BY <2>1 DEF SetValue
  <2>3. \A i \in 1..Len(gpios) : gpios'[i] \in GpioData
    BY <1>4, <2>1
  <2> QED
    BY <2>1, <2>2, <2>3
<1> QED
  BY <1>2, <1>4, <1>5 DEF GpiosOk

LEMMA SetFaith ==
    ASSUME DaemonInv, LinesInv, DaemonFaith, NEW c, NEW no, NEW fails, HandleSet(c, no, fails)
    PROVE  DaemonFaith' /\ Advances
<1> DEFINE sets == SetsLine(c, gpios) /\ fails # "line"
           v == NewValue(c, gpios)
           e == NewEvent(IF v = "ACTIVE" THEN "GPIO_RISING" ELSE "GPIO_FALLING", c.args[1])
           es == Append(srv.waiting, e)
           evs == Append(raised, e)
           blinks == c.name = "gpioblink" /\ sets /\ fails # "timer"
           ls == IF SetterResult(c, sets, blinks) THEN Done ELSE Error
<1>1. /\ IF sets
         THEN /\ gpios' = SetValue(gpios, c.args[1], v)
              /\ raised' = evs
              /\ srv' = [srv EXCEPT !.waiting = Kept(es)]
         ELSE UNCHANGED <<gpios, raised, srv>>
      /\ Respond(ls, no)
  BY Zenon DEF HandleSet
<1>2. e.no = Len(raised) + 1 /\ e.type \in EventTypes /\ v \in DOMAIN lookup_gpio_value
  BY NewEventIs, NewValueIs DEF EventTypes
<1>3. Response(ls) /\ Eventless(ls) /\ Starts(ls)
  <2>1. ls \in {Done, Error}
    OBVIOUS
  <2> HIDE DEF ls
  <2> QED
    BY <2>1, DoneResponse, ErrorResponse, DoneEventless, ErrorIs
<1> HIDE DEF sets, v, e, ls
<1>4. CASE ~sets
  <2>1. UNCHANGED <<gpios, raised, srv>> /\ Respond(ls, no)
    BY <1>1, <1>4
  <2>2. Advances
    BY <1>3, <2>1, EventlessAdvances
  <2> QED
    BY <2>1, <2>2 DEF DaemonFaith, GpiosOk
<1>5. CASE sets
  <2>1. /\ gpios' = SetValue(gpios, c.args[1], v) /\ raised' = evs
        /\ srv' = [srv EXCEPT !.waiting = Kept(es)] /\ Respond(ls, no)
    BY <1>1, <1>5
  <2>2. GpiosOk'
    BY <1>2, <2>1, SetValueOk DEF DaemonFaith
  <2>3. Numbered(evs)
    BY <1>2, NumberedMore DEF DaemonFaith, DaemonInv
  <2>4. srv'.waiting = Kept(es)
    BY <2>1 DEF DaemonInv
  <2>5. ASSUME NEW x, NEW y, Under(x, y, raised, toClient, srv.waiting)
        PROVE  y <= y /\ Under(x, y, raised', toClient', srv'.waiting)
    <3>1. x \in Nat /\ y \in Nat /\ x <= y /\ y <= y
      BY <2>5 DEF Under
    <3>2. y <= Len(evs) /\ Reports(toClient, evs, x, y) /\ Waits(Kept(es), evs, y)
      BY <1>2, <2>5, Grows DEF DaemonFaith
    <3> HIDE DEF es, evs
    <3>3. Reports(toClient', evs, x, y)
      BY <1>3, <2>1, <3>1, <3>2, RespondEventless DEF LinesInv
    <3> QED
      BY <2>1, <2>4, <3>1, <3>2, <3>3, Zenon DEF Under
  <2>6. Advances
    BY <2>5, Zenon DEF Advances
  <2>7. DaemonFaith'
    <3> HIDE DEF evs
    <3>1. Numbered(raised')
      BY <2>1, <2>3
    <3> QED
      BY <2>2, <3>1 DEF DaemonFaith
  <2> QED
    BY <2>6, <2>7
<1> QED
  BY <1>4, <1>5

LEMMA HookFaith ==
    ASSUME DaemonInv, LinesInv, DaemonFaith, NEW c, NEW no, NEW fails, HandleHook(c, no, fails)
    PROVE  DaemonFaith' /\ Advances
<1> DEFINE ls == IF handle_hook_valid(c.args) /\ fails = "nothing" THEN Done ELSE Error
<1>1. Respond(ls, no) /\ UNCHANGED <<gpios, raised, srv>>
  BY Zenon DEF HandleHook
<1>2. Response(ls) /\ Eventless(ls) /\ Starts(ls)
  <2>1. ls \in {Done, Error}
    OBVIOUS
  <2> HIDE DEF ls
  <2> QED
    BY <2>1, DoneResponse, ErrorResponse, DoneEventless, ErrorIs
<1> HIDE DEF ls
<1>3. Advances
  BY <1>1, <1>2, EventlessAdvances
<1> QED
  BY <1>1, <1>3 DEF DaemonFaith, GpiosOk

(* A command that reads: its response and what it says.                    *)
LEMMA ReadResponse ==
    ASSUME DaemonInv, LinesInv, GpiosOk, NEW c, NEW no, NEW fails, c.name \in Readers,
           HandleRead(c, no, fails)
    PROVE  /\ UNCHANGED daemon
           /\ \E ls : /\ Respond(ls, no) /\ Response(ls) /\ Eventless(ls) /\ Starts(ls)
                      /\ c.name \in {"gpiolist", "gpioinfo"} => Describing(ls, gpios)
                      /\ c.name = "gpioget" => Values(ls, Gpio(gpios, c.args[1]).value)
<1>1. (fails = "nothing") \in BOOLEAN
  OBVIOUS
<1>2. gpios \in Seq(GpioData) /\ Unlike(gpios) /\ IsSeq(gpios)
  BY DEF GpiosOk, Unlike, DaemonInv
<1>3. CASE c.name = "gpiolist"
  <2>1. Respond(handle_gpiolist(gpios), no) /\ UNCHANGED daemon
    BY <1>3 DEF HandleRead
  <2>2. /\ Response(handle_gpiolist(gpios)) /\ Describing(handle_gpiolist(gpios), gpios)
        /\ Eventless(handle_gpiolist(gpios)) /\ Starts(handle_gpiolist(gpios))
    BY <1>2, ListResponse, ListDescribes
  <2> QED
    BY <1>3, <2>1, <2>2
<1>4. CASE c.name = "gpioinfo"
  <2> DEFINE ls == handle_gpioinfo(c.args, gpios, fails = "nothing")
  <2>1. Respond(ls, no) /\ UNCHANGED daemon
    BY <1>4 DEF HandleRead
  <2>2. Response(ls) /\ Describing(ls, gpios) /\ Eventless(ls) /\ Starts(ls)
    BY <1>1, <1>2, InfoResponse, InfoDescribes
  <2> HIDE DEF ls
  <2> QED
    BY <1>4, <2>1, <2>2
<1>5. CASE c.name = "gpioget"
  <2> DEFINE ls == handle_gpioget(c.args, gpios)
  <2>1. Respond(ls, no) /\ UNCHANGED daemon
    BY <1>5 DEF HandleRead
  <2>2. /\ Response(ls) /\ Values(ls, Gpio(gpios, c.args[1]).value)
        /\ Eventless(ls) /\ Starts(ls)
    BY <1>2, GetResponse, GetValues
  <2> HIDE DEF ls
  <2> QED
    BY <1>5, <2>1, <2>2
<1>6. CASE c.name = "vcio"
  <2> DEFINE ls == handle_raspberry_vcio(fails = "nothing")
  <2>1. Respond(ls, no) /\ UNCHANGED daemon
    BY <1>6 DEF HandleRead
  <2>2. Response(ls) /\ Eventless(ls) /\ Starts(ls)
    BY <1>1, VcioResponse, VcioEventless
  <2> HIDE DEF ls
  <2> QED
    BY <1>6, <2>1, <2>2
<1> QED
  BY <1>3, <1>4, <1>5, <1>6 DEF Readers

LEMMA ReadFaith ==
    ASSUME DaemonInv, LinesInv, DaemonFaith, NEW c, NEW no, NEW fails, c.name \in Readers,
           HandleRead(c, no, fails)
    PROVE  DaemonFaith' /\ Advances
<1>1. PICK ls : Respond(ls, no) /\ Response(ls) /\ Eventless(ls) /\ Starts(ls)
  BY ReadResponse DEF DaemonFaith
<1>2. UNCHANGED <<gpios, raised, srv>>
  BY ReadResponse DEF DaemonFaith, daemon
<1>3. Advances
  BY <1>1, <1>2, EventlessAdvances
<1> QED
  BY <1>2, <1>3 DEF DaemonFaith, GpiosOk

LEMMA AcceptFaith ==
    ASSUME DaemonInv, LinesInv, DaemonFaith, Accept
    PROVE  DaemonFaith' /\ Advances
<1>1. UNCHANGED <<gpios, raised>> /\ srv'.waiting = srv.waiting
  BY DEF Accept, DaemonInv
<1>2. CASE UNCHANGED toClient
  BY <1>1, <1>2, SameAdvances DEF DaemonFaith, GpiosOk
<1>3. CASE Respond(Ok(<<Line("version", <<1, 2, 3>>)>>), 0)
  <2> DEFINE l == Line("version", <<1, 2, 3>>)
             ls == Ok(<<l>>)
  <2>1. l.key # "END"
    BY DEF Line
  <2>2. Eventless(ls) /\ Starts(ls) /\ Respond(ls, 0)
    BY <1>3, GreetingEventless
  <2> HIDE DEF l
  <2>3. Response(ls)
    BY <2>1, SingleBody, OkResponse
  <2> HIDE DEF ls
  <2>4. Advances
    BY <1>1, <2>2, <2>3, EventlessAdvances
  <2> QED
    BY <1>1, <2>4 DEF DaemonFaith, GpiosOk
<1> QED
  BY <1>2, <1>3 DEF Accept

LEMMA TimeoutFaith ==
    ASSUME DaemonInv, LinesInv, DaemonFaith, ServerTimeout
    PROVE  DaemonFaith' /\ Advances
<1>1. UNCHANGED <<gpios, raised, toClient>> /\ srv'.waiting = srv.waiting
  BY DEF ServerTimeout, DaemonInv
<1> QED
  BY <1>1, SameAdvances DEF DaemonFaith, GpiosOk

LEMMA CommandFaith ==
    ASSUME DaemonInv, LinesInv, DaemonFaith, ServerCommand
    PROVE  DaemonFaith' /\ Advances
<1> DEFINE c == toServer[1].cmd
           no == toServer[1].no
           Refused == /\ srv.state = "idle" /\ c.name # "noidle"
                      /\ srv' = [srv EXCEPT !.state = "reading"]
                      /\ Respond(Error, no)
                      /\ UNCHANGED <<gpios, raised, effects>>
           Idle == /\ srv.state # "idle" /\ c.name = "idle"
                   /\ HandleIdle(no)
                   /\ UNCHANGED <<gpios, raised, effects>>
           Noidle == /\ c.name = "noidle"
                     /\ HandleNoidle(no)
                     /\ UNCHANGED <<gpios, raised, effects>>
           Other == /\ srv.state # "idle"
                    /\ \E fails \in {"nothing", "line", "timer"} :
                         \/ c.name \in Setters /\ HandleSet(c, no, fails)
                         \/ c.name = "hook" /\ HandleHook(c, no, fails)
                         \/ c.name \in Readers /\ HandleRead(c, no, fails)
<1>1. Refused \/ Idle \/ Noidle \/ Other
  BY Zenon DEF ServerCommand
<1>2. Len(raised) \in Nat /\ IsSeq(srv.waiting)
  BY AppendSeq DEF DaemonInv
<1> HIDE DEF c, no
<1>3. CASE Refused
  <2>1. srv'.waiting = srv.waiting /\ UNCHANGED <<gpios, raised>> /\ Respond(Error, no)
    BY <1>3 DEF DaemonInv
  <2>2. Advances
    BY <2>1, ErrorResponse, ErrorIs, EventlessAdvances
  <2> QED
    BY <2>1, <2>2 DEF DaemonFaith, GpiosOk
<1>4. CASE Idle
  <2>1. UNCHANGED <<gpios, raised>>
    BY <1>4
  <2>2. CASE srv.waiting = <<>>
    <3>1. srv'.waiting = srv.waiting /\ UNCHANGED toClient
      BY <1>4, <2>2 DEF HandleIdle, DaemonInv
    <3> QED
      BY <2>1, <3>1, SameAdvances DEF DaemonFaith, GpiosOk
  <2>3. CASE srv.waiting # <<>>
    <3> DEFINE ls == EventsBody(srv.waiting) \o <<Line("END", "")>>
    <3>1. srv'.waiting = <<>> /\ Respond(ls, no)
      BY <1>4, <2>3 DEF HandleIdle, DaemonInv
    <3>2. Response(ls) /\ ls[1].key = "event"
      BY <1>2, <2>3, IdleResponse
    <3>3. Starts(ls)
      BY <3>2 DEF Starts
    <3>4. \A y \in Nat : y <= Len(raised) /\ Waits(srv.waiting, raised, y) =>
                            Reports(ls, raised, y, Len(raised))
      BY <1>2, <2>3, IdleReports
    <3> HIDE DEF ls
    <3>5. Advances
      BY <2>1, <3>1, <3>2, <3>3, <3>4, TellAdvances
    <3> QED
      BY <2>1, <3>5 DEF DaemonFaith, GpiosOk
  <2> QED
    BY <2>2, <2>3
<1>5. CASE Noidle
  <2> DEFINE ls == Ok(EventsBody(srv.waiting))
  <2>1. UNCHANGED <<gpios, raised>> /\ srv'.waiting = <<>> /\ Respond(ls, no)
    BY <1>5 DEF HandleNoidle, DaemonInv
  <2>2. Response(ls)
    BY <1>2, EventsBodyIs, OkResponse
  <2>3. Starts(ls)
    BY <1>2, EventsBodyIs, OkIs DEF Body
  <2>4. \A y \in Nat : y <= Len(raised) /\ Waits(srv.waiting, raised, y) =>
                          Reports(ls, raised, y, Len(raised))
    BY <1>2, NoidleReports
  <2> HIDE DEF ls
  <2>5. Advances
    BY <2>1, <2>2, <2>3, <2>4, TellAdvances
  <2> QED
    BY <2>1, <2>5 DEF DaemonFaith, GpiosOk
<1>6. CASE Other
  <2>1. PICK fails : \/ c.name \in Setters /\ HandleSet(c, no, fails)
                     \/ c.name = "hook" /\ HandleHook(c, no, fails)
                     \/ c.name \in Readers /\ HandleRead(c, no, fails)
    BY <1>6
  <2> QED
    BY <2>1, SetFaith, HookFaith, ReadFaith
<1> QED
  BY <1>1, <1>3, <1>4, <1>5, <1>6

-----------------------------------------------------------------------------
(* The daemon's steps keep FaithInv.                                       *)

ServerAct ==
    \/ Accept \/ ServerCommand \/ ServerTimeout
    \/ \E g \in Ids(gpios) : RaiseEvent("GPIO_RISING", g)
    \/ RaiseEvent("INPUT", 0)

LEMMA ActFaith ==
    ASSUME DaemonInv, LinesInv, DaemonFaith, ServerAct
    PROVE  DaemonInv' /\ DaemonFaith' /\ Advances /\ UNCHANGED <<app, seen>>
<1>1. CASE Accept
  BY <1>1, AcceptIs, AcceptFaith
<1>2. CASE ServerCommand
  BY <1>2, CommandIs, CommandFaith
<1>3. CASE ServerTimeout
  BY <1>3, TimeoutIs, TimeoutFaith
<1>4. ASSUME NEW type \in EventTypes, NEW g, RaiseEvent(type, g)
      PROVE  DaemonInv' /\ DaemonFaith' /\ Advances /\ UNCHANGED <<app, seen>>
  BY <1>4, RaiseIs, RaiseFaith
<1>5. "GPIO_RISING" \in EventTypes /\ "INPUT" \in EventTypes
  BY DEF EventTypes
<1> QED
  BY <1>1, <1>2, <1>3, <1>4, <1>5 DEF ServerAct

LEMMA EventKeeps ==
    ASSUME EventInv, DaemonInv, DaemonInv', Numbered(raised)', Advances, UNCHANGED seen
    PROVE  EventInv'
<1>1. Len(raised) \in Nat /\ Len(raised') \in Nat
  BY AppendExtends DEF DaemonInv
<1>2. PICK x, y \in 0..Len(raised) :
        /\ x <= y /\ ToldUpTo(seen.events, x)
        /\ Reports(toClient, raised, x, y) /\ Waits(srv.waiting, raised, y)
  BY DEF EventInv
<1>3. Under(x, y, raised, toClient, srv.waiting)
  BY <1>1, <1>2 DEF Under
<1>4. PICK z : y <= z /\ Under(x, z, raised', toClient', srv'.waiting)
  BY <1>3 DEF Advances
<1>5. /\ x \in 0..Len(raised') /\ z \in 0..Len(raised') /\ x <= z
      /\ Reports(toClient', raised', x, z) /\ Waits(srv'.waiting, raised', z)
  BY <1>1, <1>4 DEF Under
<1>6. ToldUpTo(seen'.events, x) /\ IsSeq(seen'.events)
  BY <1>2 DEF EventInv
<1>7. \E u, w \in 0..Len(raised') :
        /\ u <= w /\ ToldUpTo(seen'.events, u)
        /\ Reports(toClient', raised', u, w) /\ Waits(srv'.waiting, raised', w)
  BY <1>5, <1>6
<1> QED
  BY <1>6, <1>7 DEF EventInv

(* While the caller reads a response nothing but events happens.           *)
LEMMA ServedQuiet ==
    ASSUME DaemonInv, Dead \/ Served, ServerAct
    PROVE  UNCHANGED <<gpios, toClient, toServer>> /\ Extends(raised, raised')
<1>1. srv.state \in {"reading", "closed"} /\ (srv.state = "reading" => toServer = <<>>)
  BY DEF Dead, Served
<1>2. ~Accept /\ ~ServerCommand
  BY <1>1 DEF Accept, ServerCommand
<1>3. CASE ServerTimeout
  <2>1. UNCHANGED <<gpios, toClient, toServer, raised>>
    BY <1>3 DEF ServerTimeout
  <2>2. Len(raised) \in Nat
    BY AppendExtends DEF DaemonInv
  <2> QED
    BY <2>1, <2>2 DEF Extends
<1>4. ASSUME NEW type, NEW g, RaiseEvent(type, g)
      PROVE  UNCHANGED <<gpios, toClient, toServer>> /\ Extends(raised, raised')
  <2>1. /\ UNCHANGED <<gpios, toServer, toClient>>
        /\ raised' = Append(raised, NewEvent(type, g))
    BY <1>1, <1>4 DEF RaiseEvent
  <2> QED
    BY <2>1, AppendExtends DEF DaemonInv
<1> QED
  BY <1>2, <1>3, <1>4 DEF ServerAct

LEMMA ElemStays ==
    ASSUME Invs, EventInv, ElemInv, ServerAct, UNCHANGED <<app, seen>>, DaemonInv'
    PROVE  ElemInv'
<1>1. CASE app.crossed \/ seen.elem = NoElem
  BY <1>1 DEF ElemInv
<1>2. CASE ~app.crossed /\ seen.elem # NoElem
  <2>1. app.pc \in {"body", "ending"} /\ Returned
    BY <1>2 DEF ElemInv
  <2>2. Dead \/ Served
    BY <1>2, <2>1 DEF Invs, PhaseInv, Phase, Reading
  <2>3. UNCHANGED gpios /\ Extends(raised, raised')
    BY <2>2, ServedQuiet DEF Invs
  <2>4. /\ DOMAIN raised = 1..Len(raised) /\ DOMAIN raised' = 1..Len(raised')
        /\ Len(raised) \in Nat /\ Len(raised') \in Nat
    BY AppendExtends DEF DaemonInv, Invs
  <2>5. \A n \in DOMAIN raised : n \in DOMAIN raised' /\ raised'[n] = raised[n]
    BY <2>3, <2>4 DEF Extends
  <2>6. Returned'
    <3>1. CASE app.cmd.name \in {"gpiolist", "gpioinfo"}
      BY <2>1, <2>3, <3>1 DEF Returned
    <3>2. CASE app.cmd.name = "gpioget"
      BY <2>1, <2>3, <3>2 DEF Returned
    <3>3. CASE app.cmd.name \in {"idle", "noidle"}
      BY <2>1, <2>5, <3>3 DEF Returned
    <3>4. CASE app.cmd.name \notin {"gpiolist", "gpioinfo", "gpioget", "idle", "noidle"}
      BY <3>4 DEF Returned
    <3> QED
      BY <3>1, <3>2, <3>3, <3>4
  <2> QED
    BY <2>1, <2>6 DEF ElemInv
<1> QED
  BY <1>1, <1>2, Zenon

(* The command of a caller who reads is handled.                           *)
LEMMA SendingList ==
    ASSUME Invs, GpiosOk, ListInv, Sending, ServerAct, UNCHANGED app,
           app.pc = "sent", ~app.crossed
    PROVE  ListInv'
<1> DEFINE Reads == {"gpiolist", "gpioinfo", "gpioget"}
<1>0. srv.state = "reading" /\ toClient = <<>> /\ toServer[1].cmd.name = app.cmd.name
  BY WordedName DEF Sending, Invs, CallerInv
<1>1. srv.state = "reading" /\ toClient = <<>> /\ toServer[1].cmd.name = app.cmd.name
      /\ toServer # <<>>
  <2>1. Len(toServer) = 1 /\ Len(<<>>) = 0
    BY DEF Sending
  <2> QED
    BY <1>0, <2>1
<1>2. CASE app.cmd.name \notin Reads
  BY <1>2 DEF ListInv
<1>3. CASE app.cmd.name \in Reads /\ ServerCommand
  <2>1. toServer' = <<>>
    BY <1>3 DEF ServerCommand
  <2> DEFINE c == toServer[1].cmd
             no == toServer[1].no
  <2>2. c.name \in Readers /\ c.name \notin Setters /\ c.name \notin {"idle", "noidle", "hook"}
    BY <1>1, <1>3 DEF Readers, Setters
  <2>3. PICK fails : HandleRead(c, no, fails)
    BY <1>1, <1>3, <2>2 DEF ServerCommand
  <2>4. app.cmd.name = "gpioget" => c = app.cmd
    BY <1>1 DEF ListInv
  <2>5. c.name = app.cmd.name
    BY <1>1
  <2> HIDE DEF c, no
  <2>6. PICK ls : /\ Respond(ls, no) /\ Response(ls)
                  /\ c.name \in {"gpiolist", "gpioinfo"} => Describing(ls, gpios)
                  /\ c.name = "gpioget" => Values(ls, Gpio(gpios, c.args[1]).value)
    BY <2>2, <2>3, ReadResponse DEF Invs
  <2>7. gpios' = gpios
    BY <2>2, <2>3, ReadResponse DEF Invs, daemon
  <2>8. /\ Describing(ls, gpios) => Describing(toClient', gpios)
        /\ \A v : Values(ls, v) => Values(toClient', v)
    BY <1>1, <2>6, RespondFirst DEF Response
  <2>9. /\ app.cmd.name \in {"gpiolist", "gpioinfo"} => Describing(toClient', gpios)
        /\ app.cmd.name = "gpioget" => Values(toClient', Gpio(gpios, app.cmd.args[1]).value)
    BY <2>4, <2>5, <2>6, <2>8
  <2> QED
    BY <2>1, <2>7, <2>9 DEF ListInv
<1>4. CASE ~ServerCommand
  <2>1. UNCHANGED <<gpios, toClient, toServer>>
    BY <1>1, <1>4 DEF ServerAct, Accept, ServerTimeout, RaiseEvent
  <2> QED
    BY <2>1 DEF ListInv
<1> QED
  BY <1>2, <1>3, <1>4

LEMMA ListStays ==
    ASSUME Invs, GpiosOk, ListInv, ServerAct, UNCHANGED app
    PROVE  ListInv'
<1>1. CASE app.crossed \/ app.pc \notin {"sent", "body"}
  BY <1>1 DEF ListInv
<1>2. CASE ~app.crossed /\ app.pc = "body"
  <2>1. Dead \/ Served
    BY <1>2 DEF Invs, PhaseInv, Phase, Reading
  <2>2. UNCHANGED <<gpios, toClient, toServer>>
    BY <2>1, ServedQuiet DEF Invs
  <2> QED
    BY <2>2 DEF ListInv
<1>3. CASE ~app.crossed /\ app.pc = "sent"
  <2>1. Dead \/ Sending \/ Answered \/ Leaving
    BY <1>3 DEF Invs, PhaseInv, Phase
  <2>2. CASE Dead \/ Answered
    <3>1. Dead \/ Served
      BY <2>2 DEF Answered
    <3>2. UNCHANGED <<gpios, toClient, toServer>>
      BY <3>1, ServedQuiet DEF Invs
    <3> QED
      BY <3>2 DEF ListInv
  <2>3. CASE Sending
    BY <1>3, <2>3, SendingList
  <2>4. CASE Leaving
    <3>1. app.cmd.name = "noidle"
      BY <2>4 DEF Leaving
    <3> QED
      BY <3>1 DEF ListInv
  <2> QED
    BY <2>1, <2>2, <2>3, <2>4
<1> QED
  BY <1>1, <1>2, <1>3 DEF Invs, CallerInv

LEMMA ServerKeeps == ASSUME Invs, FaithInv, ServerAct PROVE FaithInv'
<1>1. DaemonInv /\ LinesInv /\ DaemonFaith
  BY DEF Invs, FaithInv, EventInv, DaemonFaith
<1>2. DaemonInv' /\ DaemonFaith' /\ Advances /\ UNCHANGED <<app, seen>>
  BY <1>1, ActFaith
<1>3. EventInv'
  BY <1>1, <1>2, EventKeeps DEF FaithInv, DaemonFaith
<1>4. ListInv' /\ ElemInv'
  BY <1>2, ListStays, ElemStays DEF FaithInv
<1> QED
  BY <1>2, <1>3, <1>4 DEF FaithInv, DaemonFaith

-----------------------------------------------------------------------------
(* The caller's steps, except the reading of an element.                   *)

LEMMA CallerFaith ==
    ASSUME Invs, FaithInv, UNCHANGED <<gpios, raised>>, Suffix(toClient', toClient),
           srv'.waiting \in {srv.waiting, <<>>}, seen'.elem = NoElem,
           seen'.events \in {seen.events, <<>>}, ListInv'
    PROVE  FaithInv'
<1>1. PICK x, y \in 0..Len(raised) :
        /\ x <= y /\ ToldUpTo(seen.events, x)
        /\ Reports(toClient, raised, x, y) /\ Waits(srv.waiting, raised, y)
  BY DEF FaithInv, EventInv
<1>2. Reports(toClient', raised, x, y)
  BY <1>1, SuffixReports
<1>3. Waits(srv'.waiting, raised, y)
  BY <1>1, WaitsNothing
<1>4. IsSeq(seen'.events) /\ ToldUpTo(seen'.events, x)
  <2>1. CASE seen'.events = seen.events
    BY <1>1, <2>1 DEF FaithInv, EventInv
  <2>2. CASE seen'.events = <<>>
    <3>1. DOMAIN seen'.events = {}
      BY <2>2
    <3> QED
      BY <2>2, <3>1, EmptyIs, Zenon DEF ToldUpTo
  <2> QED
    BY <2>1, <2>2
<1>5. EventInv'
  <2>1. \E u, w \in 0..Len(raised') :
          /\ u <= w /\ ToldUpTo(seen'.events, u)
          /\ Reports(toClient', raised', u, w) /\ Waits(srv'.waiting, raised', w)
    BY <1>1, <1>2, <1>3, <1>4
  <2>2. Numbered(raised')
    BY DEF FaithInv, EventInv
  <2> QED
    BY <1>4, <2>1, <2>2 DEF EventInv
<1>6. GpiosOk' /\ ElemInv'
  BY DEF FaithInv, GpiosOk, ElemInv
<1> QED
  BY <1>5, <1>6 DEF FaithInv

LEMMA ReturnIs ==
    ASSUME CallerInv, NEW ok
    PROVE  Return(ok).pc \in {"ready", "failed", "exit"} /\ DOMAIN Return(ok) = DOMAIN app
           /\ Return(ok).cmd = app.cmd
  BY DEF Return, CallerInv

LEMMA NotReading == ASSUME app'.pc \notin {"sent", "body"} PROVE ListInv'
  BY DEF ListInv

LEMMA ConnectFaith == ASSUME Invs, FaithInv, Connect PROVE FaithInv'
<1>1. /\ UNCHANGED <<gpios, raised, seen>> /\ toClient' = <<>>
      /\ app.pc = "start"
  BY DEF Connect
<1>2. PICK c : \/ /\ srv' = [state |-> "pending", waiting |-> <<>>, idle |-> 0]
                  /\ app' = [app EXCEPT !.pc = "handshake", !.cmd = c, !.conns = @ + 1]
               \/ /\ app' = [Return(FALSE) EXCEPT !.conns = @ + 1]
                  /\ UNCHANGED srv
               \/ app' = Return(FALSE) /\ UNCHANGED srv
  BY DEF Connect
<1>3. /\ srv'.waiting \in {srv.waiting, <<>>}
      /\ app'.pc \in {"handshake", "ready", "failed", "exit"}
  <2>1. Return(FALSE).pc \in {"ready", "failed", "exit"} /\ DOMAIN Return(FALSE) = DOMAIN app
    BY ReturnIs DEF Invs
  <2>2. CASE /\ srv' = [state |-> "pending", waiting |-> <<>>, idle |-> 0]
             /\ app' = [app EXCEPT !.pc = "handshake", !.cmd = c, !.conns = @ + 1]
    BY <2>2 DEF Invs, CallerInv
  <2>3. CASE app' = [Return(FALSE) EXCEPT !.conns = @ + 1] /\ UNCHANGED srv
    <3> DEFINE r == Return(FALSE)
    <3> HIDE DEF r
    <3>1. app' = [r EXCEPT !.conns = @ + 1] /\ UNCHANGED srv
      BY <2>3 DEF r
    <3>2. r.pc \in {"ready", "failed", "exit"} /\ "pc" \in DOMAIN r
      BY <2>1 DEF r, Invs, CallerInv
    <3>3. app'.pc = r.pc
      BY <3>1, <3>2
    <3> QED
      BY <3>1, <3>2, <3>3
  <2>4. CASE app' = Return(FALSE) /\ UNCHANGED srv
    BY <2>1, <2>4
  <2> QED
    BY <1>2, <2>2, <2>3, <2>4
<1>4. seen'.elem = NoElem /\ seen'.events = seen.events
  BY <1>1 DEF FaithInv, ElemInv
<1>5. Suffix(toClient', toClient)
  BY <1>1, SeqSuffix DEF Invs, LinesInv
<1>6. ListInv'
  BY <1>3, NotReading
<1> QED
  BY <1>1, <1>3, <1>4, <1>5, <1>6, CallerFaith

LEMMA HandshakeFaith == ASSUME Invs, FaithInv, Handshake PROVE FaithInv'
<1>1. /\ UNCHANGED <<gpios, raised, srv, seen>> /\ app.pc = "handshake"
      /\ toClient' \in {toClient, AfterEnd(toClient)}
  BY DEF Handshake, daemon
<1>2. app'.pc \in {"ready", "failed", "exit"}
  BY ReturnIs DEF Handshake, Invs, CallerInv
<1>3. seen'.elem = NoElem /\ seen'.events = seen.events
  BY <1>1 DEF FaithInv, ElemInv
<1>4. Suffix(toClient', toClient)
  BY <1>1, SeqSuffix, AfterEndSuffix DEF Invs, LinesInv
<1>5. ListInv'
  BY <1>2, NotReading
<1> QED
  BY <1>1, <1>3, <1>4, <1>5, CallerFaith

LEMMA StatusTimeoutFaith == ASSUME Invs, FaithInv, StatusTimeout PROVE FaithInv'
<1>1. UNCHANGED <<gpios, raised, srv, toClient>> /\ app.pc = "sent"
  BY DEF StatusTimeout, daemon
<1>2. app'.pc \in {"ready", "failed", "exit"}
  BY ReturnIs DEF StatusTimeout, Invs
<1>3. seen'.elem = NoElem /\ seen'.events = seen.events
  BY <1>1 DEF FaithInv, ElemInv, StatusTimeout, Told, Invs, CallerInv
<1>4. Suffix(toClient', toClient)
  BY <1>1, SeqSuffix DEF Invs, LinesInv
<1>5. ListInv'
  BY <1>2, NotReading
<1> QED
  BY <1>1, <1>3, <1>4, <1>5, CallerFaith

LEMMA StatusErrorFaith == ASSUME Invs, FaithInv, StatusError PROVE FaithInv'
<1>1. /\ UNCHANGED <<gpios, raised, srv>> /\ app.pc = "sent"
      /\ toClient # <<>> /\ toClient' = Tail(toClient)
  BY DEF StatusError, daemon
<1>2. app'.pc \in {"ready", "failed", "exit"}
  BY ReturnIs DEF StatusError, Invs, CallerInv
<1>3. seen'.elem = NoElem /\ seen'.events = seen.events
  BY <1>1 DEF FaithInv, ElemInv, StatusError, Told, Invs, CallerInv
<1>4. Suffix(toClient', toClient)
  BY <1>1, TailSuffix DEF Invs, LinesInv
<1>5. ListInv'
  BY <1>2, NotReading
<1> QED
  BY <1>1, <1>3, <1>4, <1>5, CallerFaith

(* What is left of a response says no more than all of it.                 *)
LEMMA SuffixValues ==
    ASSUME NEW r, NEW ls, NEW v, Suffix(r, ls), Values(ls, v)
    PROVE  Values(r, v)
<1>1. PICK n, m \in Nat : /\ DOMAIN r = 1..m /\ DOMAIN ls = 1..(n + m)
                          /\ \A i \in 1..m : r[i] = ls[i + n]
  BY DEF Suffix
<1>2. \A i \in 1..m : i + n \in DOMAIN ls
  BY <1>1
<1> QED
  BY <1>1, <1>2 DEF Values

LEMMA SuffixList ==
    ASSUME ListInv, Suffix(toClient', toClient), UNCHANGED <<gpios, toServer>>,
           app.pc \in {"sent", "body"}, app'.crossed = app.crossed, app'.cmd = app.cmd
    PROVE  ListInv'
<1>1. CASE app.crossed
  BY <1>1 DEF ListInv
<1>2. CASE ~app.crossed
  <2>1. /\ Describing(toClient, gpios) => Describing(toClient', gpios)
        /\ \A v : Values(toClient, v) => Values(toClient', v)
    BY SuffixDescribing, SuffixValues
  <2> QED
    BY <1>2, <2>1 DEF ListInv
<1> QED
  BY <1>1, <1>2

LEMMA StatusOkFaith == ASSUME Invs, FaithInv, StatusOk PROVE FaithInv'
<1>1. /\ UNCHANGED <<gpios, raised, srv, toServer>> /\ app.pc = "sent"
      /\ toClient # <<>> /\ toClient' \in {Tail(toClient), AfterEnd(Tail(toClient))}
  BY DEF StatusOk, daemon
<1>2. \/ app'.pc \in {"ready", "failed", "exit"}
      \/ app' = [app EXCEPT !.pc = "body"]
  BY ReturnIs DEF StatusOk, Invs
<1>3. seen'.elem = NoElem /\ seen'.events = seen.events
  BY <1>1 DEF FaithInv, ElemInv, StatusOk, Told, Invs, CallerInv
<1>4. Suffix(toClient', toClient)
  <2>1. IsSeq(toClient) /\ Suffix(Tail(toClient), toClient)
    BY <1>1, TailSuffix DEF Invs, LinesInv
  <2>2. IsSeq(Tail(toClient))
    BY <1>1, <2>1, TailSeq
  <2>3. Suffix(AfterEnd(Tail(toClient)), toClient)
    BY <2>1, <2>2, AfterEndSuffix, SuffixSuffix
  <2> QED
    BY <1>1, <2>1, <2>3
<1>5. ListInv'
  <2>1. CASE app'.pc \in {"ready", "failed", "exit"}
    BY <2>1, NotReading
  <2>2. CASE app' = [app EXCEPT !.pc = "body"]
    <3>1. app'.crossed = app.crossed /\ app'.cmd = app.cmd
      BY <2>2 DEF Invs, CallerInv
    <3> QED
      BY <1>1, <1>4, <3>1, SuffixList DEF FaithInv
  <2> QED
    BY <1>2, <2>1, <2>2
<1> QED
  BY <1>1, <1>3, <1>4, <1>5, CallerFaith

LEMMA ResponseEndFaith == ASSUME Invs, FaithInv, ResponseEnd PROVE FaithInv'
<1>1. /\ UNCHANGED <<gpios, raised, srv>>
      /\ toClient' \in {toClient, AfterEnd(toClient)}
  BY DEF ResponseEnd, daemon
<1>2. app'.pc \in {"ready", "failed", "exit"}
  BY ReturnIs DEF ResponseEnd, Invs
<1>3. seen'.elem = NoElem /\ seen'.events = seen.events
  BY DEF ResponseEnd, Invs, CallerInv
<1>4. Suffix(toClient', toClient)
  BY <1>1, SeqSuffix, AfterEndSuffix DEF Invs, LinesInv
<1>5. ListInv'
  BY <1>2, NotReading
<1> QED
  BY <1>1, <1>3, <1>4, <1>5, CallerFaith

LEMMA WaitIdleFaith == ASSUME Invs, FaithInv, WaitIdle PROVE FaithInv'
<1>1. /\ UNCHANGED <<gpios, raised, srv, toClient, seen>> /\ app.pc = "idle"
      /\ app'.cmd.name = "idle"
  BY DEF WaitIdle, daemon, Invs, ProgramInv, CallerInv
<1>2. seen'.elem = NoElem /\ seen'.events = seen.events
  BY <1>1 DEF FaithInv, ElemInv
<1>3. Suffix(toClient', toClient)
  BY <1>1, SeqSuffix DEF Invs, LinesInv
<1>4. ListInv'
  BY <1>1 DEF ListInv
<1> QED
  BY <1>1, <1>2, <1>3, <1>4, CallerFaith

LEMMA WaitIdleTimeoutFaith == ASSUME Invs, FaithInv, WaitIdleTimeout PROVE FaithInv'
<1>1. UNCHANGED <<gpios, raised, srv, toClient, seen>> /\ app.pc = "idle"
  BY DEF WaitIdleTimeout, daemon
<1>2. app'.pc \in {"quiet", "ready", "failed", "exit"}
  BY ReturnIs DEF WaitIdleTimeout, Invs, CallerInv
<1>3. seen'.elem = NoElem /\ seen'.events = seen.events
  BY <1>1 DEF FaithInv, ElemInv
<1>4. Suffix(toClient', toClient)
  BY <1>1, SeqSuffix DEF Invs, LinesInv
<1>5. ListInv'
  BY <1>2, NotReading
<1> QED
  BY <1>1, <1>3, <1>4, <1>5, CallerFaith

LEMMA QuietEndFaith == ASSUME Invs, FaithInv, QuietEnd PROVE FaithInv'
<1>1. /\ UNCHANGED <<gpios, raised, srv, seen>> /\ app.pc = "quiet"
      /\ toClient' = AfterEnd(toClient) /\ app'.pc = "leaving"
  BY DEF QuietEnd, daemon, Invs, CallerInv
<1>2. seen'.elem = NoElem /\ seen'.events = seen.events
  BY <1>1 DEF FaithInv, ElemInv
<1>3. Suffix(toClient', toClient)
  BY <1>1, AfterEndSuffix DEF Invs, LinesInv
<1>4. ListInv'
  BY <1>1, NotReading
<1> QED
  BY <1>1, <1>2, <1>3, <1>4, CallerFaith

LEMMA ClearErrorFaith == ASSUME Invs, FaithInv, ClearError PROVE FaithInv'
<1>1. /\ UNCHANGED <<gpios, raised, srv, seen>> /\ app.pc = "failed"
      /\ toClient' = AfterEnd(toClient) /\ app'.pc = "ready"
  BY DEF ClearError, daemon, Invs, CallerInv
<1>2. seen'.elem = NoElem /\ seen'.events = seen.events
  BY <1>1 DEF FaithInv, ElemInv
<1>3. Suffix(toClient', toClient)
  BY <1>1, AfterEndSuffix DEF Invs, LinesInv
<1>4. ListInv'
  BY <1>1, NotReading
<1> QED
  BY <1>1, <1>2, <1>3, <1>4, CallerFaith

LEMMA FreeFaith == ASSUME Invs, FaithInv, Free PROVE FaithInv'
<1>1. /\ UNCHANGED <<gpios, raised>> /\ app.pc \in {"ready", "failed", "exit"}
      /\ toClient' = <<>> /\ srv'.waiting = <<>> /\ seen' \in {seen, Nothing}
  BY DEF Free, Invs, DaemonInv
<1>2. app'.pc \in {"start", "ready", "failed", "exit"}
  BY <1>1 DEF Free, Invs, CallerInv
<1>3. seen'.elem = NoElem /\ seen'.events \in {seen.events, <<>>}
  BY <1>1 DEF FaithInv, ElemInv, Nothing
<1>4. Suffix(toClient', toClient)
  BY <1>1, SeqSuffix DEF Invs, LinesInv
<1>5. ListInv'
  BY <1>2, NotReading
<1> QED
  BY <1>1, <1>3, <1>4, <1>5, CallerFaith

LEMMA LeaveIdleFaith == ASSUME Invs, FaithInv, LeaveIdle PROVE FaithInv'
<1>1. UNCHANGED <<gpios, raised, srv, toClient, seen>> /\ app.pc = "leaving"
  BY DEF LeaveIdle, SendLine, daemon
<1>2. app'.pc \in {"ready", "failed", "exit"} \/ app'.cmd.name = "noidle"
  <2> DEFINE c == [name |-> "noidle", args |-> <<>>]
  <2>1. app' = Return(FALSE) \/ app' = [app EXCEPT !.pc = "sent", !.cmd = c, !.no = @ + 1]
    BY DEF LeaveIdle, SendLine
  <2>2. c.name = "noidle"
    OBVIOUS
  <2> HIDE DEF c
  <2> QED
    BY <2>1, <2>2, ReturnIs DEF Invs, CallerInv
<1>3. seen'.elem = NoElem /\ seen'.events = seen.events
  BY <1>1 DEF FaithInv, ElemInv
<1>4. Suffix(toClient', toClient)
  BY <1>1, SeqSuffix DEF Invs, LinesInv
<1>5. ListInv'
  BY <1>2, NotReading DEF ListInv
<1> QED
  BY <1>1, <1>3, <1>4, <1>5, CallerFaith

LEMMA CallFaith == ASSUME Invs, FaithInv, Call PROVE FaithInv'
<1>1. app.pc = "ready" /\ UNCHANGED <<gpios, raised, srv, toClient, seen>>
  BY DEF Call, SendLine, daemon
<1>2. ~app.crossed => toClient = <<>> /\ (Served \/ Dead)
  BY <1>1 DEF Invs, PhaseInv, Phase
<1>3. ASSUME app' = Return(FALSE) PROVE ListInv'
  <2>1. app'.pc \in {"ready", "failed", "exit"}
    BY <1>3, ReturnIs DEF Invs
  <2> QED
    BY <2>1, NotReading
<1>4. ASSUME NEW c \in IF Session THEN Commands ELSE {app.cmd},
             SendLine(c, IF c.name = "idle" THEN "idle" ELSE "sent")
      PROVE  ListInv'
  <2> DEFINE next == IF c.name = "idle" THEN "idle" ELSE "sent"
             m == [no |-> app.no + 1, cmd |-> Worded(c)]
             Sent == /\ toServer' = Append(toServer, m) /\ srv.state # "closed"
                     /\ app' = [app EXCEPT !.pc = next, !.cmd = c, !.no = @ + 1]
             Unsent == app' = IF c.name = "idle" THEN [app EXCEPT !.pc = next, !.cmd = c]
                              ELSE Return(FALSE)
  <2>1. Sent \/ Unsent
    BY <1>4 DEF SendLine
  <2>2. c.name = "gpioget" => m.cmd = c
    BY DEF Worded
  <2>3. next \in {"idle", "sent"} /\ (next = "idle" <=> c.name = "idle")
    OBVIOUS
  <2> HIDE DEF m, next
  <2>4. CASE Unsent
    <3>1. app'.pc \in {"idle", "ready", "failed", "exit"}
      BY <2>3, <2>4, ReturnIs DEF Invs, CallerInv
    <3> QED
      BY <3>1, NotReading
  <2>5. CASE Sent
    <3>1. app'.cmd = c /\ app'.crossed = app.crossed
      BY <2>5 DEF Invs, CallerInv
    <3>2. CASE app.crossed
      BY <3>1, <3>2 DEF ListInv
    <3>3. CASE ~app.crossed
      <4>1. toServer = <<>> /\ toClient' = <<>>
        BY <1>1, <1>2, <2>5, <3>3 DEF Served, Dead
      <4>2. toServer'[1] = m
        BY <2>5, <4>1
      <4>3. DOMAIN toClient' = {}
        BY <4>1
      <4>4. Describing(toClient', gpios') /\ \A v : Values(toClient', v)
        BY <4>3 DEF Describing, Values
      <4> QED
        BY <2>2, <3>1, <4>2, <4>4 DEF ListInv
    <3> QED
      BY <3>2, <3>3
  <2> QED
    BY <2>1, <2>4, <2>5
<1>5. ListInv'
  BY <1>3, <1>4 DEF Call
<1>6. seen'.elem = NoElem /\ seen'.events = seen.events
  BY <1>1 DEF FaithInv, ElemInv
<1>7. Suffix(toClient', toClient)
  BY <1>1, SeqSuffix DEF Invs, LinesInv
<1> QED
  BY <1>1, <1>5, <1>6, <1>7, CallerFaith

-----------------------------------------------------------------------------
(* The element that is read.                                               *)

LEMMA ReceivedIs ==
    ASSUME NEW name, NEW lines, IsSeq(lines)
    PROVE  LET fields == Fields(name, lines)
               r == Received(name, lines) IN
           /\ ~r.ok => r.elem = NoElem
           /\ r.ok =>
                /\ \A i \in DOMAIN fields : i \in DOMAIN lines /\ Fits(name, lines[i], fields[i])
                /\ r.rest = SubSeq(lines, Len(fields) + 1, Len(lines))
                /\ DOMAIN r.elem = {fields[i] : i \in DOMAIN fields}
                /\ \A f \in DOMAIN r.elem : \E i \in DOMAIN fields :
                     /\ fields[i] = f
                     /\ r.elem[f] = IF name = "vcio" THEN lines[i].val
                                    ELSE Decoded(f, lines[i].val)
<1> DEFINE fields == Fields(name, lines)
           bad == {i \in DOMAIN fields : i > Len(lines) \/ ~Fits(name, lines[i], fields[i])}
           first == CHOOSE i \in bad : \A j \in bad : i <= j
           used == IF bad = {} THEN Len(fields)
                   ELSE IF first > Len(lines) THEN Len(lines) ELSE first
           At(f) == CHOOSE i \in DOMAIN fields : fields[i] = f
           elem == [f \in {fields[i] : i \in DOMAIN fields} |->
                      IF name = "vcio" THEN lines[At(f)].val ELSE Decoded(f, lines[At(f)].val)]
           r == Received(name, lines)
<1>1. r = [ok |-> bad = {}, rest |-> SubSeq(lines, used + 1, Len(lines)),
           elem |-> IF bad # {} THEN NoElem ELSE elem]
  BY Zenon DEF Received
<1>2. PICK U : fields \in Seq(U)
  BY FieldsSeq DEF IsSeq
<1>3. PICK T : lines \in Seq(T)
  BY DEF IsSeq
<1>4. ASSUME bad = {}, NEW i \in DOMAIN fields
      PROVE  i \in DOMAIN lines /\ Fits(name, lines[i], fields[i])
  <2>1. ~(i > Len(lines)) /\ Fits(name, lines[i], fields[i])
    BY <1>4
  <2> HIDE DEF fields, bad
  <2> QED
    BY <1>2, <1>3, <2>1
<1>5. ASSUME NEW f \in {fields[i] : i \in DOMAIN fields}
      PROVE  At(f) \in DOMAIN fields /\ fields[At(f)] = f
  <2> HIDE DEF fields
  <2> QED
    BY <1>5
<1> HIDE DEF bad, fields, used, r
<1>6. /\ r.ok = (bad = {})
      /\ r.rest = SubSeq(lines, used + 1, Len(lines))
      /\ r.elem = IF bad # {} THEN NoElem ELSE elem
  BY <1>1
<1>7. ~r.ok => r.elem = NoElem
  BY <1>6
<1>8. ASSUME r.ok
      PROVE  /\ bad = {} /\ r.elem = elem
             /\ r.rest = SubSeq(lines, Len(fields) + 1, Len(lines))
  <2>1. bad = {}
    BY <1>6, <1>8
  <2> HIDE DEF elem
  <2> QED
    BY <1>6, <2>1 DEF used
<1>9. /\ DOMAIN elem = {fields[i] : i \in DOMAIN fields}
      /\ \A f \in DOMAIN elem :
           elem[f] = IF name = "vcio" THEN lines[At(f)].val ELSE Decoded(f, lines[At(f)].val)
  BY Zenon
<1> HIDE DEF elem, At
<1>10. \A f \in DOMAIN elem : \E i \in DOMAIN fields :
         fields[i] = f /\ elem[f] = IF name = "vcio" THEN lines[i].val ELSE Decoded(f, lines[i].val)
  BY <1>5, <1>9, Zenon
<1>11. ASSUME r.ok
       PROVE  /\ \A i \in DOMAIN fields : i \in DOMAIN lines /\ Fits(name, lines[i], fields[i])
              /\ r.rest = SubSeq(lines, Len(fields) + 1, Len(lines))
              /\ DOMAIN r.elem = {fields[i] : i \in DOMAIN fields}
              /\ \A f \in DOMAIN r.elem : \E i \in DOMAIN fields :
                   /\ fields[i] = f
                   /\ r.elem[f] = IF name = "vcio" THEN lines[i].val
                                  ELSE Decoded(f, lines[i].val)
  <2>1. bad = {} /\ r.elem = elem /\ r.rest = SubSeq(lines, Len(fields) + 1, Len(lines))
    BY <1>8, <1>11
  <2>2. \A i \in DOMAIN fields : i \in DOMAIN lines /\ Fits(name, lines[i], fields[i])
    BY <1>4, <2>1
  <2>3. DOMAIN r.elem = {fields[i] : i \in DOMAIN fields}
    BY <1>9, <2>1, Zenon
  <2>4. \A f \in DOMAIN r.elem : \E i \in DOMAIN fields :
           fields[i] = f /\ r.elem[f] = IF name = "vcio" THEN lines[i].val
                                        ELSE Decoded(f, lines[i].val)
    BY <1>10, <2>1, Zenon
  <2> QED
    BY <2>1, <2>2, <2>3, <2>4, Zenon
<1> QED
  BY <1>7, <1>11, Zenon DEF r, fields

(* The fields of a GPIO: its number first, nothing that ends its entry.    *)
GpioFields(fields) ==
    /\ 1 \in DOMAIN fields /\ fields[1] = "gpio"
    /\ \A k \in DOMAIN fields : k \in Nat /\ (k # 1 => fields[k] \notin Bounds)
    /\ \A k \in DOMAIN fields : \A j \in 2..k : j \in DOMAIN fields

LEMMA ShortFields ==
    GpioFields(<<"gpio", "direction", "value", "name">>)
<1>1. ASSUME NEW c, c = <<"gpio", "direction", "value", "name">> PROVE GpioFields(c)
  BY <1>1 DEF GpioFields, Bounds
<1> QED
  BY <1>1, Zenon

LEMMA OutFields ==
    GpioFields((<<"gpio", "direction", "value">> \o <<"drive">>) \o <<"name">>)
<1>1. ASSUME NEW c, c = (<<"gpio", "direction", "value">> \o <<"drive">>) \o <<"name">>
      PROVE  GpioFields(c)
  <2>1. DOMAIN c = 1..5 /\ c[1] = "gpio" /\ c[2] = "direction" /\ c[3] = "value" /\ c[4] = "drive"
        /\ c[5] = "name"
    BY <1>1
  <2> QED
    BY <2>1 DEF GpioFields, Bounds
<1> QED
  BY <1>1, Zenon

LEMMA InFields ==
    GpioFields((<<"gpio", "direction", "value">> \o
                <<"active_low", "bias", "event_request", "is_debounced",
                  "debounce_period_us", "event_clock">>) \o <<"name">>)
<1>1. ASSUME NEW c, c = (<<"gpio", "direction", "value">> \o
                <<"active_low", "bias", "event_request", "is_debounced",
                  "debounce_period_us", "event_clock">>) \o <<"name">>
      PROVE  GpioFields(c)
  <2>1. /\ DOMAIN c = 1..10 /\ c[1] = "gpio" /\ c[2] = "direction" /\ c[3] = "value"
        /\ c[4] = "active_low" /\ c[5] = "bias" /\ c[6] = "event_request"
        /\ c[7] = "is_debounced" /\ c[8] = "debounce_period_us" /\ c[9] = "event_clock"
        /\ c[10] = "name"
    BY <1>1
  <2> QED
    BY <2>1 DEF GpioFields, Bounds
<1> QED
  BY <1>1, Zenon

LEMMA FieldsOfGpio ==
    ASSUME NEW name \in {"gpiolist", "gpioinfo"}, NEW lines
    PROVE  GpioFields(Fields(name, lines))
<1>1. CASE name = "gpiolist"
  <2>1. Fields(name, lines) = ListFields
    BY <1>1 DEF Fields
  <2> QED
    BY <2>1, ShortFields DEF ListFields
<1>2. CASE name = "gpioinfo"
  <2> DEFINE in == Len(lines) > 1 /\ lines[2].key = "direction" /\ lines[2].val = "in"
  <2>1. Fields(name, lines) = InfoFields(lines)
    BY <1>2 DEF Fields
  <2>2. CASE in
    <3>1. InfoFields(lines) =
            (<<"gpio", "direction", "value">> \o
                <<"active_low", "bias", "event_request", "is_debounced",
                  "debounce_period_us", "event_clock">>) \o <<"name">>
      BY <2>2, Zenon DEF InfoFields
    <3> QED
      BY <2>1, <3>1, InFields, Zenon
  <2>3. CASE ~in
    <3>1. InfoFields(lines) = (<<"gpio", "direction", "value">> \o <<"drive">>) \o <<"name">>
      BY <2>3, Zenon DEF InfoFields
    <3> QED
      BY <2>1, <3>1, OutFields, Zenon
  <2> QED
    BY <2>2, <2>3
<1> QED
  BY <1>1, <1>2

LEMMA IndexPositive == ASSUME NEW ls, IsSeq(ls), NEW i \in DOMAIN ls PROVE i \in Nat /\ i >= 1
<1>1. PICK T : ls \in Seq(T)
  BY DEF IsSeq
<1> QED
  BY <1>1

LEMMA GpioElem ==
    ASSUME NEW name \in {"gpiolist", "gpioinfo"}, NEW lines, IsSeq(lines), NEW gs,
           Describing(lines, gs), Received(name, lines).ok
    PROVE  LET e == Received(name, lines).elem IN
           \A f \in DOMAIN e \ {"gpio"} : e[f] = Gpio(gs, e.gpio)[f]
<1> DEFINE e == Received(name, lines).elem
           fields == Fields(name, lines)
<1>1. /\ \A i \in DOMAIN fields : i \in DOMAIN lines /\ Fits(name, lines[i], fields[i])
      /\ DOMAIN e = {fields[i] : i \in DOMAIN fields}
      /\ \A f \in DOMAIN e : \E i \in DOMAIN fields :
           fields[i] = f /\ e[f] = IF name = "vcio" THEN lines[i].val ELSE Decoded(f, lines[i].val)
  BY ReceivedIs
<1>2. /\ 1 \in DOMAIN fields /\ fields[1] = "gpio"
      /\ \A k \in DOMAIN fields : k \in Nat /\ (k # 1 => fields[k] \notin Bounds)
      /\ \A k \in DOMAIN fields : \A j \in 2..k : j \in DOMAIN fields
  BY FieldsOfGpio DEF GpioFields
<1> HIDE DEF e, fields
<1>3. name # "vcio"
  OBVIOUS
<1>4. ASSUME NEW i \in DOMAIN fields
      PROVE  /\ i \in DOMAIN lines /\ lines[i].key = fields[i]
             /\ fields[i] \in Enums => Decoded(fields[i], lines[i].val) # "UNKNOWN"
  BY <1>1, <1>3 DEF Fits, Accepted
<1>5. e.gpio = lines[1].val
  <2>1. "gpio" \in DOMAIN e
    BY <1>1, <1>2
  <2>2. PICK i \in DOMAIN fields : fields[i] = "gpio" /\ e["gpio"] = Decoded("gpio", lines[i].val)
    BY <1>1, <1>3, <2>1
  <2>3. i = 1
    BY <1>2, <2>2 DEF Bounds
  <2> QED
    BY <2>2, <2>3, DecodesPlain
<1>6. ASSUME NEW f \in DOMAIN e \ {"gpio"} PROVE e[f] = Gpio(gs, lines[1].val)[f]
  <2>1. PICK i \in DOMAIN fields : fields[i] = f /\ e[f] = Decoded(f, lines[i].val)
    BY <1>1, <1>3
  <2>2. i # 1 /\ 1 < i
    BY <1>2, <1>4, <2>1, IndexPositive
  <2>3. ASSUME NEW k \in (1 + 1)..i PROVE lines[k].key \notin Bounds
    <3>1. k \in DOMAIN fields /\ k # 1
      BY <1>2, <2>3
    <3> QED
      BY <1>2, <1>4, <3>1
  <2>4. Describes(lines[i], Gpio(gs, lines[1].val))
    BY <1>2, <1>4, <2>2, <2>3 DEF Describing
  <2> QED
    BY <1>4, <2>1, <2>4 DEF Describes
<1> QED
  BY <1>5, <1>6 DEF e

LEMMA EventFieldsAre ==
    ASSUME NEW name \in {"idle", "noidle"}, NEW lines
    PROVE  LET fields == Fields(name, lines) IN
           /\ 1 \in DOMAIN fields /\ fields[1] = "event"
           /\ 2 \in DOMAIN fields /\ fields[2] = "timestamp_ms"
           /\ mygpio_parse_event(lines[1].val) # "INPUT" =>
                DOMAIN fields = 1..3 /\ fields[3] = "gpio" /\ Len(fields) = 3
<1> DEFINE input == /\ Len(lines) > 0 /\ lines[1].key = "event"
                    /\ mygpio_parse_event(lines[1].val) = "INPUT"
           fields == Fields(name, lines)
<1>1. fields = EventFields(lines)
  BY DEF Fields
<1>2. CASE input
  <2>1. fields = <<"event", "timestamp_ms">> \o <<"device", "type", "code", "value">>
    BY <1>1, <1>2, Zenon DEF EventFields
  <2>2. Lines6(fields, "event", "timestamp_ms", "device", "type", "code", "value")
    BY <2>1, Join6, Zenon
  <2> HIDE DEF fields
  <2>3. fields[1] = "event" /\ fields[2] = "timestamp_ms" /\ DOMAIN fields = 1..6
    BY <2>2 DEF Lines6
  <2> QED
    BY <1>2, <2>3 DEF fields
<1>3. CASE ~input
  <2>1. fields = <<"event", "timestamp_ms">> \o <<"gpio">>
    BY <1>1, <1>3, Zenon DEF EventFields
  <2>2. Lines3(fields, "event", "timestamp_ms", "gpio")
    BY <2>1, Join3, Zenon
  <2>3. PICK T : fields \in Seq(T)
    BY FieldsSeq DEF IsSeq
  <2> HIDE DEF fields
  <2>4. DOMAIN fields = 1..3 /\ fields[1] = "event" /\ fields[2] = "timestamp_ms" /\ fields[3] = "gpio"
    BY <2>2 DEF Lines3
  <2>5. Len(fields) = 3
    BY <2>3, <2>4
  <2> QED
    BY <2>4, <2>5 DEF fields
<1> QED
  BY <1>2, <1>3

(* What an event's element says, and what is left after it.                *)
TellsOf(e, rest, evs, x, y) ==
    /\ e.timestamp_ms \in (x + 1)..y
    /\ e.event = evs[e.timestamp_ms].type
    /\ e.gpio = evs[e.timestamp_ms].gpio
    /\ Reports(rest, evs, e.timestamp_ms, y)

(* After the third line the numbers are greater than the second line's.    *)
LEMMA RestReports ==
    ASSUME NEW lines, IsSeq(lines), 2 \in DOMAIN lines, lines[2].key = "timestamp_ms", NEW evs,
           NEW x \in Nat, NEW y \in Nat, Reports(lines, evs, x, y)
    PROVE  Reports(SubSeq(lines, 3 + 1, Len(lines)), evs, lines[2].val, y)
<1> DEFINE r == SubSeq(lines, 3 + 1, Len(lines))
           v == lines[2].val
<1>1. PICK T : lines \in Seq(T)
  BY DEF IsSeq
<1>2. Suffix(r, lines)
  BY SubSuffix
<1>3. Reports(r, evs, x, y)
  BY <1>2, SuffixReports
<1>4. v \in (x + 1)..y
  BY DEF Reports
<1>5. \A i \in DOMAIN r : r[i] = lines[i + 3] /\ i + 3 \in DOMAIN lines /\ 2 < i + 3
  BY <1>1
<1> HIDE DEF r, v
<1>6. ASSUME NEW i \in DOMAIN r, r[i].key = "timestamp_ms" PROVE r[i].val \in (v + 1)..y
  <2>1. r[i].val \in (x + 1)..y
    BY <1>3, <1>6 DEF Reports
  <2>2. v < r[i].val
    BY <1>5, <1>6 DEF Reports, v
  <2> QED
    BY <1>4, <2>1, <2>2
<1>7. Reports(r, evs, v, y)
  BY <1>3, <1>6, Zenon DEF Reports
<1> QED
  BY <1>7 DEF r, v

LEMMA EventElem ==
    ASSUME NEW name \in {"idle", "noidle"}, NEW lines, IsSeq(lines), NEW evs, IsSeq(evs),
           Numbered(evs), NEW x \in Nat, NEW y \in Nat, y <= Len(evs),
           Reports(lines, evs, x, y), Received(name, lines).ok
    PROVE  TellsOf(Received(name, lines).elem, Received(name, lines).rest, evs, x, y)
<1> DEFINE r == Received(name, lines)
           e == r.elem
           fields == Fields(name, lines)
           n == lines[2].val
<1>1. /\ \A i \in DOMAIN fields : i \in DOMAIN lines /\ Fits(name, lines[i], fields[i])
      /\ r.rest = SubSeq(lines, Len(fields) + 1, Len(lines))
      /\ DOMAIN e = {fields[i] : i \in DOMAIN fields}
      /\ \A f \in DOMAIN e : \E i \in DOMAIN fields :
           fields[i] = f /\ e[f] = IF name = "vcio" THEN lines[i].val ELSE Decoded(f, lines[i].val)
  BY ReceivedIs
<1>2. /\ 1 \in DOMAIN fields /\ fields[1] = "event"
      /\ 2 \in DOMAIN fields /\ fields[2] = "timestamp_ms"
      /\ mygpio_parse_event(lines[1].val) # "INPUT" =>
           DOMAIN fields = 1..3 /\ fields[3] = "gpio" /\ Len(fields) = 3
  BY EventFieldsAre
<1> HIDE DEF r, fields
<1>3. name # "vcio"
  OBVIOUS
<1>4. ASSUME NEW i \in DOMAIN fields
      PROVE  /\ i \in DOMAIN lines /\ lines[i].key = fields[i]
             /\ fields[i] \in Enums => Decoded(fields[i], lines[i].val) # "UNKNOWN"
  BY <1>1, <1>3 DEF Fits, Accepted
<1>5. /\ 1 \in DOMAIN lines /\ lines[1].key = "event"
      /\ 2 \in DOMAIN lines /\ lines[2].key = "timestamp_ms"
      /\ Decoded("event", lines[1].val) # "UNKNOWN"
  <2>1. "event" \in Enums
    BY DEF Enums
  <2> QED
    BY <1>2, <1>4, <2>1
<1>6. n \in (x + 1)..y /\ n \in DOMAIN evs
  <2>1. PICK T : evs \in Seq(T)
    BY DEF IsSeq
  <2>2. n \in (x + 1)..y
    BY <1>5 DEF Reports
  <2> QED
    BY <2>1, <2>2
<1>7. /\ lines[1].val = mygpiod_event_name[evs[n].type]
      /\ 3 \in DOMAIN lines /\ lines[3].key = "gpio" => lines[3].val = evs[n].gpio
  <2>1. Names(lines, 1, evs)
    BY <1>5 DEF Reports
  <2>2. 1 + 1 = 2 /\ 1 + 2 = 3
    OBVIOUS
  <2> QED
    BY <1>5, <2>1, <2>2 DEF Names
<1>8. evs[n].type \in EventTypes
  BY <1>6 DEF Numbered
<1>9. Decoded("event", lines[1].val) = evs[n].type /\ mygpio_parse_event(lines[1].val) # "INPUT"
  <2>1. /\ mygpio_parse_event(lines[1].val) = Decoded("event", lines[1].val)
        /\ Decoded("event", lines[1].val) =
             IF evs[n].type = "INPUT" THEN "UNKNOWN" ELSE evs[n].type
    BY <1>7, <1>8, DecodesEvent
  <2> QED
    BY <1>5, <2>1
<1>10. DOMAIN fields = 1..3 /\ fields[3] = "gpio" /\ Len(fields) = 3
  BY <1>2, <1>9
<1>11. lines[3].val = evs[n].gpio
  BY <1>4, <1>7, <1>10
<1> HIDE DEF e
<1>12. ASSUME NEW i \in 1..3 PROVE e[fields[i]] = Decoded(fields[i], lines[i].val)
  <2>1. fields[i] \in DOMAIN e
    BY <1>1, <1>10
  <2>2. PICK j \in DOMAIN fields :
          fields[j] = fields[i] /\ e[fields[i]] = Decoded(fields[i], lines[j].val)
    BY <1>1, <1>3, <2>1
  <2>3. j = i
    BY <1>2, <1>10, <2>2
  <2> QED
    BY <2>2, <2>3
<1>13. e.event = evs[n].type /\ e.timestamp_ms = n /\ e.gpio = evs[n].gpio
  <2>1. /\ e["event"] = Decoded("event", lines[1].val)
        /\ e["timestamp_ms"] = Decoded("timestamp_ms", lines[2].val)
        /\ e["gpio"] = Decoded("gpio", lines[3].val)
    BY <1>2, <1>10, <1>12
  <2> QED
    BY <1>9, <1>11, <2>1, DecodesPlain
<1>14. Reports(r.rest, evs, n, y)
  <2>1. r.rest = SubSeq(lines, 3 + 1, Len(lines))
    BY <1>1, <1>10
  <2> QED
    BY <1>5, <2>1, RestReports
<1> HIDE DEF n
<1>15. TellsOf(e, r.rest, evs, x, y)
  BY <1>6, <1>13, <1>14 DEF TellsOf
<1> QED
  BY <1>15 DEF e, r

LEMMA GetElem ==
    ASSUME NEW lines, IsSeq(lines), NEW v, Values(lines, v), Received("gpioget", lines).ok
    PROVE  Received("gpioget", lines).elem.value = v
<1> DEFINE e == Received("gpioget", lines).elem
           fields == Fields("gpioget", lines)
<1>1. fields = <<"value">>
  BY DEF Fields
<1>2. /\ \A i \in DOMAIN fields : i \in DOMAIN lines /\ Fits("gpioget", lines[i], fields[i])
      /\ DOMAIN e = {fields[i] : i \in DOMAIN fields}
      /\ \A f \in DOMAIN e : \E i \in DOMAIN fields :
           /\ fields[i] = f
           /\ e[f] = IF "gpioget" = "vcio" THEN lines[i].val ELSE Decoded(f, lines[i].val)
  BY ReceivedIs
<1> HIDE DEF e, fields
<1>3. DOMAIN fields = {1} /\ fields[1] = "value"
  BY <1>1
<1>4. "value" \in DOMAIN e /\ 1 \in DOMAIN lines /\ Fits("gpioget", lines[1], "value")
  BY <1>2, <1>3
<1>5. e["value"] = Decoded("value", lines[1].val)
  BY <1>2, <1>3, <1>4
<1>6. lines[1].key = "value" /\ Decoded("value", lines[1].val) # "UNKNOWN"
  BY <1>4 DEF Fits, Accepted, Enums
<1>7. e["value"] = v
  BY <1>4, <1>5, <1>6 DEF Values
<1> QED
  BY <1>7 DEF e

LEMMA ToldMore ==
    ASSUME NEW es, IsSeq(es), NEW e, NEW x \in Nat, NEW y \in Nat, ToldUpTo(es, x),
           e.timestamp_ms \in (x + 1)..y
    PROVE  IsSeq(Append(es, e)) /\ ToldUpTo(Append(es, e), e.timestamp_ms)
<1> DEFINE q == Append(es, e)
           n == Len(es)
           t == e.timestamp_ms
<1>1. PICK T : es \in Seq(T)
  BY DEF IsSeq
<1>2. es \in Seq(T \cup {e})
  BY <1>1
<1>3. /\ n \in Nat /\ DOMAIN es = 1..n /\ DOMAIN q = 1..(n + 1)
      /\ q[n + 1] = e /\ \A i \in 1..n : q[i] = es[i]
  BY <1>2
<1>4. IsSeq(q)
  BY AppendSeq
<1>5. t \in (x + 1)..y /\ q[n + 1].timestamp_ms = t
  BY <1>3
<1>6. /\ \A i \in 1..n : es[i].timestamp_ms \in 1..x
      /\ \A i, j \in 1..n : i < j => es[i].timestamp_ms < es[j].timestamp_ms
  BY <1>3 DEF ToldUpTo
<1> HIDE DEF q, n, t
<1>7. ASSUME NEW i \in 1..(n + 1) PROVE q[i].timestamp_ms \in 1..t
  <2>1. CASE i = n + 1
    BY <1>5, <2>1
  <2>2. CASE i \in 1..n
    <3>1. q[i].timestamp_ms \in 1..x
      BY <1>3, <1>6, <2>2
    <3> QED
      BY <1>5, <3>1
  <2> QED
    BY <1>3, <2>1, <2>2
<1>8. ASSUME NEW i \in 1..(n + 1), NEW j \in 1..(n + 1), i < j
      PROVE  q[i].timestamp_ms < q[j].timestamp_ms
  <2>1. i \in 1..n
    BY <1>3, <1>8
  <2>2. q[i] = es[i] /\ es[i].timestamp_ms \in 1..x
    BY <1>3, <1>6, <2>1
  <2>3. CASE j = n + 1
    BY <1>5, <2>2, <2>3
  <2>4. CASE j \in 1..n
    BY <1>3, <1>6, <1>8, <2>1, <2>4
  <2> QED
    BY <1>3, <2>3, <2>4
<1>9. ToldUpTo(q, t)
  BY <1>3, <1>7, <1>8 DEF ToldUpTo
<1> QED
  BY <1>4, <1>9 DEF q, t

LEMMA ReceiveFaith == ASSUME Invs, FaithInv, Receive PROVE FaithInv'
<1> DEFINE name == app.cmd.name
           r == IF connection_check THEN Received(name, toClient)
                ELSE [ok |-> FALSE, rest |-> toClient, elem |-> NoElem]
           list == name \in {"gpiolist", "idle", "noidle"}
           told == r.ok /\ name \in {"idle", "noidle"}
<1>1. /\ app.pc = "body" /\ toClient' = r.rest
      /\ seen' = [seen EXCEPT !.elem = r.elem,
                     !.events = IF told THEN Append(@, r.elem) ELSE @]
      /\ app' = [app EXCEPT !.pc = IF list /\ r.ok THEN "body" ELSE "ending",
                            !.read = r.ok \/ list]
      /\ UNCHANGED <<gpios, raised, srv, toServer>>
  BY Zenon DEF Receive, daemon
<1>2. IsSeq(toClient)
  BY DEF Invs, LinesInv
<1>3. Suffix(r.rest, toClient)
  <2>1. CASE connection_check
    BY <1>2, <2>1, ReceivedRest, SubSuffix
  <2>2. CASE ~connection_check
    BY <1>2, <2>2, SeqSuffix
  <2> QED
    BY <2>1, <2>2
<1>4. ~r.ok => r.elem = NoElem
  BY <1>2, ReceivedIs
<1>5. r.ok => connection_check /\ r = Received(name, toClient)
  OBVIOUS
<1> HIDE DEF r, list, name
<1>6. /\ app'.pc \in {"body", "ending"} /\ app'.crossed = app.crossed /\ app'.cmd = app.cmd
  BY <1>1 DEF Invs, CallerInv
<1>7. /\ seen'.elem = r.elem
      /\ seen'.events = IF told THEN Append(seen.events, r.elem) ELSE seen.events
  BY <1>1 DEF Invs, CallerInv
<1>8. ListInv'
  BY <1>1, <1>3, <1>6, SuffixList DEF FaithInv
<1>9. CASE ~r.ok
  BY <1>1, <1>3, <1>4, <1>7, <1>8, <1>9, CallerFaith
<1>10. CASE r.ok
  <2>1. r = Received(name, toClient) /\ Received(name, toClient).ok
    BY <1>5, <1>10
  <2>2. PICK x, y \in 0..Len(raised) :
          /\ x <= y /\ ToldUpTo(seen.events, x)
          /\ Reports(toClient, raised, x, y) /\ Waits(srv.waiting, raised, y)
    BY DEF FaithInv, EventInv
  <2>3. IsSeq(raised) /\ Numbered(raised) /\ IsSeq(seen.events) /\ Len(raised) \in Nat
        /\ DOMAIN raised = 1..Len(raised)
    BY AppendExtends DEF FaithInv, EventInv, Invs, DaemonInv
  <2>4. x \in Nat /\ y \in Nat /\ y <= Len(raised)
    BY <2>2, <2>3
  <2>5. name \in {"idle", "noidle"} => TellsOf(r.elem, r.rest, raised, x, y)
    BY <1>2, <2>1, <2>2, <2>3, <2>4, EventElem
  <2>6. EventInv'
    <3>1. PICK u \in 0..Len(raised) :
            u <= y /\ IsSeq(seen'.events) /\ ToldUpTo(seen'.events, u) /\ Reports(r.rest, raised, u, y)
      <4>1. CASE told
        <5>1. /\ r.elem.timestamp_ms \in (x + 1)..y
              /\ Reports(r.rest, raised, r.elem.timestamp_ms, y)
          BY <2>5, <4>1 DEF TellsOf
        <5>2. IsSeq(seen'.events) /\ ToldUpTo(seen'.events, r.elem.timestamp_ms)
          BY <1>7, <2>2, <2>3, <2>4, <4>1, <5>1, ToldMore
        <5>3. r.elem.timestamp_ms \in 0..Len(raised) /\ r.elem.timestamp_ms <= y
          BY <2>3, <2>4, <5>1
        <5> QED
          BY <5>1, <5>2, <5>3
      <4>2. CASE ~told
        <5>1. Reports(r.rest, raised, x, y)
          BY <1>3, <2>2, SuffixReports
        <5> QED
          BY <1>7, <2>2, <2>3, <4>2, <5>1
      <4> QED
        BY <4>1, <4>2
    <3>2. \E w, z \in 0..Len(raised') :
            /\ w <= z /\ ToldUpTo(seen'.events, w)
            /\ Reports(toClient', raised', w, z) /\ Waits(srv'.waiting, raised', z)
      BY <1>1, <2>2, <3>1
    <3>3. Numbered(raised')
      BY <1>1, <2>3
    <3> QED
      BY <3>1, <3>2, <3>3 DEF EventInv
  <2>7. ASSUME ~app.crossed PROVE Returned'
    <3> DEFINE e == r.elem
    <3>1. CASE name \in {"gpiolist", "gpioinfo"}
      <4>1. Describing(toClient, gpios)
        BY <1>1, <2>7, <3>1 DEF FaithInv, ListInv, name
      <4>2. \A f \in DOMAIN e \ {"gpio"} : e[f] = Gpio(gpios, e.gpio)[f]
        BY <1>2, <2>1, <3>1, <4>1, GpioElem
      <4> QED
        BY <1>1, <1>6, <1>7, <3>1, <4>2 DEF Returned, name
    <3>2. CASE name = "gpioget"
      <4>1. Values(toClient, Gpio(gpios, app.cmd.args[1]).value)
        BY <1>1, <2>7, <3>2 DEF FaithInv, ListInv, name
      <4>2. e.value = Gpio(gpios, app.cmd.args[1]).value
        BY <1>2, <2>1, <3>2, <4>1, GetElem
      <4> QED
        BY <1>1, <1>6, <1>7, <3>2, <4>2 DEF Returned, name
    <3>3. CASE name \in {"idle", "noidle"}
      <4>1. /\ e.timestamp_ms \in (x + 1)..y
            /\ e.event = raised[e.timestamp_ms].type /\ e.gpio = raised[e.timestamp_ms].gpio
        BY <2>5, <3>3 DEF TellsOf
      <4>2. e.timestamp_ms \in DOMAIN raised
        BY <2>3, <2>4, <4>1
      <4> QED
        BY <1>1, <1>6, <1>7, <3>3, <4>1, <4>2 DEF Returned, name
    <3>4. CASE name \notin {"gpiolist", "gpioinfo", "gpioget", "idle", "noidle"}
      BY <1>6, <3>4 DEF Returned, name
    <3> QED
      BY <3>1, <3>2, <3>3, <3>4
  <2>8. ElemInv'
    BY <1>6, <2>7 DEF ElemInv
  <2>9. GpiosOk'
    BY <1>1 DEF FaithInv, GpiosOk
  <2> QED
    BY <1>8, <2>6, <2>8, <2>9 DEF FaithInv
<1> QED
  BY <1>9, <1>10

-----------------------------------------------------------------------------
LEMMA InitFaith == ASSUME Init PROVE FaithInv
<1>1. /\ gpios \in Settings /\ srv = [state |-> "none", waiting |-> <<>>, idle |-> 0]
      /\ toClient = <<>> /\ raised = <<>> /\ seen = Nothing /\ app.pc = "start"
  BY DEF Init
<1>2. GpiosOk
  BY <1>1, ShapesAssumption, Zenon DEF GpiosOk
<1>3. /\ seen.elem = NoElem /\ seen.events = <<>> /\ srv.waiting = <<>>
      /\ Len(raised) = 0 /\ DOMAIN raised = {} /\ DOMAIN toClient = {} /\ DOMAIN seen.events = {}
  BY <1>1 DEF Nothing
<1>4. Numbered(raised) /\ IsSeq(seen.events) /\ ToldUpTo(seen.events, 0)
  BY <1>3, EmptyIs DEF Numbered, ToldUpTo
<1>5. Reports(toClient, raised, 0, 0) /\ Waits(srv.waiting, raised, 0)
  BY <1>3, NoneReport, WaitsNothing
<1>6. EventInv
  <2>1. 0 \in 0..Len(raised) /\ 0 <= 0
    BY <1>3
  <2> QED
    BY <1>4, <1>5, <2>1 DEF EventInv
<1>7. ListInv /\ ElemInv
  BY <1>1, <1>3 DEF ListInv, ElemInv
<1> QED
  BY <1>2, <1>6, <1>7 DEF FaithInv

LEMMA NextFaith == ASSUME Invs, FaithInv, [Next]_vars PROVE FaithInv'
<1>1. CASE ServerAct
  BY <1>1, ServerKeeps
<1>2. CASE Status
  BY <1>2, StatusTimeoutFaith, StatusOkFaith, StatusErrorFaith DEF Status
<1>3. CASE \/ Connect \/ Handshake \/ Call \/ Receive \/ ResponseEnd
           \/ WaitIdle \/ WaitIdleTimeout \/ QuietEnd \/ LeaveIdle \/ ClearError \/ Free
  BY <1>3, ConnectFaith, HandshakeFaith, CallFaith, ReceiveFaith, ResponseEndFaith,
     WaitIdleFaith, WaitIdleTimeoutFaith, QuietEndFaith, LeaveIdleFaith, ClearErrorFaith,
     FreeFaith
<1>4. CASE UNCHANGED vars
  <2>1. UNCHANGED <<gpios, srv, raised, toServer, toClient, app, seen>>
    BY <1>4 DEF vars, daemon
  <2>2. GpiosOk' /\ EventInv'
    BY <2>1 DEF FaithInv, GpiosOk, EventInv
  <2>3. ListInv'
    BY <2>1 DEF FaithInv, ListInv
  <2>4. ElemInv'
    BY <2>1 DEF FaithInv, ElemInv, Returned
  <2> QED
    BY <2>2, <2>3, <2>4 DEF FaithInv
<1> QED
  BY <1>1, <1>2, <1>3, <1>4, Zenon DEF Next, ServerStep, ClientStep, ServerAct

(* Whatever the daemon's GPIOs are and however events, commands, timeouts  *)
(* and closed connections follow each other: an element that the library   *)
(* returns describes one GPIO or one event as the daemon knows it, and no  *)
(* event is told twice or out of order.                                    *)
THEOREM ElementsCorrect == Spec => []ElementsFaithful
<1>1. Init => FaithInv
  BY InitFaith
<1>2. Invs /\ FaithInv /\ [Next]_vars => FaithInv'
  BY NextFaith
<1>3. FaithInv => ElementsFaithful
  <2> SUFFICES ASSUME FaithInv, ~app.crossed
               PROVE  /\ EventsOnce
                      /\ seen.elem # NoElem => Returned
    BY Zenon DEF ElementsFaithful, Returned
  <2>1. EventsOnce
    BY DEF FaithInv, EventInv, ToldUpTo, EventsOnce
  <2>2. seen.elem # NoElem => Returned
    BY DEF FaithInv, ElemInv
  <2> QED
    BY <2>1, <2>2
<1> QED
  BY <1>1, <1>2, <1>3, SpecInvs, PTL DEF Spec

=============================================================================
