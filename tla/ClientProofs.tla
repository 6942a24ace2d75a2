---------------------------- MODULE ClientProofs ----------------------------
(***************************************************************************)
(* Theorems about the two programs on the user's side.                     *)
(*                                                                         *)
(* The playground: a message shows text of its own stream in order, and    *)
(* all of it when a stream that repeats nothing completed it, for every    *)
(* number of requests, of letters and of updaters that wait for a render.  *)
(*                                                                         *)
(* The desktop shell: it leaves no server behind, for every set of windows *)
(* and every number of probes.                                             *)
(***************************************************************************)
EXTENDS PlaygroundChat, DesktopShell, FiniteSetTheorems, SequenceTheorems, TLAPS

-----------------------------------------------------------------------------
(* What a render computes: the queue of updaters, whatever its length.     *)

Message == [owner : 0..MaxGen, text : Seq(Letter), status : Status]

(* The equation of the recursive function in RunAll.                       *)
After(f, q, m, g, i) == IF i = 0 THEN m ELSE Run(q[i], f[i - 1], g)

IsRun(f, q, m, g, k) == f = [i \in 0..k |-> After(f, q, m, g, i)]

RunFcn(q, m, g, k) == CHOOSE f : IsRun(f, q, m, g, k)

(* A set of natural numbers has a least member.                            *)
LEMMA LeastNatural ==
  ASSUME NEW Bad, Bad \subseteq Nat, Bad # {}
  PROVE  \E k \in Bad : \A j \in Nat : j < k => j \notin Bad
<1>1. PICK n \in Bad : TRUE
  OBVIOUS
<1> DEFINE below(i) == {j \in Nat : j =< i}
           B == {below(i) : i \in {j \in Bad : j =< n}}
<1>2. IsFiniteSet(below(n))
  <2>1. IsFiniteSet(0..n) /\ below(n) = 0..n
    BY <1>1, FS_Interval
  <2> QED
    BY <2>1
<1>3. IsWellFoundedOn(StrictSubsetOrdering(below(n)), SUBSET below(n))
  <2> HIDE DEF below
  <2> QED
    BY <1>2, FS_StrictSubsetOrderingWellFounded, FS_FiniteSubsetsOfFinite
<1>4. B \subseteq SUBSET below(n) /\ B # {}
  <2>1. below(n) \in B
    BY <1>1
  <2>2. ASSUME NEW i \in Bad, i =< n PROVE below(i) \in SUBSET below(n)
    BY <1>1, <2>2
  <2> QED
    BY <2>1, <2>2
<1>5. PICK T \in B : \A U \in B : <<U, T>> \notin StrictSubsetOrdering(below(n))
  <2> HIDE DEF B, below
  <2> QED
    BY <1>3, <1>4, WFMin
<1>6. PICK k \in Bad : k =< n /\ T = below(k)
  OBVIOUS
<1>7. ASSUME NEW j \in Bad, j < k PROVE FALSE
  <2>1. k \in Nat /\ j \in Nat /\ n \in Nat
    BY <1>1
  <2>2. below(j) \in B
    BY <1>6, <1>7, <2>1
  <2>3. below(j) \in SUBSET T /\ k \in T /\ k \notin below(j)
    BY <1>6, <1>7, <2>1
  <2>4. T \in SUBSET below(n) /\ below(j) \in SUBSET below(n)
    BY <1>4, <2>2
  <2> HIDE DEF below
  <2> QED
    BY <1>5, <2>2, <2>3, <2>4 DEF StrictSubsetOrdering
<1> QED
  BY <1>7

(* RunAll is the value of that function.                                   *)
LEMMA RunAllIsFcn ==
  ASSUME NEW q, NEW m, NEW g
  PROVE  RunAll(q, m, g) = RunFcn(q, m, g, Len(q))[Len(q)]
BY DEF RunAll, RunFcn, IsRun, After

(* Two such functions agree as far as their queues do.                     *)
LEMMA RunUnique ==
  ASSUME NEW m, NEW g, NEW q, NEW p, NEW f, NEW h, NEW k \in Nat, NEW l \in Nat,
         IsRun(f, q, m, g, k), IsRun(h, p, m, g, l),
         NEW n \in 0..k, n =< l, \A i \in 1..n : q[i] = p[i]
  PROVE  f[n] = h[n]
<1> DEFINE Bad == {i \in 0..n : f[i] # h[i]}
<1>1. SUFFICES ASSUME Bad # {} PROVE FALSE
  OBVIOUS
<1>2. PICK i \in Bad : \A j \in Nat : j < i => j \notin Bad
  <2>1. Bad \subseteq Nat
    OBVIOUS
  <2> HIDE DEF Bad
  <2> QED
    BY <1>1, <2>1, LeastNatural
<1>3. i \in 0..k /\ i \in 0..l
  OBVIOUS
<1>4. f[i] = After(f, q, m, g, i) /\ h[i] = After(h, p, m, g, i)
  BY <1>3 DEF IsRun
<1>5. CASE i = 0
  BY <1>4, <1>5 DEF After
<1>6. CASE i # 0
  <2>1. i - 1 \in 0..n /\ i \in 1..n
    BY <1>6
  <2>2. f[i - 1] = h[i - 1]
    BY <1>2, <2>1
  <2>3. q[i] = p[i]
    BY <2>1
  <2> QED
    BY <1>4, <1>6, <2>2, <2>3 DEF After
<1> QED
  BY <1>5, <1>6

(* There is one for every number of updaters.                              *)
LEMMA RunExists ==
  ASSUME NEW q, NEW m, NEW g, NEW k \in Nat
  PROVE  IsRun(RunFcn(q, m, g, k), q, m, g, k)
<1> DEFINE Bad == {i \in Nat : ~ \E f : IsRun(f, q, m, g, i)}
<1>1. SUFFICES ASSUME Bad # {} PROVE FALSE
  BY DEF RunFcn
<1>2. PICK n \in Bad : \A j \in Nat : j < n => j \notin Bad
  <2>1. Bad \subseteq Nat
    OBVIOUS
  <2> HIDE DEF Bad
  <2> QED
    BY <1>1, <2>1, LeastNatural
<1>3. CASE n = 0
  <2> DEFINE f == [i \in 0..0 |-> m]
  <2>1. f = [i \in 0..0 |-> After(f, q, m, g, i)]
    BY DEF After
  <2> QED
    BY <1>3, <2>1 DEF IsRun
<1>4. CASE n # 0
  <2>1. n - 1 \in Nat /\ n - 1 < n
    BY <1>4
  <2>2. PICK e : IsRun(e, q, m, g, n - 1)
    BY <1>2, <2>1
  <2> DEFINE f == [i \in 0..n |-> IF i < n THEN e[i] ELSE Run(q[n], e[n - 1], g)]
  <2>3. ASSUME NEW i \in 0..n PROVE f[i] = After(f, q, m, g, i)
    <3>1. CASE i = n
      BY <1>4, <3>1 DEF After
    <3>2. CASE i # n
      <4>1. i \in 0..(n - 1) /\ f[i] = e[i]
        BY <3>2
      <4>2. e[i] = After(e, q, m, g, i)
        BY <2>2, <4>1 DEF IsRun
      <4>3. i # 0 => i - 1 \in 0..n /\ i - 1 < n
        BY <4>1
      <4>4. i # 0 => f[i - 1] = e[i - 1]
        BY <4>3
      <4> HIDE DEF f
      <4> QED
        BY <4>1, <4>2, <4>4 DEF After
    <3> QED
      BY <3>1, <3>2
  <2>4. IsRun(f, q, m, g, n)
    <3>1. f = [i \in 0..n |-> f[i]]
      OBVIOUS
    <3> HIDE DEF f
    <3> QED
      BY <2>3, <3>1 DEF IsRun
  <2> QED
    BY <2>4
<1> QED
  BY <1>3, <1>4

(* Nothing to run.                                                         *)
LEMMA RunNone == ASSUME NEW m, NEW g PROVE RunAll(<<>>, m, g) = m
<1>1. IsRun(RunFcn(<<>>, m, g, 0), <<>>, m, g, 0)
  BY RunExists
<1>2. RunFcn(<<>>, m, g, 0)[0] = After(RunFcn(<<>>, m, g, 0), <<>>, m, g, 0)
  BY <1>1 DEF IsRun
<1> QED
  BY <1>2, RunAllIsFcn DEF After

(* The updater queued last runs last.                                      *)
LEMMA RunAppend ==
  ASSUME NEW S, NEW q \in Seq(S), NEW u \in S, NEW m, NEW g
  PROVE  RunAll(Append(q, u), m, g) = Run(u, RunAll(q, m, g), g)
<1> DEFINE p == Append(q, u)
           k == Len(q)
           f == RunFcn(q, m, g, k)
           h == RunFcn(p, m, g, k + 1)
<1>1. /\ k \in Nat /\ Len(p) = k + 1 /\ p[k + 1] = u
      /\ \A i \in 1..k : p[i] = q[i]
  OBVIOUS
<1>2. IsRun(f, q, m, g, k) /\ IsRun(h, p, m, g, k + 1)
  BY <1>1, RunExists
<1>3. h[k] = f[k]
  <2> HIDE DEF f, h, p, k
  <2>1. k \in 0..(k + 1) /\ k =< k /\ k + 1 \in Nat
    BY <1>1
  <2> QED
    BY <1>1, <1>2, <2>1, RunUnique
<1>4. h[k + 1] = After(h, p, m, g, k + 1)
  <2> HIDE DEF f, h, p, k
  <2>1. k + 1 \in 0..(k + 1)
    BY <1>1
  <2>2. h = [i \in 0..(k + 1) |-> After(h, p, m, g, i)]
    BY <1>2 DEF IsRun
  <2> QED
    BY <2>1, <2>2, Zenon
<1>5. h[k + 1] = Run(u, f[k], g)
  <2> HIDE DEF f, h, p, k
  <2>1. k + 1 # 0 /\ (k + 1) - 1 = k
    BY <1>1
  <2> QED
    BY <1>1, <1>3, <1>4, <2>1 DEF After
<1> QED
  BY <1>1, <1>5, RunAllIsFcn

(* Updaters of earlier generations leave the message alone.                *)
LEMMA RunStale ==
  ASSUME NEW q \in Seq(Updater), NEW m, NEW g,
         \A i \in 1..Len(q) : q[i].kind # "replace" /\ q[i].gen # g
  PROVE  RunAll(q, m, g) = m
<1> DEFINE k == Len(q)
           f == RunFcn(q, m, g, k)
           Bad == {i \in 0..k : f[i] # m}
<1>1. k \in Nat
  OBVIOUS
<1>2. IsRun(f, q, m, g, k)
  BY <1>1, RunExists
<1>3. SUFFICES ASSUME Bad # {} PROVE FALSE
  BY <1>1, RunAllIsFcn
<1>4. PICK i \in Bad : \A j \in Nat : j < i => j \notin Bad
  <2>1. Bad \subseteq Nat
    BY <1>1
  <2> HIDE DEF Bad
  <2> QED
    BY <1>3, <2>1, LeastNatural
<1> HIDE DEF f, k
<1>5. i \in 0..k /\ f[i] = After(f, q, m, g, i)
  BY <1>2 DEF IsRun
<1>6. CASE i = 0
  BY <1>5, <1>6 DEF After
<1>7. CASE i # 0
  <2>1. i - 1 \in 0..k /\ i - 1 < i /\ i \in 1..k
    BY <1>1, <1>5, <1>7
  <2>2. f[i - 1] = m
    BY <1>4, <2>1
  <2>3. q[i].kind # "replace" /\ q[i].gen # g
    BY <2>1 DEF k
  <2>4. Run(q[i], m, g) = m
    BY <2>3 DEF Run
  <2> QED
    BY <1>5, <1>7, <2>2, <2>4 DEF After
<1> QED
  BY <1>6, <1>7

-----------------------------------------------------------------------------
(* The invariant of the playground.                                        *)

(* What the next render will show.                                         *)
Shown == RunAll(queue, message, gen)

(* The request of this generation is under way, with and without a stream. *)
Streaming ==
  gen # 0 /\ ctl = gen /\ request[gen].pc \in {"headers", "open", "silent"}
Waiting == gen # 0 /\ request[gen].pc = "xhr"

(* The letters of text t come from request g, in the order of its stream.  *)
Ordered(t, g) ==
  \A i \in 1..Len(t) : t[i].of = g /\ \A j \in 1..(i - 1) : t[j].n < t[i].n

(* Text t is as long as the text x of a stream, unless that repeats.       *)
Full(t, x) == Len(t) = Len(x) \/ Repeats(x)

(* Letters of request g from place n + 1 on, as stream x delivered them.   *)
Stretch(t, n, x, g) ==
  \A i \in 1..Len(t) : t[i] = [of |-> g, n |-> n + i, ch |-> x[n + i]]

(* A message shows s and the buffer holds t, and request g has delivered   *)
(* x.  The buffer is the end of x and s comes before it; and s and t are   *)
(* all of x, unless x repeats.                                             *)
Holds(s, t, x, g) ==
  /\ Ordered(s, g)
  /\ Len(t) =< Len(x) /\ Stretch(t, Len(x) - Len(t), x, g)
  /\ \A i \in 1..Len(s) : s[i].n =< Len(x) - Len(t)
  /\ Repeats(x) \/ (Len(s) + Len(t) = Len(x) /\ Stretch(s, 0, x, g))

(* Message m is right if the generation is g and the requests are r: its   *)
(* letters come from its request in order, and if it is complete, then it  *)
(* is full or the user stopped it.                                         *)
Sound(m, g, r) ==
  /\ Ordered(m.text, m.owner)
  /\ m.owner =< g
  /\ m.owner = 0 => m.status = "none"
  /\ m.status = "complete"
       => \/ r[m.owner].stopped
          \/ r[m.owner].pc = "done" /\ Full(m.text, r[m.owner].text)

RequestInv ==
  /\ ctl \in {0, gen}
  /\ \A g \in Gen : request[g].pc \in {"none", "headers", "xhr"} => request[g].text = <<>>
  /\ \A g \in Gen : g > gen => request[g].pc = "none"
  /\ Streaming /\ request[gen].pc = "open" => source = gen
  /\ Streaming \/ Waiting => isRequesting /\ mounted

PendingInv ==
  /\ mounted => pending.gen = gen
  /\ ~mounted => pending.gen # gen /\ ~dirty
  /\ pending.gen = gen /\ pending.text # <<>> => Streaming

QueueInv ==
  /\ \A i \in 1..Len(queue) : queue[i].gen =< gen
  /\ generating => \A i \in 1..Len(queue) : queue[i].kind # "replace"
  /\ ~dirty => queue = <<>>
  /\ ~dirty /\ mounted /\ isRequesting => generating

(* What the request under way delivered is in the message as it will be    *)
(* shown and, after that, in the buffer.                                   *)
MessageInv ==
  /\ Sound(message, gen, request) /\ Sound(Shown, gen, request)
  /\ mounted /\ isPending(message)
       => generating /\ (message.owner = gen \/ request[message.owner].stopped)
  /\ mounted /\ isPending(Shown) => Streaming \/ Waiting
  /\ Streaming \/ Waiting => Shown.owner = gen /\ isPending(Shown)
  /\ Streaming => Holds(Shown.text, pending.text, request[gen].text, gen)
  /\ Waiting => Shown.text = <<>>

ChatInv ==
  /\ TypeOK /\ Shown \in Message
  /\ RequestInv /\ PendingInv /\ QueueInv /\ MessageInv

-----------------------------------------------------------------------------
(* What one updater does.                                                  *)

(* A merge makes a text of two texts.                                      *)
LEMMA MergeTyped ==
  ASSUME NEW a \in Seq(Letter), NEW b \in Seq(Letter)
  PROVE  Merge(a, b) \in Seq(Letter)
BY DEF Merge

(* At the beginning nothing is shown, buffered or delivered.               *)
LEMMA HoldsNothing == ASSUME NEW g PROVE Holds(<<>>, <<>>, <<>>, g)
BY DEF Holds, Ordered, Stretch

(* With an empty buffer a message is full.                                 *)
LEMMA HoldsFull ==
  ASSUME NEW s \in Seq(Letter), NEW x \in Seq(Char), NEW g, Holds(s, <<>>, x, g)
  PROVE  Ordered(s, g) /\ Full(s, x)
<1>1. Len(s) \in Nat /\ Len(x) \in Nat /\ Len(<<>>) = 0
  OBVIOUS
<1> QED
  BY <1>1 DEF Holds, Full

(* A text that repeats goes on to do so.                                   *)
LEMMA RepeatsOn ==
  ASSUME NEW x \in Seq(Char), NEW d \in Seq(Char), Repeats(x)
  PROVE  Repeats(x \o d)
<1>1. PICK i \in 1..Len(x), k \in 1..Len(x) :
        /\ i + 2 * k - 1 =< Len(x)
        /\ \A j \in i..(i + k - 1) : x[j] = x[j + k]
  BY DEF Repeats
<1> DEFINE y == x \o d
<1>2. /\ Len(x) \in Nat /\ Len(d) \in Nat /\ Len(y) = Len(x) + Len(d)
      /\ \A j \in 1..Len(x) : y[j] = x[j]
  OBVIOUS
<1> HIDE DEF y
<1>3. i \in 1..Len(y) /\ k \in 1..Len(y) /\ i + 2 * k - 1 =< Len(y)
  BY <1>1, <1>2
<1>4. ASSUME NEW j \in i..(i + k - 1) PROVE y[j] = y[j + k]
  <2>1. j \in 1..Len(x) /\ j + k \in 1..Len(x)
    BY <1>1, <1>2
  <2> QED
    BY <1>1, <1>2, <2>1
<1>5. Repeats(y)
  BY <1>3, <1>4 DEF Repeats
<1> QED
  BY <1>5 DEF y

(* Two texts one after the other.                                          *)
LEMMA StretchJoins ==
  ASSUME NEW s \in Seq(Letter), NEW t \in Seq(Letter), NEW x, NEW g, NEW n \in Nat,
         Stretch(s, n, x, g), Stretch(t, n + Len(s), x, g)
  PROVE  Stretch(s \o t, n, x, g)
<1> DEFINE u == s \o t
<1>1. /\ Len(u) = Len(s) + Len(t) /\ Len(s) \in Nat /\ Len(t) \in Nat
      /\ \A i \in 1..(Len(s) + Len(t)) :
           u[i] = IF i =< Len(s) THEN s[i] ELSE t[i - Len(s)]
  BY ConcatProperties, LenProperties
<1> HIDE DEF u
<1>2. ASSUME NEW i \in 1..Len(u)
      PROVE  u[i] = [of |-> g, n |-> n + i, ch |-> x[n + i]]
  <2>1. CASE i =< Len(s)
    <3>1. i \in 1..Len(s) /\ u[i] = s[i]
      BY <1>1, <2>1
    <3> QED
      BY <3>1 DEF Stretch
  <2>2. CASE ~(i =< Len(s))
    <3>1. /\ i - Len(s) \in 1..Len(t) /\ (n + Len(s)) + (i - Len(s)) = n + i
          /\ u[i] = t[i - Len(s)]
      <4>1. /\ Len(u) = Len(s) + Len(t) /\ Len(s) \in Nat /\ Len(t) \in Nat
            /\ i \in Nat /\ i =< Len(s) + Len(t) /\ i >= 1
        BY <1>1
      <4>2. i \in 1..(Len(s) + Len(t))
        BY <4>1
      <4>3. u[i] = t[i - Len(s)]
        BY <1>1, <2>2, <4>2
      <4> QED
        BY <2>2, <4>1, <4>3
    <3>2. t[i - Len(s)] = [of |-> g, n |-> (n + Len(s)) + (i - Len(s)),
                           ch |-> x[(n + Len(s)) + (i - Len(s))]]
      BY <3>1 DEF Stretch
    <3> QED
      BY <3>1, <3>2
  <2> QED
    BY <2>1, <2>2
<1>3. Stretch(u, n, x, g)
  BY <1>2 DEF Stretch
<1> QED
  BY <1>3 DEF u

(* A stretch that the next one starts with makes the stream repeat.        *)
LEMMA StretchRepeats ==
  ASSUME NEW t \in Seq(Letter), NEW q \in Seq(Letter), NEW x \in Seq(Char), NEW g,
         NEW n \in Nat, n + Len(t) + Len(q) =< Len(x), t # <<>>,
         Stretch(t, n, x, g), Stretch(q, n + Len(t), x, g), StartsWith(q, t)
  PROVE  Repeats(x)
<1> DEFINE k == Len(t)
           i == n + 1
<1>1. /\ k \in Nat /\ k > 0 /\ Len(q) \in Nat /\ Len(x) \in Nat /\ k =< Len(q)
  BY DEF StartsWith
<1>2. i \in 1..Len(x) /\ k \in 1..Len(x) /\ i + 2 * k - 1 =< Len(x)
  <2> HIDE DEF k
  <2>1. n + k + Len(q) =< Len(x)
    BY DEF k
  <2> QED
    BY <1>1, <2>1
<1>3. ASSUME NEW j \in i..(i + k - 1) PROVE x[j] = x[j + k]
  <2> DEFINE l == j - n
  <2>1. l \in 1..k /\ l \in 1..Len(q) /\ n + l = j /\ (n + k) + l = j + k
    <3> HIDE DEF k
    <3> QED
      BY <1>1
  <2> HIDE DEF l
  <2>2. t[l] = [of |-> g, n |-> n + l, ch |-> x[n + l]]
    BY <2>1 DEF Stretch
  <2>3. q[l] = [of |-> g, n |-> (n + k) + l, ch |-> x[(n + k) + l]]
    BY <2>1 DEF Stretch
  <2>4. q[l].ch = t[l].ch
    BY <2>1 DEF StartsWith
  <2>5. x[n + l] = x[(n + k) + l]
    BY <2>2, <2>3, <2>4
  <2> QED
    BY <2>1, <2>5
<1> HIDE DEF i, k
<1> QED
  BY <1>2, <1>3 DEF Repeats

(* A stretch is in order.                                                  *)
LEMMA StretchOrdered ==
  ASSUME NEW t \in Seq(Letter), NEW x, NEW g, NEW n \in Nat, Stretch(t, n, x, g)
  PROVE  Ordered(t, g) /\ \A i \in 1..Len(t) : t[i].n =< n + Len(t) /\ n < t[i].n
<1>1. Len(t) \in Nat
  OBVIOUS
<1>2. ASSUME NEW i \in 1..Len(t) PROVE t[i].of = g /\ t[i].n = n + i
  <2>1. t[i] = [of |-> g, n |-> n + i, ch |-> x[n + i]]
    BY DEF Stretch
  <2> QED
    BY <2>1
<1>3. ASSUME NEW i \in 1..Len(t), NEW j \in 1..(i - 1) PROVE t[j].n < t[i].n
  <2>1. j \in 1..Len(t) /\ j < i /\ j \in Nat /\ i \in Nat
    BY <1>1
  <2>2. t[i].n = n + i /\ t[j].n = n + j
    BY <1>2, <2>1
  <2> QED
    BY <2>1, <2>2
<1>4. ASSUME NEW i \in 1..Len(t) PROVE t[i].n =< n + Len(t) /\ n < t[i].n
  BY <1>1, <1>2
<1> QED
  BY <1>2, <1>3, <1>4 DEF Ordered

(* A delta at its place continues the stream.                              *)
LEMMA PlacedStretch ==
  ASSUME NEW q, NEW x \in Seq(Char), NEW d \in Seq(Char), NEW g, Len(q) = Len(d),
         \A i \in 1..Len(d) : q[i] = [of |-> g, n |-> Len(x) + i, ch |-> d[i]]
  PROVE  Stretch(q, Len(x), x \o d, g)
<1> DEFINE y == x \o d
<1>1. /\ Len(x) \in Nat /\ Len(d) \in Nat
      /\ \A i \in 1..(Len(x) + Len(d)) :
           y[i] = IF i =< Len(x) THEN x[i] ELSE d[i - Len(x)]
  BY ConcatProperties, LenProperties
<1> HIDE DEF y
<1>2. ASSUME NEW i \in 1..Len(d) PROVE y[Len(x) + i] = d[i]
  <2>1. /\ Len(x) + i \in 1..(Len(x) + Len(d))
        /\ ~(Len(x) + i =< Len(x)) /\ (Len(x) + i) - Len(x) = i
    BY <1>1
  <2> QED
    BY <1>1, <2>1
<1>3. Stretch(q, Len(x), y, g)
  BY <1>2 DEF Stretch
<1> QED
  BY <1>3 DEF y

(* Stream x has grown to y.                                                *)
Extends(y, x) ==
  /\ \A i \in 1..Len(x) : y[i] = x[i]
  /\ Repeats(x) => Repeats(y)

(* A stretch of a stream is one of what the stream grows to.               *)
LEMMA StretchOn ==
  ASSUME NEW u \in Seq(Letter), NEW n \in Nat, NEW x \in Seq(Char), NEW y, NEW g,
         n + Len(u) =< Len(x), Stretch(u, n, x, g), Extends(y, x)
  PROVE  Stretch(u, n, y, g)
<1>1. Len(u) \in Nat /\ Len(x) \in Nat
  OBVIOUS
<1>2. ASSUME NEW i \in 1..Len(u) PROVE y[n + i] = x[n + i]
  <2>1. n + i \in 1..Len(x)
    BY <1>1
  <2> QED
    BY <2>1 DEF Extends
<1> QED
  BY <1>2 DEF Stretch

(* New letters q at the end of a stream are merged into the buffer.        *)
LEMMA BufferGrows ==
  ASSUME NEW s \in Seq(Letter), NEW t \in Seq(Letter), NEW q \in Seq(Letter),
         NEW x \in Seq(Char), NEW y \in Seq(Char), NEW g, Holds(s, t, x, g),
         Len(y) = Len(x) + Len(q), Extends(y, x), Stretch(q, Len(x), y, g)
  PROVE  Holds(s, Merge(t, q), y, g)
<1>1. /\ Len(x) \in Nat /\ Len(q) \in Nat /\ Len(s) \in Nat /\ Len(t) \in Nat
      /\ Len(y) \in Nat
  OBVIOUS
<1>m. PICK m : m = Len(x) - Len(t)
  OBVIOUS
<1>2. /\ Ordered(s, g) /\ Len(t) =< Len(x) /\ Stretch(t, m, x, g)
      /\ \A i \in 1..Len(s) : s[i].n =< m
      /\ Repeats(x) \/ (Len(s) + Len(t) = Len(x) /\ Stretch(s, 0, x, g))
  BY <1>m DEF Holds
<1>3. m \in Nat /\ m + Len(t) = Len(x)
  BY <1>1, <1>2, <1>m
<1>4. \A i \in 1..Len(s) : s[i].n \in Nat
  <2>1. \A i \in 1..Len(s) : s[i] \in Letter
    OBVIOUS
  <2> QED
    BY <2>1 DEF Letter
<1>5. Stretch(t, m, y, g)
  <2>1. m + Len(t) =< Len(x)
    BY <1>1, <1>3
  <2> QED
    BY <1>2, <1>3, <2>1, StretchOn
<1>6. Repeats(y) \/ (Len(s) + Len(t) = Len(x) /\ Stretch(s, 0, y, g))
  <2>1. CASE Repeats(x)
    BY <2>1 DEF Extends
  <2>2. CASE Len(s) + Len(t) = Len(x) /\ Stretch(s, 0, x, g)
    <3>1. 0 + Len(s) =< Len(x) /\ 0 \in Nat
      BY <1>1, <2>2
    <3> QED
      BY <2>2, <3>1, StretchOn
  <2> QED
    BY <1>2, <2>1, <2>2
<1>7. CASE t # <<>> /\ StartsWith(q, t)
  <2>1. Merge(t, q) = q
    BY <1>7 DEF Merge
  <2>2. Repeats(y)
    <3>1. (m + Len(t)) + Len(q) = Len(y)
      BY <1>3, Zenon
    <3>2. m + Len(t) + Len(q) =< Len(y)
      BY <1>1, <3>1
    <3>3. Stretch(q, m + Len(t), y, g)
      BY <1>3, Zenon
    <3> QED
      BY <1>3, <1>5, <1>7, <3>2, <3>3, StretchRepeats
  <2>3. Len(q) =< Len(y) /\ Len(y) - Len(q) = Len(x)
    BY <1>1
  <2>4. \A i \in 1..Len(s) : s[i].n =< Len(x)
    BY <1>1, <1>2, <1>3, <1>4
  <2> QED
    BY <1>2, <2>1, <2>2, <2>3, <2>4 DEF Holds
<1>8. CASE ~(t # <<>> /\ StartsWith(q, t))
  <2>1. PICK u : u = Merge(t, q)
    OBVIOUS
  <2>2. u = t \o q
    BY <1>8, <2>1 DEF Merge
  <2>3. u \in Seq(Letter) /\ Len(u) = Len(t) + Len(q)
    BY <2>2
  <2>4. Stretch(u, m, y, g)
    BY <1>3, <1>5, <2>2, StretchJoins
  <2>5. Len(u) =< Len(y) /\ Len(y) - Len(u) = m
    <3>1. Len(u) \in Nat /\ Len(y) = Len(x) + Len(q)
      BY <2>3
    <3>2. Len(u) =< Len(y)
      BY <1>1, <1>2, <2>3, <3>1
    <3>3. Len(y) - Len(u) = Len(x) - Len(t)
      BY <1>1, <2>3, <3>1
    <3> QED
      BY <1>m, <3>2, <3>3
  <2>6. Len(s) + Len(t) = Len(x) => Len(s) + Len(u) = Len(y)
    BY <1>1, <2>3
  <2>7. Holds(s, u, y, g)
    BY <1>2, <1>6, <2>4, <2>5, <2>6 DEF Holds
  <2> QED
    BY <2>1, <2>7
<1> QED
  BY <1>7, <1>8

(* A delta d arrives as the letters q and is merged into the buffer.       *)
LEMMA BufferMerges ==
  ASSUME NEW s \in Seq(Letter), NEW t \in Seq(Letter), NEW q \in Seq(Letter),
         NEW x \in Seq(Char), NEW d \in Seq(Char), NEW g, Holds(s, t, x, g),
         Len(q) = Len(d), Stretch(q, Len(x), x \o d, g)
  PROVE  Holds(s, Merge(t, q), x \o d, g)
<1>1. /\ x \o d \in Seq(Char) /\ Len(x \o d) = Len(x) + Len(q)
      /\ \A i \in 1..Len(x) : (x \o d)[i] = x[i]
  OBVIOUS
<1>2. Extends(x \o d, x)
  BY <1>1, RepeatsOn DEF Extends
<1> QED
  BY <1>1, <1>2, BufferGrows

(* The buffer is merged into the message.                                  *)
LEMMA MessageMerges ==
  ASSUME NEW s \in Seq(Letter), NEW t \in Seq(Letter), NEW x \in Seq(Char), NEW g,
         Holds(s, t, x, g)
  PROVE  Holds(Merge(s, t), <<>>, x, g)
<1> DEFINE m == Len(x) - Len(t)
           e == <<>>
<1>1. /\ Len(x) \in Nat /\ Len(s) \in Nat /\ Len(t) \in Nat /\ Len(e) = 0
  OBVIOUS
<1>2. /\ Ordered(s, g) /\ Len(t) =< Len(x) /\ Stretch(t, m, x, g)
      /\ \A i \in 1..Len(s) : s[i].n =< m
      /\ Repeats(x) \/ (Len(s) + Len(t) = Len(x) /\ Stretch(s, 0, x, g))
  BY DEF Holds
<1>3. m \in Nat /\ m + Len(t) = Len(x)
  BY <1>1, <1>2
<1>4. \A i \in 1..Len(s) : s[i].n \in Nat
  <2>1. \A i \in 1..Len(s) : s[i] \in Letter
    OBVIOUS
  <2> QED
    BY <2>1 DEF Letter
<1> HIDE DEF m
<1>5. Ordered(t, g) /\ \A i \in 1..Len(t) : t[i].n =< Len(x) /\ m < t[i].n
  BY <1>2, <1>3, StretchOrdered
<1>6. Len(e) =< Len(x) /\ Len(x) - Len(e) = Len(x) /\ Stretch(e, Len(x), x, g)
  BY <1>1 DEF Stretch
<1>7. ASSUME NEW u \in Seq(Letter), Ordered(u, g), \A i \in 1..Len(u) : u[i].n =< Len(x),
             Repeats(x) \/ (Len(u) = Len(x) /\ Stretch(u, 0, x, g))
      PROVE  Holds(u, e, x, g)
  <2>1. Len(u) + Len(e) = Len(u)
    <3>1. Len(u) \in Nat
      OBVIOUS
    <3> QED
      BY <1>1, <3>1
  <2> HIDE DEF e
  <2> QED
    BY <1>6, <1>7, <2>1 DEF Holds
<1> HIDE DEF e
<1>8. CASE s # <<>> /\ StartsWith(t, s)
  <2>1. Merge(s, t) = t
    BY <1>8 DEF Merge
  <2>2. Repeats(x)
    <3>1. SUFFICES ASSUME Len(s) + Len(t) = Len(x), Stretch(s, 0, x, g)
                   PROVE  Repeats(x)
      BY <1>2
    <3>2. 0 + Len(s) = m /\ 0 + Len(s) + Len(t) =< Len(x) /\ 0 \in Nat
      BY <1>1, <1>3, <3>1
    <3> QED
      BY <1>2, <1>8, <3>1, <3>2, StretchRepeats
  <2> QED
    BY <1>5, <1>7, <2>1, <2>2 DEF e
<1>9. CASE ~(s # <<>> /\ StartsWith(t, s))
  <2> DEFINE u == s \o t
  <2>1. Merge(s, t) = u
    BY <1>9 DEF Merge
  <2>2. /\ Len(u) = Len(s) + Len(t) /\ u \in Seq(Letter)
        /\ \A i \in 1..(Len(s) + Len(t)) :
             u[i] = IF i =< Len(s) THEN s[i] ELSE t[i - Len(s)]
    BY ConcatProperties, LenProperties
  <2>3. Stretch(s, 0, x, g) /\ Len(s) + Len(t) = Len(x) => Stretch(u, 0, x, g)
    <3> SUFFICES ASSUME Stretch(s, 0, x, g), Len(s) + Len(t) = Len(x)
                 PROVE  Stretch(u, 0, x, g)
      OBVIOUS
    <3>1. 0 + Len(s) = m
      BY <1>1, <1>3
    <3> QED
      BY <1>2, <3>1, StretchJoins
  <2> HIDE DEF u
  <2>4. \A i \in 1..Len(u) :
          \/ i \in 1..Len(s) /\ u[i] = s[i]
          \/ i - Len(s) \in 1..Len(t) /\ u[i] = t[i - Len(s)] /\ ~(i =< Len(s))
    BY <1>1, <2>2
  <2>5. \A i \in 1..Len(u) : u[i].n =< Len(x)
    BY <1>1, <1>2, <1>3, <1>4, <1>5, <2>4
  <2>6. Ordered(u, g)
    <3>1. ASSUME NEW i \in 1..Len(u) PROVE u[i].of = g
      BY <1>2, <1>5, <2>4 DEF Ordered
    <3>2. ASSUME NEW i \in 1..Len(u), NEW j \in 1..(i - 1) PROVE u[j].n < u[i].n
      <4>1. j \in 1..Len(u) /\ j < i
        BY <1>1, <2>2
      <4>2. CASE i \in 1..Len(s) /\ u[i] = s[i]
        <5>1. j \in 1..Len(s) /\ u[j] = s[j]
          BY <1>1, <2>4, <4>1, <4>2
        <5> QED
          BY <1>2, <4>2, <5>1 DEF Ordered
      <4>3. CASE i - Len(s) \in 1..Len(t) /\ u[i] = t[i - Len(s)] /\ ~(i =< Len(s))
        <5>1. CASE j \in 1..Len(s) /\ u[j] = s[j]
          <6>1. u[j].n =< m /\ m < u[i].n /\ u[j].n \in Nat
            BY <1>2, <1>4, <1>5, <4>3, <5>1
          <6>2. u[i].n \in Nat
            <7>1. u[i] \in Letter
              BY <2>2
            <7> QED
              BY <7>1 DEF Letter
          <6> QED
            BY <1>3, <6>1, <6>2
        <5>2. CASE j - Len(s) \in 1..Len(t) /\ u[j] = t[j - Len(s)]
          <6>1. j - Len(s) \in 1..((i - Len(s)) - 1)
            BY <1>1, <4>1, <4>3, <5>2
          <6> QED
            BY <1>5, <4>3, <5>2, <6>1 DEF Ordered
        <5> QED
          BY <2>4, <4>1, <5>1, <5>2
      <4> QED
        BY <2>4, <4>2, <4>3
    <3> QED
      BY <3>1, <3>2 DEF Ordered
  <2>7. Repeats(x) \/ (Len(u) = Len(x) /\ Stretch(u, 0, x, g))
    BY <1>2, <2>2, <2>3
  <2> QED
    BY <1>7, <2>1, <2>2, <2>5, <2>6, <2>7 DEF e
<1> QED
  BY <1>8, <1>9


(* It makes a message of a message.                                        *)
LEMMA RunTyped ==
  ASSUME NEW u \in Updater, NEW m \in Message, NEW g
  PROVE  Run(u, m, g) \in Message
<1>1. /\ u.kind \in {"replace", "flush", "complete", "finish", "answer", "error"}
      /\ u.gen \in 0..MaxGen /\ u.text \in Seq(Letter)
  BY PlaygroundChatAssumption DEF Updater, Gen
<1>2. Merge(m.text, u.text) \in Seq(Letter)
  BY <1>1, MergeTyped DEF Message
<1>3. CASE u.kind = "replace"
  <2>1. Run(u, m, g) = [owner |-> u.gen, text |-> <<>>, status |-> "loading"]
    BY <1>3 DEF Run
  <2> QED
    BY <1>1, <2>1 DEF Message, Status
<1>4. CASE u.kind # "replace" /\ u.gen # g
  BY <1>4 DEF Run
<1>5. CASE u.kind = "flush" /\ u.gen = g
  <2>1. \/ Run(u, m, g) = m
        \/ Run(u, m, g) = [m EXCEPT !.text = Merge(@, u.text), !.status = "streaming"]
    BY <1>5 DEF Run
  <2> QED
    BY <1>2, <2>1 DEF Message, Status
<1>6. CASE u.kind \in {"complete", "finish", "answer", "error"} /\ u.gen = g
  <2>1. \/ Run(u, m, g) = m
        \/ Run(u, m, g) = [m EXCEPT !.status = "complete"]
        \/ Run(u, m, g) = [m EXCEPT !.status = "error"]
    BY <1>6 DEF Run
  <2> QED
    BY <2>1 DEF Message, Status
<1> QED
  BY <1>1, <1>3, <1>4, <1>5, <1>6

Msg(o, c, s) == [owner |-> o, text |-> c, status |-> s]

(* The updaters of a request under way find a message that is pending.     *)
LEMMA RunPending ==
  ASSUME NEW m \in Message, NEW g, NEW c, isPending(m)
  PROVE  /\ Run(Up("flush", g, c), m, g) = Msg(m.owner, Merge(m.text, c), "streaming")
         /\ Run(Up("complete", g, c), m, g) = Msg(m.owner, m.text, "complete")
         /\ Run(Up("finish", g, c), m, g) = Msg(m.owner, m.text, "complete")
         /\ Run(Up("answer", g, c), m, g) = Msg(m.owner, m.text, "complete")
         /\ Run(Up("error", g, c), m, g) = Msg(m.owner, m.text, "error")
<1> USE DEF Run, Up, isPending, isFinal
<1>1. m.status # "error" /\ m.status # "complete"
  OBVIOUS
<1>2. ASSUME NEW t
      PROVE  [m EXCEPT !.text = t, !.status = "streaming"]
               = Msg(m.owner, t, "streaming")
  <2>1. [m EXCEPT !.text = t, !.status = "streaming"]
          = [[m EXCEPT !.text = t] EXCEPT !.status = "streaming"]
    OBVIOUS
  <2>2. [m EXCEPT !.text = t] = Msg(m.owner, t, m.status)
    BY DEF Msg, Message
  <2>3. [[m EXCEPT !.text = t] EXCEPT !.status = "streaming"]
          = [Msg(m.owner, t, m.status) EXCEPT !.status = "streaming"]
    BY <2>2
  <2>4. [Msg(m.owner, t, m.status) EXCEPT !.status = "streaming"]
          = Msg(m.owner, t, "streaming")
    BY DEF Msg
  <2> QED
    BY <2>1, <2>3, <2>4
<1>3. ASSUME NEW s PROVE [m EXCEPT !.status = s] = Msg(m.owner, m.text, s)
  BY DEF Msg, Message
<1>4. Run(Up("flush", g, c), m, g)
        = [m EXCEPT !.text = Merge(@, c), !.status = "streaming"]
  BY <1>1
<1>5. Run(Up("complete", g, c), m, g) = [m EXCEPT !.status = "complete"]
  BY <1>1
<1>6. Run(Up("finish", g, c), m, g) = [m EXCEPT !.status = "complete"]
  BY <1>1
<1>7. Run(Up("answer", g, c), m, g) = [m EXCEPT !.status = "complete"]
  BY <1>1
<1>8. Run(Up("error", g, c), m, g) = [m EXCEPT !.status = "error"]
  BY <1>1
<1> HIDE DEF Run, Up, isPending, isFinal
<1>9. Run(Up("flush", g, c), m, g) = Msg(m.owner, Merge(m.text, c), "streaming")
  BY <1>2, <1>4, Zenon
<1> QED
  BY <1>3, <1>5, <1>6, <1>7, <1>8, <1>9

(* A new request begins a new message; one that is not pending is not      *)
(* finished again.                                                         *)
LEMMA RunOther ==
  ASSUME NEW m, NEW g, NEW h, NEW c
  PROVE  /\ Run(Up("replace", h, c), m, g)
              = Msg(h, <<>>, "loading")
         /\ ~isPending(m) => Run(Up("finish", g, c), m, g) = m
BY DEF Run, Up, Msg

(* Up makes updaters.                                                      *)
LEMMA UpTyped ==
  ASSUME NEW g \in Gen, NEW c \in Seq(Letter),
         NEW k \in {"replace", "flush", "complete", "finish", "answer", "error"}
  PROVE  Up(k, g, c) \in Updater /\ Up(k, g, c).kind = k /\ Up(k, g, c).gen = g
BY DEF Up, Updater

(* So does one that carries no text.                                       *)
LEMMA UpEmpty ==
  ASSUME NEW g \in Gen,
         NEW k \in {"replace", "complete", "finish", "answer", "error"}
  PROVE  /\ Up(k, g, <<>>) \in Updater
         /\ Up(k, g, <<>>).kind = k /\ Up(k, g, <<>>).gen = g
<1>1. <<>> \in Seq(Letter)
  OBVIOUS
<1> QED
  BY <1>1 DEF Up, Updater

-----------------------------------------------------------------------------
(* What a handler's updaters do to what will be shown.                     *)

Waits == Up("flush", gen, pending.text)

(* What will be shown once the buffer is flushed.                          *)
Flushing == IF Flush = <<>> THEN Shown ELSE Run(Waits, Shown, gen)

(* One updater: it is queued, or it runs at once on a message that is up   *)
(* to date.                                                                *)
LEMMA UpdateOne ==
  ASSUME TypeOK, QueueInv, NEW u \in Updater, Update(<<u>>)
  PROVE  /\ dirty' = TRUE
         /\ \/ message' = message /\ queue' = Append(queue, u)
            \/ /\ ~dirty /\ u.kind \in {"flush", "answer"} /\ message = Shown
               /\ message' = Run(u, message, gen) /\ queue' = <<>>
<1>1. queue \o <<u>> = Append(queue, u) /\ Tail(<<u>>) = <<>> /\ <<u>>[1] = u
  BY DEF TypeOK
<1>2. ~dirty => message = Shown
  BY RunNone DEF QueueInv, Shown
<1> QED
  BY <1>1, <1>2 DEF Update

(* Two updaters one after the other.                                       *)
LEMMA TwoUpdaters ==
  ASSUME NEW a, NEW b, NEW s, s = <<a>> \o <<b>>
  PROVE  s # <<>> /\ s[1] = a /\ Tail(s) = Append(<<>>, b)
<1> DEFINE S == {a, b}
<1>1. <<a>> \in Seq(S) /\ <<b>> \in Seq(S) /\ Tail(<<a>>) = <<>> /\ <<a>> # <<>>
  OBVIOUS
<1>2. <<a>> \o <<b>> = Append(<<a>>, b)
  BY <1>1, AppendIsConcat
<1>3. Append(<<a>>, b) # <<>> /\ Append(<<a>>, b)[1] = a
  BY <1>1
<1>4. Tail(Append(<<a>>, b)) = Append(<<>>, b)
  BY <1>1, HeadTailAppend
<1> QED
  BY <1>2, <1>3, <1>4, Zenon

(* The queue takes both.                                                   *)
LEMMA TwoQueued ==
  ASSUME NEW S, NEW q \in Seq(S), NEW a \in S, NEW b \in S,
         NEW s, s = <<a>> \o <<b>>
  PROVE  q \o s = Append(Append(q, a), b)
<1>1. <<a>> \in Seq(S) /\ <<b>> \in Seq(S)
  OBVIOUS
<1>2. q \o (<<a>> \o <<b>>) = (q \o <<a>>) \o <<b>>
  BY <1>1, ConcatAssociative
<1>3. q \o <<a>> = Append(q, a) /\ Append(q, a) \in Seq(S)
  OBVIOUS
<1>4. Append(q, a) \o <<b>> = Append(Append(q, a), b)
  BY <1>3, AppendIsConcat
<1> QED
  BY <1>2, <1>3, <1>4, Zenon

(* A flush, if there is something to flush, and another updater.           *)
LEMMA UpdateTwo ==
  ASSUME TypeOK, QueueInv, NEW v \in Updater, v.kind \notin {"flush", "answer"},
         Update(Flush \o <<v>>)
  PROVE  /\ dirty' = TRUE
         /\ \/ Flush = <<>> /\ message' = message /\ queue' = Append(queue, v)
            \/ /\ Flush # <<>> /\ message' = message
               /\ queue' = Append(Append(queue, Waits), v)
            \/ /\ Flush # <<>> /\ ~dirty /\ message = Shown
               /\ message' = Run(Waits, message, gen)
               /\ queue' = Append(<<>>, v)
<1>1. queue \in Seq(Updater)
  BY DEF TypeOK
<1>2. ~dirty => message = Shown
  BY RunNone DEF QueueInv, Shown
<1>3. CASE Flush = <<>>
  <2>1. Flush \o <<v>> = <<v>>
    BY <1>3
  <2> QED
    BY <1>3, <2>1, UpdateOne
<1>4. CASE Flush # <<>>
  <2>1. Flush = <<Waits>>
    BY <1>4 DEF Flush, Waits
  <2> DEFINE S == Updater \cup {Waits}
             us == Flush \o <<v>>
  <2>2. queue \in Seq(S) /\ Waits \in S /\ v \in S
    BY <1>1, SeqMonotonic
  <2> HIDE DEF S
  <2>3. /\ us # <<>> /\ us[1] = Waits /\ Tail(us) = Append(<<>>, v)
        /\ queue \o us = Append(Append(queue, Waits), v)
    <3>1. us = <<Waits>> \o <<v>>
      BY <2>1, Zenon
    <3> HIDE DEF us
    <3>2. us # <<>> /\ us[1] = Waits /\ Tail(us) = Append(<<>>, v)
      BY <3>1, TwoUpdaters, Zenon
    <3>3. queue \o us = Append(Append(queue, Waits), v)
      BY <2>2, <3>1, TwoQueued, SMT
    <3> QED
      BY <3>2, <3>3
  <2> QED
    BY <1>2, <1>4, <2>1, <2>3, Zenon DEF Update
<1> QED
  BY <1>3, <1>4

-----------------------------------------------------------------------------
(* Parts that several actions share.                                       *)

Request == [pc : RequestPc, text : Seq(Char), stopped : BOOLEAN]

(* Requests only go on: what is stopped stays so, what is done keeps its   *)
(* text.                                                                   *)
Onward(r, s) ==
  \A x \in Gen : /\ r[x].stopped => s[x].stopped
                 /\ r[x].pc = "done" => s[x].pc = "done" /\ s[x].text = r[x].text

(* A message that was right stays so.                                      *)
LEMMA SoundKept ==
  ASSUME NEW m \in Message, NEW g \in Nat, NEW h \in Nat, g =< h,
         NEW r, NEW s, Onward(r, s), Sound(m, g, r)
  PROVE  Sound(m, h, s)
<1>1. m.owner \in 0..MaxGen /\ (m.owner # 0 => m.owner \in Gen)
  BY PlaygroundChatAssumption DEF Message, Gen
<1>2. m.owner =< h
  BY <1>1 DEF Sound
<1>3. m.status = "complete" => m.owner \in Gen
  BY <1>1 DEF Sound
<1>4. m.status = "complete"
        => \/ s[m.owner].stopped
           \/ s[m.owner].pc = "done" /\ Full(m.text, s[m.owner].text)
  BY <1>3 DEF Sound, Onward
<1> QED
  BY <1>2, <1>4 DEF Sound

(* One request that is not done moves on.                                  *)
LEMMA RequestMoves ==
  ASSUME request \in [Gen -> Request], NEW g \in Gen, NEW p \in RequestPc,
         request' = [request EXCEPT ![g].pc = p], request[g].pc # "done"
  PROVE  /\ request' \in [Gen -> Request] /\ Onward(request, request')
         /\ request'[g].pc = p /\ request'[g].text = request[g].text
         /\ \A x \in Gen : x # g => request'[x] = request[x]
<1>1. \A x \in Gen : request[x] \in Request
  OBVIOUS
<1>2. request'[g] = [request[g] EXCEPT !.pc = p]
  OBVIOUS
<1>3. request'[g] \in Request /\ request'[g].stopped = request[g].stopped
  BY <1>1, <1>2 DEF Request
<1>4. /\ request'[g].pc = p /\ request'[g].text = request[g].text
      /\ \A x \in Gen : x # g => request'[x] = request[x]
  BY <1>1, <1>2 DEF Request
<1>5. request' \in [Gen -> Request]
  BY <1>1, <1>3, <1>4
<1>6. Onward(request, request')
  BY <1>3, <1>4 DEF Onward
<1> QED
  BY <1>4, <1>5, <1>6

(* A queue of updaters of generations up to g.                             *)
Queued(q, g) == q \in Seq(Updater) /\ \A i \in 1..Len(q) : q[i].gen =< g

NoReplace(q) == \A i \in 1..Len(q) : q[i].kind # "replace"

(* It takes one more updater at its end.                                   *)
LEMMA QueueGrows ==
  ASSUME NEW q, NEW g, Queued(q, g), NEW u \in Updater, u.gen =< g
  PROVE  /\ Queued(Append(q, u), g)
         /\ NoReplace(q) /\ u.kind # "replace" => NoReplace(Append(q, u))
<1>1. q \in Seq(Updater)
  BY DEF Queued
<1>2. /\ Append(q, u) \in Seq(Updater) /\ Len(Append(q, u)) = Len(q) + 1
      /\ Append(q, u)[Len(q) + 1] = u
      /\ \A i \in 1..Len(q) : Append(q, u)[i] = q[i]
      /\ Len(q) \in Nat
  BY <1>1, AppendProperties, LenProperties
<1>3. \A i \in 1..(Len(q) + 1) : i \in 1..Len(q) \/ i = Len(q) + 1
  BY <1>2
<1> QED
  BY <1>2, <1>3 DEF Queued, NoReplace

(* The empty queue.                                                        *)
LEMMA QueueEmpty == ASSUME NEW g PROVE Queued(<<>>, g) /\ NoReplace(<<>>)
BY DEF Queued, NoReplace

(* Ranges used throughout.                                                 *)
LEMMA Ranges ==
  ASSUME ChatInv
  PROVE  /\ gen \in Nat /\ gen \in 0..MaxGen /\ (gen # 0 => gen \in Gen)
         /\ message \in Message /\ Shown \in Message
         /\ request \in [Gen -> Request]
         /\ pending \in [gen : 0..MaxGen, text : Seq(Letter)]
         /\ Queued(queue, gen) /\ (generating => NoReplace(queue))
         /\ isRequesting \in BOOLEAN /\ isStreaming \in BOOLEAN
         /\ dirty \in BOOLEAN /\ generating \in BOOLEAN /\ mounted \in BOOLEAN
<1>1. gen \in Nat /\ gen \in 0..MaxGen /\ (gen # 0 => gen \in Gen)
  BY PlaygroundChatAssumption DEF ChatInv, TypeOK, Gen
<1>2. message \in Message /\ request \in [Gen -> Request]
  BY DEF ChatInv, TypeOK, Message, Request
<1> QED
  BY <1>1, <1>2 DEF ChatInv, TypeOK, QueueInv, Queued, NoReplace

(* The buffer holds something only while the request streams.              *)
LEMMA FlushStreams == ASSUME ChatInv, Flush # <<>> PROVE Streaming
BY DEF Flush, ChatInv, PendingInv

(* While a request is under way, flushing brings everything it delivered   *)
(* into the message.                                                       *)
LEMMA FlushingOK ==
  ASSUME ChatInv, Streaming \/ Waiting
  PROVE  /\ gen \in Gen /\ pending.gen = gen /\ Waits \in Updater /\ Waits.gen = gen
         /\ Waits.kind = "flush"
         /\ Flushing \in Message /\ Flushing.owner = gen /\ isPending(Flushing)
         /\ Holds(Flushing.text, <<>>, request[gen].text, gen)
         /\ Ordered(Flushing.text, gen) /\ Full(Flushing.text, request[gen].text)
<1>1. gen \in Gen /\ Shown \in Message /\ pending.text \in Seq(Letter)
  BY Ranges DEF Streaming, Waiting
<1>2. pending.gen = gen /\ mounted
  BY DEF ChatInv, RequestInv, PendingInv
<1>3. Waits \in Updater /\ Waits.gen = gen /\ Waits.kind = "flush"
  BY <1>1, UpTyped DEF Waits
<1>4. Shown.owner = gen /\ isPending(Shown)
  BY DEF ChatInv, MessageInv
<1>5. /\ Shown.text \in Seq(Letter) /\ request[gen].text \in Seq(Char)
  <2>1. request[gen] \in Request
    BY <1>1, Ranges
  <2> QED
    BY <1>1, <2>1 DEF Message, Request
<1>7. CASE Flush = <<>>
  <2>1. Flushing = Shown
    BY <1>7 DEF Flushing
  <2>2. pending.text = <<>>
    BY <1>2, <1>7 DEF Flush
  <2>3. CASE Streaming
    <3>1. Holds(Shown.text, <<>>, request[gen].text, gen)
      BY <2>2, <2>3 DEF ChatInv, MessageInv
    <3> QED
      BY <1>1, <1>2, <1>3, <1>4, <1>5, <2>1, <3>1, HoldsFull
  <2>4. CASE Waiting
    <3>1. Shown.text = <<>> /\ request[gen].text = <<>>
      BY <1>1, <2>4 DEF Waiting, ChatInv, MessageInv, RequestInv
    <3> QED
      BY <1>1, <1>2, <1>3, <1>4, <1>5, <2>1, <3>1, HoldsNothing, HoldsFull
  <2> QED
    BY <2>3, <2>4
<1>8. CASE Flush # <<>>
  <2>1. Streaming
    BY <1>8, FlushStreams
  <2>2. Flushing = Msg(Shown.owner, Merge(Shown.text, pending.text), "streaming")
    <3>1. Flushing = Run(Up("flush", gen, pending.text), Shown, gen)
      BY <1>8, Zenon DEF Flushing, Waits
    <3> QED
      BY <1>1, <1>4, <3>1, RunPending
  <2>3. /\ Flushing.text = Merge(Shown.text, pending.text)
        /\ Flushing.owner = gen /\ Flushing.status = "streaming"
    BY <1>4, <2>2 DEF Msg
  <2>4. Flushing \in Message
    BY <1>1, <1>3, <1>8, RunTyped DEF Flushing
  <2>5. Holds(Shown.text, pending.text, request[gen].text, gen)
    BY <2>1 DEF ChatInv, MessageInv
  <2>6. Holds(Flushing.text, <<>>, request[gen].text, gen)
    BY <1>1, <1>5, <2>3, <2>5, MessageMerges
  <2>7. Ordered(Flushing.text, gen) /\ Full(Flushing.text, request[gen].text)
    <3>1. Flushing.text \in Seq(Letter)
      BY <2>4 DEF Message
    <3> QED
      BY <1>5, <2>6, <3>1, HoldsFull
  <2> QED
    BY <1>1, <1>2, <1>3, <2>3, <2>4, <2>6, <2>7 DEF isPending
<1> QED
  BY <1>7, <1>8

(* A flush and an updater v of this generation: v runs after the flush,    *)
(* whether the flush ran at once or waits in the queue.                    *)
LEMMA FlushShown ==
  ASSUME ChatInv, Streaming \/ Waiting, gen' = gen,
         NEW v \in Updater, v.kind \notin {"flush", "answer", "replace"},
         v.gen =< gen, Update(Flush \o <<v>>)
  PROVE  /\ dirty' = TRUE /\ Shown' = Run(v, Flushing, gen)
         /\ Queued(queue', gen) /\ (generating => NoReplace(queue'))
         /\ message' = message \/ (message' = Flushing /\ generating)
<1>1. /\ Queued(queue, gen) /\ (generating => NoReplace(queue))
      /\ gen \in Nat /\ TypeOK /\ QueueInv
  BY Ranges DEF ChatInv
<1>2. Waits \in Updater /\ Waits.gen =< gen /\ Waits.kind = "flush"
  BY <1>1, FlushingOK
<1>3. queue \in Seq(Updater)
  BY <1>1 DEF Queued
<1>4. dirty' = TRUE
  BY <1>1, UpdateTwo
<1>5. CASE Flush = <<>>
  <2>1. message' = message /\ queue' = Append(queue, v)
    BY <1>1, <1>5, UpdateTwo
  <2>2. Flushing = Shown
    BY <1>5 DEF Flushing
  <2>3. Shown' = Run(v, Shown, gen)
    BY <1>3, <2>1, RunAppend DEF Shown
  <2>4. Queued(queue', gen) /\ (generating => NoReplace(queue'))
    BY <1>1, <2>1, QueueGrows
  <2> QED
    BY <1>4, <2>1, <2>2, <2>3, <2>4
<1>6. CASE Flush # <<>>
  <2>1. Flushing = Run(Waits, Shown, gen)
    BY <1>6 DEF Flushing
  <2>2. CASE message' = message /\ queue' = Append(Append(queue, Waits), v)
    <3> DEFINE q == Append(queue, Waits)
    <3>1. q \in Seq(Updater)
      BY <1>2, <1>3
    <3>2. RunAll(q, message, gen) = Flushing
      BY <1>2, <1>3, <2>1, RunAppend DEF Shown
    <3>3. Queued(q, gen) /\ (generating => NoReplace(q))
      BY <1>1, <1>2, QueueGrows
    <3>4. queue' = Append(q, v)
      BY <2>2
    <3> HIDE DEF q
    <3>5. Shown' = Run(v, Flushing, gen)
      BY <2>2, <3>1, <3>2, <3>4, RunAppend DEF Shown
    <3>6. Queued(queue', gen) /\ (generating => NoReplace(queue'))
      BY <3>3, <3>4, QueueGrows
    <3> QED
      BY <1>4, <2>2, <3>5, <3>6
  <2>3. CASE ~dirty /\ message = Shown /\ message' = Run(Waits, message, gen)
             /\ queue' = Append(<<>>, v)
    <3>1. message' = Flushing
      BY <2>1, <2>3
    <3>2. <<>> \in Seq(Updater)
      OBVIOUS
    <3>3. RunAll(<<>>, message', gen) = message'
      BY RunNone
    <3>4. Shown' = Run(v, Flushing, gen)
      <4>1. Shown' = RunAll(Append(<<>>, v), message', gen)
        BY <2>3, Zenon DEF Shown
      <4>2. RunAll(Append(<<>>, v), message', gen)
              = Run(v, RunAll(<<>>, message', gen), gen)
        BY <3>2, RunAppend
      <4> QED
        BY <3>1, <3>3, <4>1, <4>2
    <3>5. Queued(queue', gen) /\ (generating => NoReplace(queue'))
      BY <2>3, QueueEmpty, QueueGrows
    <3>6. generating
      BY <2>3 DEF ChatInv, RequestInv, QueueInv
    <3> QED
      BY <1>4, <3>1, <3>4, <3>5, <3>6
  <2> QED
    BY <1>1, <1>6, <2>2, <2>3, UpdateTwo
<1> QED
  BY <1>5, <1>6

(* Flushed empties a buffer of this generation.                            *)
LEMMA FlushedPending ==
  ASSUME ChatInv, Flushed, pending.gen = gen
  PROVE  /\ timer' = 0 /\ pending' \in [gen : 0..MaxGen, text : Seq(Letter)]
         /\ pending'.gen = gen /\ pending'.text = <<>>
<1>1. pending \in [gen : 0..MaxGen, text : Seq(Letter)]
  BY Ranges
<1>2. timer' = 0 /\ pending' = [pending EXCEPT !.text = <<>>]
  BY DEF Flushed
<1>3. pending'.gen = gen /\ pending'.text = <<>>
  BY <1>1, <1>2
<1>4. pending' \in [gen : 0..MaxGen, text : Seq(Letter)]
  <2>1. <<>> \in Seq(Letter)
    OBVIOUS
  <2> QED
    BY <1>1, <1>2, <2>1
<1> QED
  BY <1>2, <1>3, <1>4

(* The request under way ends with a last updater: handleStreamComplete,   *)
(* handleStreamError.                                                      *)
LEMMA EndStep ==
  ASSUME ChatInv, Streaming \/ Waiting,
         NEW p \in {"done", "failed"}, NEW k \in {"complete", "error"},
         k = "complete" => p = "done",
         request' = [request EXCEPT ![gen].pc = p],
         Flushed, isRequesting' = FALSE, Update(Flush \o <<Up(k, gen, <<>>)>>),
         UNCHANGED <<gen, ctl, generating, mounted>>,
         source' \in {0, source}, isStreaming' \in BOOLEAN
  PROVE  ChatInv'
<1> DEFINE v == Up(k, gen, <<>>)
<1>1. /\ gen \in Gen /\ gen \in Nat /\ gen \in 0..MaxGen /\ message \in Message
      /\ request \in [Gen -> Request]
      /\ generating \in BOOLEAN /\ mounted \in BOOLEAN /\ mounted
  BY Ranges, FlushingOK DEF ChatInv, RequestInv
<1>2. v \in Updater /\ v.kind = k /\ v.gen = gen
  BY <1>1, UpEmpty
<1>3. /\ dirty' = TRUE /\ Shown' = Run(v, Flushing, gen)
      /\ Queued(queue', gen) /\ (generating => NoReplace(queue'))
      /\ message' = message \/ (message' = Flushing /\ generating)
  <2>1. v.kind \notin {"flush", "answer", "replace"} /\ v.gen =< gen /\ gen' = gen
    BY <1>1, <1>2
  <2> QED
    BY <1>2, <2>1, FlushShown
<1>4. /\ timer' = 0 /\ pending' \in [gen : 0..MaxGen, text : Seq(Letter)]
      /\ pending'.gen = gen /\ pending'.text = <<>>
  BY FlushedPending, FlushingOK
<1>5. /\ Flushing \in Message /\ Flushing.owner = gen /\ isPending(Flushing)
      /\ Holds(Flushing.text, <<>>, request[gen].text, gen)
  BY FlushingOK
<1>6. Shown' = Msg(gen, Flushing.text, k)
  BY <1>3, <1>5, RunPending
<1>7. Shown' \in Message /\ message' \in Message
  BY <1>1, <1>2, <1>3, <1>5, RunTyped
<1>8. request[gen].pc \in {"headers", "open", "silent", "xhr"}
  BY DEF Streaming, Waiting
<1>9. /\ request' \in [Gen -> Request] /\ Onward(request, request')
      /\ request'[gen].pc = p /\ request'[gen].text = request[gen].text
      /\ \A x \in Gen : x # gen => request'[x] = request[x]
  <2>1. p \in RequestPc
    BY DEF RequestPc
  <2> QED
    BY <1>1, <1>8, <2>1, RequestMoves
<1>10. ~Streaming' /\ ~Waiting'
  BY <1>9 DEF Streaming, Waiting
<1>11. TypeOK'
  BY <1>1, <1>3, <1>4, <1>7, <1>9
  DEF ChatInv, TypeOK, Message, Request, Queued
<1>12. RequestInv'
  BY <1>1, <1>9, <1>10 DEF ChatInv, RequestInv
<1>13. PendingInv'
  BY <1>1, <1>4 DEF PendingInv
<1>14. QueueInv'
  BY <1>1, <1>3 DEF QueueInv, Queued, NoReplace
<1>15. Sound(Flushing, gen, request') /\ Sound(Shown, gen, request)'
  <2>1. gen # 0
    BY <1>1 DEF Gen
  <2>2. Flushing.status \in {"loading", "streaming"}
    BY <1>5 DEF isPending
  <2>3. Shown'.owner = gen /\ Shown'.text = Flushing.text /\ Shown'.status = k
    BY <1>6 DEF Msg
  <2>4. Ordered(Flushing.text, gen) /\ Full(Flushing.text, request[gen].text)
    BY FlushingOK
  <2> QED
    BY <1>1, <1>5, <1>9, <2>1, <2>2, <2>3, <2>4 DEF Sound
<1>16. Sound(message, gen, request)'
  <2>1. Sound(message, gen, request')
    BY <1>1, <1>9, SoundKept DEF ChatInv, MessageInv
  <2> QED
    BY <1>3, <1>15, <2>1
<1>17. (mounted /\ isPending(message)
         => generating /\ (message.owner = gen \/ request[message.owner].stopped))'
  <2>1. CASE message' = message
    <3>1. isPending(message)
            => generating /\ (message.owner = gen \/ request[message.owner].stopped)
      BY <1>1 DEF ChatInv, MessageInv
    <3>2. isPending(message) => message.owner \in Gen
      BY <1>1 DEF ChatInv, MessageInv, Sound, isPending, Message, Gen
    <3> QED
      BY <1>9, <2>1, <3>1, <3>2 DEF Onward
  <2>2. CASE message' = Flushing /\ generating
    BY <1>5, <2>2
  <2> QED
    BY <1>3, <2>1, <2>2
<1>18. ~isPending(Shown)'
  BY <1>6 DEF Msg, isPending
<1>19. MessageInv'
  BY <1>10, <1>15, <1>16, <1>17, <1>18 DEF MessageInv
<1> QED
  BY <1>7, <1>11, <1>12, <1>13, <1>14, <1>19 DEF ChatInv

-----------------------------------------------------------------------------
(* Steps that leave what will be shown alone.                              *)

(* The message the user sees stays right when its request goes on.         *)
LEMMA MessageKept ==
  ASSUME ChatInv, Onward(request, request'),
         UNCHANGED <<gen, message, generating, mounted>>
  PROVE  /\ message' \in Message /\ Sound(message, gen, request)'
         /\ (mounted /\ isPending(message)
              => generating
                 /\ (message.owner = gen \/ request[message.owner].stopped))'
<1>1. gen \in Nat /\ message \in Message
  BY Ranges
<1>2. Sound(message, gen, request')
  BY <1>1, SoundKept DEF ChatInv, MessageInv
<1>3. mounted /\ isPending(message)
        => generating /\ (message.owner = gen \/ request[message.owner].stopped)
  BY DEF ChatInv, MessageInv
<1>4. isPending(message) => message.owner \in Gen
  BY <1>1 DEF ChatInv, MessageInv, Sound, isPending, Message, Gen
<1> QED
  BY <1>1, <1>2, <1>3, <1>4 DEF Onward

(* The buffer as the invariant wants it, with what will be shown.          *)
Buffered == Streaming => Holds(Shown.text, pending.text, request[gen].text, gen)

(* A step that keeps the queue, the message and the generation.            *)
LEMMA QuietStep ==
  ASSUME ChatInv,
         UNCHANGED <<gen, ctl, isRequesting, queue, message, generating, mounted>>,
         request' \in [Gen -> Request], Onward(request, request'),
         timer' \in {0, gen}, source' \in {0, ctl}, isStreaming' \in BOOLEAN,
         pending' \in [gen : 0..MaxGen, text : Seq(Letter)],
         dirty' = dirty \/ (dirty' = TRUE /\ mounted),
         Streaming' <=> Streaming, Waiting' <=> Waiting,
         RequestInv', PendingInv', Buffered'
  PROVE  ChatInv'
<1>1. /\ gen \in Nat /\ Shown \in Message /\ dirty' \in BOOLEAN
      /\ queue \in Seq(Updater)
  BY Ranges DEF Queued
<1>2. Shown' = Shown
  BY DEF Shown
<1>3. /\ message' \in Message /\ Sound(message, gen, request)'
      /\ (mounted /\ isPending(message)
           => generating
              /\ (message.owner = gen \/ request[message.owner].stopped))'
  BY MessageKept
<1>4. TypeOK'
  BY <1>1, <1>3 DEF ChatInv, TypeOK, Message, Request
<1>5. QueueInv'
  BY DEF ChatInv, QueueInv
<1>6. Sound(Shown, gen, request)'
  <2>1. Sound(Shown, gen, request')
    BY <1>1, SoundKept DEF ChatInv, MessageInv
  <2> QED
    BY <1>2, <2>1
<1>7. (mounted /\ isPending(Shown) => Streaming \/ Waiting)'
  BY <1>2 DEF ChatInv, MessageInv
<1>8. (Streaming \/ Waiting => Shown.owner = gen /\ isPending(Shown))'
  BY <1>2 DEF ChatInv, MessageInv
<1>9. (Waiting => Shown.text = <<>>)'
  BY <1>2 DEF ChatInv, MessageInv
<1>10. MessageInv'
  BY <1>3, <1>6, <1>7, <1>8, <1>9 DEF MessageInv, Buffered
<1> QED
  BY <1>1, <1>2, <1>4, <1>5, <1>10 DEF ChatInv

(* The stuttering step.                                                    *)
LEMMA ChatStutter == ASSUME ChatInv, UNCHANGED vars PROVE ChatInv'
BY DEF vars, ChatInv, TypeOK, Shown, RequestInv, PendingInv, QueueInv, MessageInv,
       Streaming, Waiting

(* A request that is not under way comes to an end nobody looks at, or the *)
(* one under way breaks off without a word.                                *)
LEMMA RequestMovesQuietly ==
  ASSUME ChatInv, NEW g \in Gen, NEW p \in RequestPc \ {"xhr"},
         request' = [request EXCEPT ![g].pc = p],
         request[g].pc \in {"headers", "open", "xhr"},
         p \in {"none", "headers"} => request[g].pc \in {"none", "headers", "xhr"},
         UNCHANGED <<gen, ctl, isRequesting, queue, message, generating, mounted,
                     timer, pending, source, isStreaming, dirty>>,
         \/ gen # g
         \/ ctl # g /\ request[g].pc # "xhr"
         \/ p = "silent" /\ request[g].pc = "open"
  PROVE  ChatInv'
<1>1. /\ gen \in Nat /\ request \in [Gen -> Request] /\ (gen # 0 => gen \in Gen)
      /\ pending \in [gen : 0..MaxGen, text : Seq(Letter)] /\ isStreaming \in BOOLEAN
      /\ g # 0
  BY Ranges DEF Gen
<1>2. /\ request' \in [Gen -> Request] /\ Onward(request, request')
      /\ request'[g].pc = p /\ request'[g].text = request[g].text
      /\ \A x \in Gen : x # g => request'[x] = request[x]
  BY <1>1, RequestMoves
<1>3. g =< gen
  BY <1>1 DEF ChatInv, RequestInv, Gen
<1>4. (Streaming' <=> Streaming) /\ (Waiting' <=> Waiting)
  BY <1>1, <1>2 DEF Streaming, Waiting
<1>5. RequestInv'
  <2>1. \A x \in Gen :
          request'[x].pc \in {"none", "headers", "xhr"} => request'[x].text = <<>>
    BY <1>2 DEF ChatInv, RequestInv
  <2>2. \A x \in Gen : x > gen => request'[x].pc = "none"
    BY <1>1, <1>2, <1>3 DEF ChatInv, RequestInv, Gen
  <2>3. Streaming' /\ request'[gen].pc = "open" => source = gen
    <3>1. CASE gen # g
      BY <1>1, <1>2, <1>4, <3>1 DEF ChatInv, RequestInv, Streaming
    <3>2. CASE gen = g /\ ctl # g
      BY <1>4, <3>2 DEF Streaming
    <3>3. CASE gen = g /\ p = "silent"
      BY <1>2, <3>3
    <3> QED
      BY <3>1, <3>2, <3>3
  <2> QED
    BY <1>4, <2>1, <2>2, <2>3 DEF ChatInv, RequestInv
<1>6. PendingInv'
  BY <1>4 DEF ChatInv, PendingInv
<1>7. Buffered'
  <2>1. Shown' = Shown
    BY DEF Shown
  <2>2. gen # 0 => request'[gen].text = request[gen].text
    BY <1>1, <1>2
  <2>3. Streaming => gen # 0
    BY DEF Streaming
  <2> QED
    BY <1>4, <2>1, <2>2, <2>3 DEF ChatInv, MessageInv, Buffered
<1>8. timer \in {0, gen} /\ source \in {0, ctl}
  BY DEF ChatInv, TypeOK
<1> QED
  BY <1>1, <1>2, <1>4, <1>5, <1>6, <1>7, <1>8, QuietStep

(* The headers of the request under way arrive: the stream is open.        *)
LEMMA StreamOpens ==
  ASSUME ChatInv, NEW g \in Gen, HeadersReady(g), ctl = g
  PROVE  ChatInv'
<1>1. /\ gen \in Nat /\ request \in [Gen -> Request]
      /\ pending \in [gen : 0..MaxGen, text : Seq(Letter)]
  BY Ranges
<1>2. g = gen /\ gen # 0 /\ gen \in Gen
  BY DEF ChatInv, RequestInv, Gen
<1>3. /\ request[gen].pc = "headers" /\ request' = [request EXCEPT ![gen].pc = "open"]
      /\ source' = gen /\ isStreaming' = TRUE /\ dirty' = TRUE
      /\ UNCHANGED <<gen, pending, timer, ctl, isRequesting, queue, message,
                     generating, mounted>>
  BY <1>2 DEF HeadersReady
<1>4. /\ request' \in [Gen -> Request] /\ Onward(request, request')
      /\ request'[gen].pc = "open" /\ request'[gen].text = request[gen].text
      /\ \A x \in Gen : x # gen => request'[x] = request[x]
  <2>1. "open" \in RequestPc
    BY DEF RequestPc
  <2> QED
    BY <1>1, <1>2, <1>3, <2>1, RequestMoves
<1>5. Streaming /\ Streaming' /\ ~Waiting /\ ~Waiting'
  BY <1>2, <1>3, <1>4 DEF Streaming, Waiting
<1>6. isRequesting /\ mounted
  BY <1>5 DEF ChatInv, RequestInv
<1>7. RequestInv'
  BY <1>2, <1>3, <1>4, <1>6 DEF ChatInv, RequestInv, Gen
<1>8. PendingInv'
  BY <1>3, <1>5, <1>6 DEF ChatInv, PendingInv
<1>9. Buffered'
  <2>1. Shown' = Shown
    BY <1>3 DEF Shown
  <2> QED
    BY <1>3, <1>4, <1>5, <2>1 DEF ChatInv, MessageInv, Buffered
<1>10. timer' \in {0, gen} /\ source' \in {0, ctl}
  BY <1>2, <1>3 DEF ChatInv, TypeOK
<1> QED
  BY <1>1, <1>3, <1>4, <1>5, <1>6, <1>7, <1>8, <1>9, <1>10, QuietStep

(* The headers of a request that was given up: nothing comes of it.        *)
LEMMA HeadersStep ==
  ASSUME ChatInv, NEW g \in Gen, HeadersReady(g)
  PROVE  ChatInv'
<1>1. CASE ctl = g
  BY <1>1, StreamOpens
<1>2. CASE ctl # g
  <2>1. "none" \in RequestPc \ {"xhr"} /\ request[g].pc = "headers"
    BY DEF RequestPc, HeadersReady
  <2>2. /\ request' = [request EXCEPT ![g].pc = "none"]
        /\ UNCHANGED <<gen, ctl, isRequesting, queue, message, generating, mounted,
                       timer, pending, source, isStreaming, dirty>>
    BY <1>2 DEF HeadersReady
  <2> QED
    BY <1>2, <2>1, <2>2, RequestMovesQuietly
<1> QED
  BY <1>1, <1>2

(* A delta arrives: if its request is under way, it is merged into the     *)
(* buffer.                                                                 *)
LEMMA DeltaStep ==
  ASSUME ChatInv, NEW g \in Gen, NEW d \in Delta, handleStreamUpdate(g, d)
  PROVE  ChatInv'
<1>1. /\ gen \in Nat /\ request \in [Gen -> Request] /\ (gen # 0 => gen \in Gen)
      /\ pending \in [gen : 0..MaxGen, text : Seq(Letter)] /\ isStreaming \in BOOLEAN
      /\ Shown \in Message /\ g # 0 /\ d \in Seq(Char) /\ d # <<>>
  BY Ranges, PlaygroundChatAssumption DEF Gen
<1> DEFINE x == request[g].text
           y == x \o d
           q == Placed(d, g)
<1>2. /\ request[g].pc = "open" /\ request' = [request EXCEPT ![g].text = y]
      /\ UNCHANGED <<gen, ctl, source, isRequesting, isStreaming, queue, dirty,
                     message, generating, mounted>>
  BY DEF handleStreamUpdate
<1>3. request[g] \in Request /\ x \in Seq(Char)
  BY <1>1 DEF Request
<1>4. y \in Seq(Char)
  BY <1>1, <1>3
<1>5. /\ q \in Seq(Letter) /\ Len(q) = Len(d)
      /\ \A i \in 1..Len(d) : q[i] = [of |-> g, n |-> Len(x) + i, ch |-> d[i]]
  <2>1. Len(d) \in Nat /\ Len(x) \in Nat /\ \A i \in 1..Len(d) : d[i] \in Char
    BY <1>1, <1>3
  <2>2. q = [i \in 1..Len(d) |-> [of |-> g, n |-> Len(x) + i, ch |-> d[i]]]
    BY DEF Placed
  <2> HIDE DEF q, x
  <2>3. ASSUME NEW i \in 1..Len(d)
        PROVE  [of |-> g, n |-> Len(x) + i, ch |-> d[i]] \in Letter
    BY <2>1 DEF Letter
  <2>4. q \in [1..Len(d) -> Letter]
    BY <2>2, <2>3
  <2>5. q \in Seq(Letter) /\ Len(q) = Len(d)
    BY <2>1, <2>4
  <2> QED
    BY <2>2, <2>5
<1> HIDE DEF x, y, q
<1>6. /\ request' \in [Gen -> Request]
      /\ request'[g].pc = "open" /\ request'[g].text = y
      /\ request'[g].stopped = request[g].stopped
      /\ \A z \in Gen : z # g => request'[z] = request[z]
  <2>1. /\ request'[g] = [request[g] EXCEPT !.text = y]
        /\ \A z \in Gen : z # g => request'[z] = request[z]
    BY <1>1, <1>2
  <2>2. /\ request'[g] \in Request /\ request'[g].pc = "open"
        /\ request'[g].text = y
        /\ request'[g].stopped = request[g].stopped
    BY <1>2, <1>3, <1>4, <2>1 DEF Request
  <2>3. request' \in [Gen -> Request]
    BY <1>1, <1>2, <2>1, <2>2
  <2> QED
    BY <2>1, <2>2, <2>3
<1>7. Onward(request, request')
  BY <1>2, <1>6 DEF Onward
<1>8. (Streaming' <=> Streaming) /\ (Waiting' <=> Waiting)
  BY <1>1, <1>2, <1>6 DEF Streaming, Waiting
<1>9. RequestInv'
  <2>1. \A z \in Gen : request'[z].pc = request[z].pc
    BY <1>2, <1>6
  <2>2. \A z \in Gen :
          request'[z].pc \in {"none", "headers", "xhr"} => request'[z].text = <<>>
    BY <1>6 DEF ChatInv, RequestInv
  <2>3. \A z \in Gen : z > gen => request'[z].pc = "none"
    BY <2>1 DEF ChatInv, RequestInv
  <2>4. Streaming => gen \in Gen
    BY <1>1 DEF Streaming
  <2> QED
    BY <1>2, <1>8, <2>1, <2>2, <2>3, <2>4 DEF ChatInv, RequestInv
<1>10. Shown' = Shown
  BY <1>2 DEF Shown
<1>11. timer \in {0, gen} /\ source \in {0, ctl}
  BY DEF ChatInv, TypeOK
<1>12. CASE Streaming /\ g = gen
  <2>1. ctl = g /\ source = g /\ mounted /\ pending.gen = g
    BY <1>2, <1>12 DEF Streaming, ChatInv, RequestInv, PendingInv
  <2> DEFINE t == pending.text
             u == Merge(t, q)
  <2>2. pending' = [pending EXCEPT !.text = u] /\ timer' = g
    BY <1>12, <2>1 DEF handleStreamUpdate, isCurrent, q
  <2>3. t \in Seq(Letter)
    BY <1>1
  <2>4. u \in Seq(Letter)
    <3> HIDE DEF t
    <3> QED
      BY <1>5, <2>3, MergeTyped
  <2>5. Holds(Shown.text, t, x, g)
    BY <1>12 DEF ChatInv, MessageInv, x
  <2>6. Holds(Shown.text, u, y, g)
    <3>1. Shown.text \in Seq(Letter)
      BY <1>1 DEF Message
    <3>2. Stretch(q, Len(x), x \o d, g)
      BY <1>1, <1>3, <1>5, PlacedStretch
    <3> HIDE DEF t
    <3> QED
      BY <1>1, <1>3, <1>5, <2>3, <2>5, <3>1, <3>2, BufferMerges DEF y
  <2> HIDE DEF u
  <2>7. /\ pending' \in [gen : 0..MaxGen, text : Seq(Letter)]
        /\ pending'.gen = g /\ pending'.text = u
    BY <1>1, <2>1, <2>2, <2>4
  <2>8. PendingInv'
    BY <1>2, <1>8, <1>12, <2>1, <2>7 DEF ChatInv, PendingInv
  <2>9. Buffered'
    BY <1>2, <1>6, <1>10, <1>12, <2>6, <2>7 DEF Buffered
  <2> QED
    BY <1>1, <1>2, <1>6, <1>7, <1>8, <1>9, <1>11, <1>12, <2>1, <2>2, <2>7, <2>8, <2>9,
       QuietStep
<1>13. CASE ~(Streaming /\ g = gen)
  <2>1. ~(isCurrent(g) /\ gen = g /\ pending.gen = g)
    BY <1>1, <1>2, <1>13 DEF isCurrent, Streaming
  <2>2. UNCHANGED <<pending, timer>>
    BY <2>1 DEF handleStreamUpdate
  <2>3. PendingInv'
    BY <1>2, <1>8, <2>2 DEF ChatInv, PendingInv
  <2>4. Buffered'
    <3>1. Streaming => gen \in Gen /\ request'[gen].text = request[gen].text
      BY <1>1, <1>6, <1>13 DEF Streaming
    <3> QED
      BY <1>2, <1>8, <1>10, <2>2, <3>1 DEF ChatInv, MessageInv, Buffered
  <2> QED
    BY <1>1, <1>2, <1>6, <1>7, <1>8, <1>9, <1>11, <2>2, <2>3, <2>4, QuietStep
<1> QED
  BY <1>12, <1>13

(* The source of the request under way is current, and no other one is.    *)
LEMMA CurrentSource ==
  ASSUME ChatInv, NEW g \in Gen, request[g].pc \in {"headers", "open"}, ctl = g
  PROVE  g = gen /\ Streaming
BY DEF ChatInv, RequestInv, Streaming, Gen

(* The headers do not come.                                                *)
LEMMA HeadersFailStep ==
  ASSUME ChatInv, NEW g \in Gen, HeadersFail(g)
  PROVE  ChatInv'
<1>1. /\ request[g].pc = "headers" /\ request' = [request EXCEPT ![g].pc = "failed"]
      /\ UNCHANGED <<gen, ctl, source, isStreaming, generating, mounted>>
  BY DEF HeadersFail
<1>2. "failed" \in RequestPc \ {"xhr"} /\ "failed" \notin {"none", "headers"}
  BY DEF RequestPc
<1>3. CASE ctl = g
  <2>1. g = gen /\ Streaming
    BY <1>1, <1>3, CurrentSource
  <2>2. Flushed /\ isRequesting' = FALSE /\ Update(Flush \o <<Up("error", gen, <<>>)>>)
    BY <1>3, <2>1 DEF HeadersFail, handleStreamError
  <2>3. isStreaming' \in BOOLEAN /\ source' \in {0, source}
    BY <1>1, Ranges
  <2> QED
    BY <1>1, <2>1, <2>2, <2>3, EndStep
<1>4. CASE ctl # g
  <2>1. UNCHANGED <<timer, pending, isRequesting, queue, dirty, message>>
    BY <1>4 DEF HeadersFail
  <2> QED
    BY <1>1, <1>2, <1>4, <2>1, RequestMovesQuietly
<1> QED
  BY <1>3, <1>4

(* The stream ends: with [DONE], with an error, or without a word.         *)
LEMMA StreamEndsStep ==
  ASSUME ChatInv, NEW g \in Gen,
         StreamDone(g) \/ StreamFails(g) \/ StreamEndsSilently(g)
  PROVE  ChatInv'
<1>1. request[g].pc = "open" /\ UNCHANGED <<gen, ctl, generating, mounted>>
  BY DEF StreamDone, StreamFails, StreamEndsSilently
<1>2. {"done", "failed", "silent"} \subseteq RequestPc \ {"xhr"}
  BY DEF RequestPc
<1>3. CASE isCurrent(g) /\ (StreamDone(g) \/ StreamFails(g))
  <2>1. g = gen /\ Streaming
    BY <1>1, <1>3, CurrentSource DEF isCurrent
  <2>2. source' = 0 /\ isStreaming' = FALSE
    BY <1>3 DEF StreamDone, StreamFails, SourceClosed
  <2>3. CASE StreamDone(g)
    <3>1. /\ request' = [request EXCEPT ![gen].pc = "done"]
          /\ Flushed /\ isRequesting' = FALSE
          /\ Update(Flush \o <<Up("complete", gen, <<>>)>>)
      BY <1>3, <2>1, <2>3 DEF StreamDone, handleStreamComplete
    <3> QED
      BY <1>1, <2>1, <2>2, <3>1, EndStep
  <2>4. CASE StreamFails(g)
    <3>1. /\ request' = [request EXCEPT ![gen].pc = "failed"]
          /\ Flushed /\ isRequesting' = FALSE
          /\ Update(Flush \o <<Up("error", gen, <<>>)>>)
      BY <1>3, <2>1, <2>4 DEF StreamFails, handleStreamError
    <3> QED
      BY <1>1, <2>1, <2>2, <3>1, EndStep
  <2> QED
    BY <1>3, <2>3, <2>4
<1>4. CASE StreamEndsSilently(g)
  <2>1. request' = [request EXCEPT ![g].pc = "silent"] /\ NoEffect
    BY <1>4 DEF StreamEndsSilently
  <2> QED
    BY <1>1, <1>2, <2>1, RequestMovesQuietly DEF NoEffect
<1>5. CASE ~isCurrent(g) /\ (StreamDone(g) \/ StreamFails(g))
  <2>1. PICK p \in {"done", "failed"} :
          request' = [request EXCEPT ![g].pc = p] /\ NoEffect
    BY <1>5 DEF StreamDone, StreamFails
  <2>2. gen # g \/ ctl # g
    <3> SUFFICES ASSUME gen = g, ctl = g PROVE FALSE
      OBVIOUS
    <3>1. Streaming
      BY <1>1, CurrentSource
    <3>2. source = g
      BY <1>1, <3>1 DEF ChatInv, RequestInv
    <3> QED
      BY <1>5, <3>2 DEF isCurrent
  <2> QED
    BY <1>1, <1>2, <2>1, <2>2, RequestMovesQuietly DEF NoEffect
<1> QED
  BY <1>3, <1>4, <1>5

(* An updater of the request under way, queued or run at once.             *)
LEMMA OneShown ==
  ASSUME ChatInv, Streaming \/ Waiting, gen' = gen, NEW u \in Updater,
         u.kind # "replace", u.gen =< gen, Update(<<u>>)
  PROVE  /\ dirty' = TRUE /\ Shown' = Run(u, Shown, gen)
         /\ Queued(queue', gen) /\ (generating => NoReplace(queue'))
         /\ message' = message \/ (message' = Shown' /\ generating)
<1>1. /\ Queued(queue, gen) /\ (generating => NoReplace(queue))
      /\ gen \in Nat /\ TypeOK /\ QueueInv
  BY Ranges DEF ChatInv
<1>2. dirty' = TRUE
  BY <1>1, UpdateOne
<1>3. CASE message' = message /\ queue' = Append(queue, u)
  <2>1. Shown' = Run(u, Shown, gen)
    BY <1>1, <1>3, RunAppend DEF Shown, Queued
  <2>2. Queued(queue', gen) /\ (generating => NoReplace(queue'))
    BY <1>1, <1>3, QueueGrows
  <2> QED
    BY <1>2, <1>3, <2>1, <2>2
<1>4. CASE ~dirty /\ message = Shown /\ message' = Run(u, message, gen) /\ queue' = <<>>
  <2>1. Shown' = message'
    BY <1>4, RunNone DEF Shown
  <2>2. generating
    BY <1>4 DEF ChatInv, RequestInv, QueueInv
  <2>3. Queued(queue', gen) /\ NoReplace(queue')
    BY <1>4, QueueEmpty
  <2> QED
    BY <1>2, <1>4, <2>1, <2>2, <2>3
<1> QED
  BY <1>1, <1>3, <1>4, UpdateOne

(* The answer of a request without a stream.                               *)
LEMMA AnswerStep ==
  ASSUME ChatInv, Waiting, request' = [request EXCEPT ![gen].pc = "done"],
         Update(<<Up("answer", gen, <<>>)>>), isRequesting' = FALSE,
         UNCHANGED <<pending, timer, gen, ctl, source, isStreaming, generating,
                     mounted>>
  PROVE  ChatInv'
<1> DEFINE u == Up("answer", gen, <<>>)
<1>1. /\ gen \in Gen /\ gen \in Nat /\ gen # 0
      /\ message \in Message /\ Shown \in Message
      /\ request \in [Gen -> Request]
      /\ pending \in [gen : 0..MaxGen, text : Seq(Letter)] /\ mounted
      /\ isStreaming \in BOOLEAN /\ generating \in BOOLEAN
  BY Ranges DEF Waiting, ChatInv, RequestInv
<1>2. request[gen].pc = "xhr" /\ request[gen].text = <<>>
  BY <1>1 DEF Waiting, ChatInv, RequestInv
<1>3. u \in Updater /\ u.kind = "answer" /\ u.gen = gen
  BY <1>1, UpEmpty
<1>4. /\ dirty' = TRUE /\ Shown' = Run(u, Shown, gen)
      /\ Queued(queue', gen) /\ (generating => NoReplace(queue'))
      /\ message' = message \/ (message' = Shown' /\ generating)
  <2>1. u.kind # "replace" /\ u.gen =< gen
    BY <1>1, <1>3
  <2> QED
    BY <1>3, <2>1, OneShown
<1>5. Shown.owner = gen /\ isPending(Shown) /\ Shown.text = <<>>
  BY DEF ChatInv, MessageInv
<1>6. Shown' = Msg(gen, <<>>, "complete")
  BY <1>1, <1>4, <1>5, RunPending
<1>7. Shown' \in Message
  BY <1>1, <1>3, <1>4, RunTyped
<1>8. /\ request' \in [Gen -> Request] /\ Onward(request, request')
      /\ request'[gen].pc = "done" /\ request'[gen].text = request[gen].text
      /\ \A x \in Gen : x # gen => request'[x] = request[x]
  <2>1. "done" \in RequestPc
    BY DEF RequestPc
  <2> QED
    BY <1>1, <1>2, <2>1, RequestMoves
<1>9. ~Streaming /\ ~Streaming' /\ ~Waiting'
  BY <1>2, <1>8 DEF Streaming, Waiting
<1>10. Shown'.owner = gen /\ Shown'.text = <<>> /\ Shown'.status = "complete"
  BY <1>6 DEF Msg
<1>11. Sound(Shown, gen, request)' /\ ~isPending(Shown)'
  BY <1>1, <1>2, <1>8, <1>10 DEF Sound, Ordered, Full, isPending
<1>12. /\ message' \in Message /\ Sound(message, gen, request)'
       /\ (mounted /\ isPending(message)
            => generating
               /\ (message.owner = gen \/ request[message.owner].stopped))'
  <2>1. CASE message' = message
    BY <1>8, <2>1, MessageKept
  <2>2. CASE message' = Shown'
    BY <1>7, <1>11, <2>2
  <2> QED
    BY <1>4, <2>1, <2>2
<1>13. TypeOK'
  BY <1>1, <1>4, <1>8, <1>12 DEF ChatInv, TypeOK, Message, Request, Queued
<1>14. RequestInv'
  BY <1>1, <1>8, <1>9 DEF ChatInv, RequestInv
<1>15. PendingInv'
  BY <1>1, <1>9 DEF ChatInv, PendingInv
<1>16. QueueInv'
  BY <1>1, <1>4 DEF QueueInv, Queued, NoReplace
<1>17. MessageInv'
  BY <1>9, <1>11, <1>12 DEF MessageInv
<1> QED
  BY <1>7, <1>13, <1>14, <1>15, <1>16, <1>17 DEF ChatInv

(* The answer of any request without a stream, or its failure.             *)
LEMMA ChatAnsweredStep ==
  ASSUME ChatInv, NEW g \in Gen, ChatAnswered(g)
  PROVE  ChatInv'
<1>1. /\ request[g].pc = "xhr"
      /\ UNCHANGED <<gen, ctl, source, isStreaming, generating, mounted>>
  BY DEF ChatAnswered
<1>2. PICK ok \in BOOLEAN :
        /\ request' = [request EXCEPT ![g].pc = IF ok THEN "done" ELSE "failed"]
        /\ IF gen = g
           THEN IF ok
                THEN /\ Update(<<Up("answer", g, <<>>)>>)
                     /\ isRequesting' = FALSE
                     /\ UNCHANGED <<pending, timer>>
                ELSE handleStreamError(g)
           ELSE UNCHANGED <<timer, pending, isRequesting, queue, dirty, message>>
  BY DEF ChatAnswered
<1>3. CASE gen # g
  <2>1. PICK p \in {"done", "failed"} : request' = [request EXCEPT ![g].pc = p]
    BY <1>2
  <2>2. p \in RequestPc \ {"xhr"} /\ p \notin {"none", "headers"}
    BY DEF RequestPc
  <2> QED
    BY <1>1, <1>2, <1>3, <2>1, <2>2, RequestMovesQuietly
<1>4. CASE gen = g
  <2>1. Waiting
    BY <1>1, <1>4 DEF Waiting, Gen
  <2>2. CASE ok
    <3>1. /\ request' = [request EXCEPT ![gen].pc = "done"] /\ isRequesting' = FALSE
          /\ Update(<<Up("answer", gen, <<>>)>>) /\ UNCHANGED <<pending, timer>>
      BY <1>2, <1>4, <2>2
    <3> QED
      BY <1>1, <2>1, <3>1, AnswerStep
  <2>3. CASE ~ok
    <3>1. /\ request' = [request EXCEPT ![gen].pc = "failed"] /\ handleStreamError(gen)
      BY <1>2, <1>4, <2>3
    <3>2. /\ Flushed /\ isRequesting' = FALSE
          /\ Update(Flush \o <<Up("error", gen, <<>>)>>)
      BY <3>1 DEF handleStreamError
    <3>3. isStreaming' \in BOOLEAN /\ source' \in {0, source}
      BY <1>1, Ranges
    <3> QED
      BY <1>1, <2>1, <3>1, <3>2, <3>3, EndStep
  <2> QED
    BY <2>2, <2>3
<1> QED
  BY <1>3, <1>4

(* The flush timer: the buffer goes into what will be shown.               *)
LEMMA FlushTimerStep == ASSUME ChatInv, FlushTimer PROVE ChatInv'
<1>1. /\ mounted /\ Flushed
      /\ UNCHANGED <<gen, ctl, source, request, isRequesting, isStreaming, generating,
                     mounted>>
  BY DEF FlushTimer
<1>2. /\ gen \in Nat /\ request \in [Gen -> Request] /\ isStreaming \in BOOLEAN
      /\ source \in {0, ctl} /\ generating \in BOOLEAN /\ isRequesting \in BOOLEAN
  BY Ranges DEF ChatInv, TypeOK
<1>3. pending.gen = gen
  BY <1>1 DEF ChatInv, PendingInv
<1>4. /\ timer' = 0 /\ pending' \in [gen : 0..MaxGen, text : Seq(Letter)]
      /\ pending'.gen = gen /\ pending'.text = <<>>
  BY <1>1, <1>3, FlushedPending
<1>5. (Streaming' <=> Streaming) /\ (Waiting' <=> Waiting) /\ Onward(request, request')
  BY <1>1 DEF Streaming, Waiting, Onward
<1>6. RequestInv'
  BY <1>1, <1>5 DEF ChatInv, RequestInv
<1>7. PendingInv'
  BY <1>1, <1>4 DEF PendingInv
<1>8. CASE Flush = <<>>
  <2>1. UNCHANGED <<queue, dirty, message>>
    BY <1>8 DEF FlushTimer
  <2>2. pending'.text = pending.text
    BY <1>3, <1>4, <1>8 DEF Flush
  <2>3. Shown' = Shown
    BY <1>1, <2>1 DEF Shown
  <2>4. Buffered'
    BY <1>1, <1>5, <2>2, <2>3 DEF ChatInv, MessageInv, Buffered
  <2> QED
    BY <1>1, <1>2, <1>4, <1>5, <1>6, <1>7, <2>1, <2>4, QuietStep
<1>9. CASE Flush # <<>>
  <2>1. Streaming /\ ~Waiting
    BY <1>9, FlushStreams DEF Streaming, Waiting
  <2>2. Flush = <<Waits>> /\ Flushing = Run(Waits, Shown, gen)
    BY <1>9 DEF Flush, Waits, Flushing
  <2>3. Update(<<Waits>>)
    BY <1>9, <2>2 DEF FlushTimer
  <2>4. /\ Waits \in Updater /\ Waits.gen = gen /\ Waits.kind = "flush" /\ gen \in Gen
        /\ Flushing \in Message /\ Flushing.owner = gen /\ isPending(Flushing)
        /\ Holds(Flushing.text, <<>>, request[gen].text, gen)
    BY <2>1, FlushingOK
  <2>5. /\ dirty' = TRUE /\ Shown' = Flushing
        /\ Queued(queue', gen) /\ (generating => NoReplace(queue'))
        /\ message' = message \/ (message' = Flushing /\ generating)
    <3>1. Waits.kind # "replace" /\ Waits.gen =< gen /\ gen' = gen
      BY <1>1, <1>2, <2>4
    <3> QED
      BY <2>1, <2>2, <2>3, <2>4, <3>1, OneShown
  <2>6. Sound(Flushing, gen, request)
    BY <1>2, <2>1, <2>4, FlushingOK DEF Sound, isPending, Gen
  <2>7. /\ message' \in Message /\ Sound(message, gen, request)'
        /\ (mounted /\ isPending(message)
             => generating
                /\ (message.owner = gen \/ request[message.owner].stopped))'
    <3>1. CASE message' = message
      BY <1>1, <1>5, <3>1, MessageKept
    <3>2. CASE message' = Flushing /\ generating
      BY <1>1, <2>4, <2>6, <3>2
    <3> QED
      BY <2>5, <3>1, <3>2
  <2>8. TypeOK'
    BY <1>1, <1>2, <1>4, <2>5, <2>7 DEF ChatInv, TypeOK, Message, Request, Queued
  <2>9. QueueInv'
    BY <1>1, <2>5 DEF QueueInv, Queued, NoReplace
  <2>10. Holds(Shown'.text, pending'.text, request'[gen'].text, gen')
    BY <1>1, <1>4, <2>4, <2>5
  <2>11. MessageInv'
    BY <1>1, <1>4, <1>5, <2>1, <2>4, <2>5, <2>6, <2>7, <2>10 DEF MessageInv
  <2> QED
    BY <1>6, <1>7, <2>4, <2>5, <2>8, <2>9, <2>11 DEF ChatInv
<1> QED
  BY <1>8, <1>9

(* A render shows what the queue made of the message.                      *)
LEMMA RenderStep == ASSUME ChatInv, Render PROVE ChatInv'
<1>1. /\ mounted /\ dirty /\ message' = Shown /\ queue' = <<>> /\ dirty' = FALSE
      /\ generating' = (isRequesting \/ isStreaming)
      /\ UNCHANGED <<gen, pending, timer, ctl, source, request, isRequesting,
                     isStreaming, mounted>>
  BY DEF Render, Shown
<1>2. Shown' = Shown
  BY <1>1, RunNone DEF Shown
<1>3. /\ Shown \in Message /\ isRequesting \in BOOLEAN /\ isStreaming \in BOOLEAN
      /\ gen \in Nat
  BY Ranges
<1>4. generating' \in BOOLEAN
  BY <1>1, Zenon
<1>5. isRequesting => generating'
  BY <1>1, Zenon
<1>6. (Streaming' <=> Streaming) /\ (Waiting' <=> Waiting)
  BY <1>1 DEF Streaming, Waiting
<1>7. Queued(queue', gen) /\ NoReplace(queue')
  BY <1>1, QueueEmpty
<1>8. TypeOK'
  BY <1>1, <1>3, <1>4, <1>7 DEF ChatInv, TypeOK, Message, Queued
<1>9. RequestInv'
  BY <1>1, <1>6 DEF ChatInv, RequestInv
<1>10. PendingInv'
  BY <1>1, <1>6 DEF ChatInv, PendingInv
<1>11. QueueInv'
  BY <1>1, <1>5, <1>7 DEF QueueInv, Queued, NoReplace
<1>12. (mounted /\ isPending(message)
         => generating /\ (message.owner = gen \/ request[message.owner].stopped))'
  BY <1>1, <1>5 DEF ChatInv, MessageInv, RequestInv
<1>13. MessageInv'
  BY <1>1, <1>2, <1>6, <1>12 DEF ChatInv, MessageInv
<1> QED
  BY <1>2, <1>3, <1>8, <1>9, <1>10, <1>11, <1>13 DEF ChatInv

(* The page is left: nothing is under way any more.                        *)
LEMMA UnmountStep == ASSUME ChatInv, Unmount PROVE ChatInv'
<1>1. /\ mounted /\ gen < MaxGen /\ mounted' = FALSE /\ generating' = FALSE
      /\ gen' = gen + 1 /\ timer' = 0 /\ ctl' = 0 /\ source' = 0
      /\ queue' = <<>> /\ dirty' = FALSE
      /\ UNCHANGED <<pending, request, isRequesting, isStreaming, message>>
  BY DEF Unmount
<1>2. /\ gen \in Nat /\ message \in Message /\ request \in [Gen -> Request]
      /\ pending \in [gen : 0..MaxGen, text : Seq(Letter)]
      /\ isRequesting \in BOOLEAN /\ isStreaming \in BOOLEAN /\ MaxGen \in Nat
  BY Ranges, PlaygroundChatAssumption
<1>3. gen' \in Gen /\ gen' \in 0..MaxGen /\ gen' \in Nat /\ gen' # 0 /\ gen' > gen
  BY <1>1, <1>2 DEF Gen
<1>4. request[gen'].pc = "none" /\ pending.gen = gen
  BY <1>1, <1>3 DEF ChatInv, RequestInv, PendingInv
<1>5. ~Streaming' /\ ~Waiting'
  BY <1>1, <1>3, <1>4 DEF Streaming, Waiting
<1>6. Shown' = message
  BY <1>1, RunNone DEF Shown
<1>7. Queued(queue', gen') /\ NoReplace(queue')
  BY <1>1, QueueEmpty
<1>8. TypeOK'
  <2>1. ctl' \in 0..MaxGen /\ timer' \in {0, gen'} /\ source' \in {0, ctl'}
    BY <1>1, <1>2
  <2>2. generating' \in BOOLEAN /\ mounted' \in BOOLEAN /\ dirty' \in BOOLEAN
    BY <1>1
  <2>3. queue' \in Seq(Updater) /\ gen' \in 0..MaxGen
    BY <1>3, <1>7 DEF Queued
  <2>4. (pending \in [gen : 0..MaxGen, text : Seq(Letter)] /\ message \in Message
         /\ request \in [Gen -> Request] /\ isRequesting \in BOOLEAN
         /\ isStreaming \in BOOLEAN)'
    BY <1>1, <1>2
  <2> QED
    BY <2>1, <2>2, <2>3, <2>4 DEF TypeOK, Message, Request
<1>9. RequestInv'
  BY <1>1, <1>2, <1>3, <1>5 DEF ChatInv, RequestInv, Gen
<1>10. PendingInv'
  BY <1>1, <1>2, <1>4 DEF PendingInv
<1>11. QueueInv'
  BY <1>1, <1>7 DEF QueueInv, Queued, NoReplace
<1>12. Sound(message, gen', request)
  BY <1>2, <1>3, SoundKept DEF ChatInv, MessageInv, Onward
<1>13. MessageInv'
  BY <1>1, <1>5, <1>6, <1>12 DEF MessageInv
<1> QED
  BY <1>2, <1>6, <1>8, <1>9, <1>10, <1>11, <1>13 DEF ChatInv

(* A send: a new message, and a request that has delivered nothing.        *)
LEMMA SendStep ==
  ASSUME ChatInv, NEW p \in {"headers", "xhr"}, Sendable, gen' = gen + 1,
         discardPendingStreamUpdates(gen'),
         ctl' = (IF p = "headers" THEN gen' ELSE 0), source' = 0,
         request' = [request EXCEPT ![gen'].pc = p],
         isRequesting' = TRUE, isStreaming' = FALSE,
         Update(<<Up("replace", gen', <<>>)>>),
         UNCHANGED <<generating, mounted>>
  PROVE  ChatInv'
<1> DEFINE g == gen'
           u == Up("replace", g, <<>>)
<1>1. /\ gen \in Nat /\ message \in Message /\ request \in [Gen -> Request]
      /\ Queued(queue, gen) /\ MaxGen \in Nat /\ TypeOK /\ QueueInv
  BY Ranges, PlaygroundChatAssumption DEF ChatInv
<1>2. mounted /\ ~generating /\ gen < MaxGen
  BY DEF Sendable
<1>3. /\ g \in Gen /\ g \in 0..MaxGen /\ g \in Nat /\ g # 0 /\ g > gen /\ gen =< g
      /\ \A x \in Gen : x > g => x > gen /\ x # g
  BY <1>1, <1>2 DEF Gen
<1>4. request[g].pc = "none" /\ request[g].text = <<>>
  BY <1>3 DEF ChatInv, RequestInv
<1>5. /\ request' \in [Gen -> Request] /\ Onward(request, request')
      /\ request'[g].pc = p /\ request'[g].text = <<>>
      /\ \A x \in Gen : x # g => request'[x] = request[x]
  <2>1. p \in RequestPc
    BY DEF RequestPc
  <2> HIDE DEF g
  <2>2. request' = [request EXCEPT ![g].pc = p]
    BY DEF g
  <2> QED
    BY <1>1, <1>3, <1>4, <2>1, <2>2, RequestMoves
<1>6. u \in Updater /\ u.kind = "replace" /\ u.gen = g
  BY <1>3, UpEmpty
<1>7. dirty' = TRUE /\ message' = message /\ queue' = Append(queue, u)
  <2>1. u.kind \notin {"flush", "answer"}
    BY <1>6
  <2> HIDE DEF u
  <2>2. Update(<<u>>)
    BY DEF u
  <2> QED
    BY <1>1, <1>6, <2>1, <2>2, UpdateOne
<1>8. Queued(queue, g)
  <2>1. queue \in Seq(Updater) /\ \A i \in 1..Len(queue) : queue[i].gen =< gen
    BY <1>1 DEF Queued
  <2>2. \A i \in 1..Len(queue) : queue[i] \in Updater
    BY <2>1
  <2>3. \A i \in 1..Len(queue) : queue[i].gen \in Nat
    BY <2>2 DEF Updater, Gen
  <2> HIDE DEF g
  <2>4. \A i \in 1..Len(queue) : queue[i].gen =< g
    BY <1>1, <1>3, <2>1, <2>3
  <2> QED
    BY <2>1, <2>4 DEF Queued
<1>9. Queued(queue', g)
  BY <1>3, <1>6, <1>7, <1>8, QueueGrows
<1>10. Shown' = Msg(g, <<>>, "loading")
  <2>1. RunAll(Append(queue, u), message, g) = Run(u, RunAll(queue, message, g), g)
    BY <1>1, <1>6, RunAppend DEF Queued
  <2>2. Shown' = RunAll(queue', message', g)
    BY DEF Shown
  <2>3. Run(u, RunAll(queue, message, g), g) = Msg(g, <<>>, "loading")
    BY RunOther
  <2> QED
    BY <1>7, <2>1, <2>2, <2>3
<1>11. Shown'.owner = g /\ Shown'.text = <<>> /\ Shown'.status = "loading"
  BY <1>10 DEF Msg
<1>12. Shown' \in Message
  <2>1. <<>> \in Seq(Letter) /\ "loading" \in Status
    BY DEF Status
  <2> QED
    BY <1>3, <1>10, <2>1 DEF Msg, Message
<1>13. timer' = 0 /\ pending' = [gen |-> g, text |-> <<>>]
  BY DEF discardPendingStreamUpdates
<1>14. pending' \in [gen : 0..MaxGen, text : Seq(Letter)]
  <2>1. <<>> \in Seq(Letter)
    OBVIOUS
  <2> QED
    BY <1>3, <1>13, <2>1
<1>15. /\ p = "headers" => Streaming' /\ ~Waiting'
       /\ p = "xhr" => Waiting' /\ ~Streaming'
  BY <1>3, <1>5 DEF Streaming, Waiting
<1>16. TypeOK'
  <2>1. ctl' \in 0..MaxGen
    BY <1>1, <1>3
  <2> QED
    BY <1>1, <1>2, <1>3, <1>5, <1>7, <1>9, <1>13, <1>14, <2>1
    DEF TypeOK, Message, Request, Queued
<1>17. RequestInv'
  <2>1. \A x \in Gen :
          request'[x].pc \in {"none", "headers", "xhr"} => request'[x].text = <<>>
    BY <1>5 DEF ChatInv, RequestInv
  <2>2. \A x \in Gen : x > g => request'[x].pc = "none"
    BY <1>3, <1>5 DEF ChatInv, RequestInv
  <2> QED
    BY <1>2, <1>5, <2>1, <2>2 DEF RequestInv
<1>18. PendingInv'
  BY <1>2, <1>13 DEF PendingInv
<1>19. QueueInv'
  BY <1>2, <1>7, <1>9 DEF QueueInv, Queued
<1>20. Sound(message, g, request') /\ Sound(Shown', g, request')
  <2>1. Sound(message, g, request')
    BY <1>1, <1>3, <1>5, SoundKept DEF ChatInv, MessageInv
  <2> QED
    BY <1>3, <1>11, <2>1 DEF Sound, Ordered
<1>21. ~isPending(message)
  BY <1>2 DEF ChatInv, MessageInv
<1>22. Holds(Shown'.text, pending'.text, request'[gen'].text, gen')
  BY <1>5, <1>11, <1>13, HoldsNothing
<1>23. MessageInv'
  BY <1>7, <1>11, <1>13, <1>15, <1>20, <1>21, <1>22 DEF MessageInv, isPending
<1> QED
  BY <1>12, <1>16, <1>17, <1>18, <1>19, <1>23 DEF ChatInv

(* The user stops the request: its text so far stays.                     *)
LEMMA RequestStops ==
  ASSUME request \in [Gen -> Request], NEW g,
         request' = [request EXCEPT ![g].stopped = TRUE]
  PROVE  /\ request' \in [Gen -> Request] /\ Onward(request, request')
         /\ g \in Gen => request'[g].stopped
         /\ \A x \in Gen :
              request'[x].pc = request[x].pc /\ request'[x].text = request[x].text
<1>1. CASE g \notin Gen
  BY <1>1 DEF Onward
<1>2. CASE g \in Gen
  <2>1. /\ request'[g] = [request[g] EXCEPT !.stopped = TRUE]
        /\ \A x \in Gen : x # g => request'[x] = request[x]
    BY <1>2
  <2>2. request[g] \in Request
    BY <1>2
  <2>3. /\ request'[g] \in Request /\ request'[g].stopped
        /\ request'[g].pc = request[g].pc /\ request'[g].text = request[g].text
    BY <2>1, <2>2 DEF Request
  <2>4. request' \in [Gen -> Request]
    BY <2>1, <2>3
  <2> QED
    BY <2>1, <2>3, <2>4 DEF Onward
<1> QED
  BY <1>1, <1>2

(* stopGeneration hands over a finish of the next generation, in which     *)
(* whatever is still queued does nothing: the message as it is rendered is *)
(* finished, with the buffer only if that was flushed at once.             *)
LEMMA StopShown ==
  ASSUME ChatInv, stopGeneration
  PROVE  /\ dirty' = TRUE /\ Shown' = Run(Up("finish", gen', <<>>), message', gen')
         /\ Queued(queue', gen') /\ NoReplace(queue')
         /\ message' = message \/ (message' = Flushing /\ Streaming)
<1> DEFINE g == gen'
           v == Up("finish", g, <<>>)
<1>1. /\ gen \in Nat /\ Queued(queue, gen) /\ NoReplace(queue) /\ MaxGen \in Nat
      /\ TypeOK /\ QueueInv /\ g = gen + 1 /\ gen < MaxGen /\ Update(Flush \o <<v>>)
  BY Ranges, PlaygroundChatAssumption DEF ChatInv, stopGeneration
<1>2. g \in Gen /\ gen =< g /\ gen # g
  BY <1>1 DEF Gen
<1> HIDE DEF g
<1>3. v \in Updater /\ v.kind = "finish" /\ v.gen = g
  BY <1>2, UpEmpty
<1> HIDE DEF v
<1>4. ASSUME NEW q, Queued(q, gen), NoReplace(q), NEW m,
             queue' = Append(q, v), message' = m
      PROVE  /\ Shown' = Run(v, message', g)
             /\ Queued(queue', g) /\ NoReplace(queue')
  <2>1. q \in Seq(Updater) /\ \A i \in 1..Len(q) : q[i].gen =< gen /\ q[i] \in Updater
    BY <1>4 DEF Queued
  <2>2. \A i \in 1..Len(q) : q[i].gen # g /\ q[i].gen =< g
    BY <1>1, <2>1 DEF Updater, Gen
  <2>3. RunAll(q, m, g) = m
    BY <1>4, <2>1, <2>2, RunStale DEF NoReplace
  <2>4. RunAll(Append(q, v), m, g) = Run(v, m, g)
    BY <1>3, <2>1, <2>3, RunAppend
  <2>5. Shown' = RunAll(queue', message', g)
    BY DEF Shown, g
  <2>6. Queued(q, g)
    BY <2>1, <2>2 DEF Queued
  <2>7. v.gen =< g
    BY <1>2, <1>3 DEF Gen
  <2>8. Queued(queue', g) /\ NoReplace(queue')
    BY <1>3, <1>4, <2>6, <2>7, QueueGrows
  <2> QED
    BY <1>4, <2>4, <2>5, <2>8
<1>5. /\ dirty' = TRUE
      /\ \/ Flush = <<>> /\ message' = message /\ queue' = Append(queue, v)
         \/ /\ Flush # <<>> /\ message' = message
            /\ queue' = Append(Append(queue, Waits), v)
         \/ /\ Flush # <<>> /\ ~dirty /\ message = Shown
            /\ message' = Run(Waits, message, gen)
            /\ queue' = Append(<<>>, v)
  <2>1. v.kind \notin {"flush", "answer"}
    BY <1>3
  <2> QED
    BY <1>1, <1>3, <2>1, UpdateTwo
<1>6. Flush # <<>>
        => Streaming /\ Waits \in Updater /\ Waits.gen = gen /\ Waits.kind = "flush"
  BY FlushStreams, FlushingOK
<1>7. CASE Flush = <<>> /\ message' = message /\ queue' = Append(queue, v)
  BY <1>1, <1>4, <1>5, <1>7 DEF v, g
<1>8. CASE /\ Flush # <<>> /\ message' = message
           /\ queue' = Append(Append(queue, Waits), v)
  <2> DEFINE q == Append(queue, Waits)
  <2>1. Queued(q, gen) /\ NoReplace(q)
    BY <1>1, <1>6, <1>8, QueueGrows
  <2>2. queue' = Append(q, v)
    BY <1>8
  <2> HIDE DEF q
  <2> QED
    BY <1>4, <1>5, <1>8, <2>1, <2>2 DEF v, g
<1>9. CASE /\ Flush # <<>> /\ ~dirty /\ message = Shown
           /\ message' = Run(Waits, message, gen)
           /\ queue' = Append(<<>>, v)
  <2>1. message' = Flushing /\ Streaming
    BY <1>6, <1>9 DEF Flushing
  <2>2. Queued(<<>>, gen) /\ NoReplace(<<>>)
    BY QueueEmpty
  <2>3. /\ Shown' = Run(v, message', g)
        /\ Queued(queue', g) /\ NoReplace(queue')
    BY <1>4, <1>9, <2>2, Zenon
  <2> QED
    BY <1>5, <2>1, <2>3 DEF v, g
<1> QED
  BY <1>5, <1>7, <1>8, <1>9

(* The user stops: the message is finished, and what it lost is excused.   *)
LEMMA StopStep == ASSUME ChatInv, stopGeneration PROVE ChatInv'
<1> DEFINE g == gen'
<1>1. /\ mounted /\ generating /\ gen < MaxGen /\ gen' = gen + 1
      /\ timer' = 0 /\ pending' = [gen |-> gen', text |-> <<>>]
      /\ ctl' = 0 /\ source' = 0 /\ request' = [request EXCEPT ![gen].stopped = TRUE]
      /\ isRequesting' = FALSE /\ isStreaming' = FALSE
      /\ UNCHANGED <<generating, mounted>>
  BY DEF stopGeneration, discardPendingStreamUpdates
<1>2. /\ gen \in Nat /\ message \in Message /\ request \in [Gen -> Request]
      /\ MaxGen \in Nat /\ (gen # 0 => gen \in Gen) /\ generating \in BOOLEAN
      /\ mounted \in BOOLEAN
  BY Ranges, PlaygroundChatAssumption
<1>3. /\ g \in Gen /\ g \in 0..MaxGen /\ g \in Nat /\ g # 0 /\ g > gen /\ gen =< g
      /\ \A x \in Gen : x > g => x > gen
  BY <1>1, <1>2 DEF Gen
<1>4. /\ request' \in [Gen -> Request] /\ Onward(request, request')
      /\ gen \in Gen => request'[gen].stopped
      /\ \A x \in Gen : request'[x].pc = request[x].pc /\ request'[x].text = request[x].text
  BY <1>1, <1>2, RequestStops
<1>5. request'[g].pc = "none"
  BY <1>3, <1>4 DEF ChatInv, RequestInv
<1>6. ~Streaming' /\ ~Waiting'
  BY <1>1, <1>3, <1>5 DEF Streaming, Waiting
<1>7. /\ dirty' = TRUE /\ Shown' = Run(Up("finish", g, <<>>), message', g)
      /\ Queued(queue', g) /\ NoReplace(queue')
      /\ message' = message \/ (message' = Flushing /\ Streaming)
  BY StopShown
<1>8. /\ message' \in Message /\ Sound(message', g, request')
      /\ isPending(message') => request'[message'.owner].stopped
  <2>1. CASE message' = message
    <3>1. Sound(message, g, request')
      BY <1>2, <1>3, <1>4, SoundKept DEF ChatInv, MessageInv
    <3>2. isPending(message)
            => /\ message.owner \in Gen
               /\ message.owner = gen \/ request[message.owner].stopped
      BY <1>1, <1>2 DEF ChatInv, MessageInv, Sound, isPending, Message, Gen
    <3> QED
      BY <1>2, <1>4, <2>1, <3>1, <3>2 DEF Onward
  <2>2. CASE message' = Flushing /\ Streaming
    <3>1. /\ Flushing \in Message /\ Flushing.owner = gen /\ isPending(Flushing)
          /\ Ordered(Flushing.text, gen) /\ gen \in Gen
      BY <2>2, FlushingOK
    <3> QED
      BY <1>2, <1>3, <1>4, <2>2, <3>1 DEF Sound, isPending, Gen
  <2> QED
    BY <1>7, <2>1, <2>2
<1>9. /\ Shown' \in Message /\ Sound(Shown', g, request') /\ ~isPending(Shown')
  <2>1. CASE isPending(message')
    <3>1. Shown' = Msg(message'.owner, message'.text, "complete")
      BY <1>7, <1>8, <2>1, RunPending
    <3>2. /\ Shown'.owner = message'.owner /\ Shown'.text = message'.text
          /\ Shown'.status = "complete"
      BY <3>1 DEF Msg
    <3>3. Shown' \in Message
      BY <1>8, <3>1 DEF Msg, Message, Status
    <3> QED
      BY <1>8, <2>1, <3>2, <3>3 DEF Sound, isPending
  <2>2. CASE ~isPending(message')
    <3>1. Shown' = message'
      BY <1>7, <2>2, RunOther
    <3> QED
      BY <1>8, <2>2, <3>1
  <2> QED
    BY <2>1, <2>2
<1>10. pending' \in [gen : 0..MaxGen, text : Seq(Letter)]
  <2>1. <<>> \in Seq(Letter)
    OBVIOUS
  <2> QED
    BY <1>1, <1>3, <2>1
<1>11. TypeOK'
  <2>1. ctl' \in 0..MaxGen /\ timer' \in {0, gen'} /\ source' \in {0, ctl'}
    BY <1>1, <1>2
  <2>2. /\ generating' \in BOOLEAN /\ mounted' \in BOOLEAN /\ dirty' \in BOOLEAN
        /\ isRequesting' \in BOOLEAN /\ isStreaming' \in BOOLEAN
    BY <1>1, <1>2, <1>7
  <2>3. queue' \in Seq(Updater) /\ gen' \in 0..MaxGen
    BY <1>3, <1>7 DEF Queued
  <2> QED
    BY <1>4, <1>8, <1>10, <2>1, <2>2, <2>3 DEF TypeOK, Message, Request
<1>12. RequestInv'
  BY <1>1, <1>3, <1>4, <1>6 DEF ChatInv, RequestInv
<1>13. PendingInv'
  BY <1>1 DEF PendingInv
<1>14. QueueInv'
  BY <1>1, <1>7 DEF QueueInv, Queued, NoReplace
<1>15. MessageInv'
  BY <1>1, <1>6, <1>8, <1>9 DEF MessageInv
<1> QED
  BY <1>9, <1>11, <1>12, <1>13, <1>14, <1>15 DEF ChatInv

-----------------------------------------------------------------------------
(* The theorems about the playground.                                      *)

(* An empty chat.                                                          *)
LEMMA ChatBegins == Init => ChatInv
<1> SUFFICES ASSUME Init PROVE ChatInv
  OBVIOUS
<1>1. Shown = [owner |-> 0, text |-> <<>>, status |-> "none"] /\ message = Shown
  BY RunNone DEF Init, Shown
<1>2. /\ MaxGen \in Nat /\ <<>> \in Seq(Char)
      /\ <<>> \in Seq(Letter) /\ <<>> \in Seq(Updater)
  BY PlaygroundChatAssumption
<1>3. request \in [Gen -> [pc : RequestPc, text : Seq(Char), stopped : BOOLEAN]]
  BY <1>2 DEF Init, RequestPc
<1>4. message \in Message /\ Shown \in Message
  BY <1>1, <1>2 DEF Message, Status
<1>5. TypeOK
  BY <1>2, <1>3, <1>4 DEF Init, TypeOK, Message
<1>6. ~Streaming /\ ~Waiting
  BY DEF Init, Streaming, Waiting
<1>7. RequestInv
  BY <1>6 DEF Init, RequestInv
<1>8. PendingInv /\ QueueInv
  BY DEF Init, PendingInv, QueueInv
<1>9. MessageInv
  BY <1>1, <1>6 DEF Init, MessageInv, Sound, Ordered, isPending
<1> QED
  BY <1>4, <1>5, <1>7, <1>8, <1>9 DEF ChatInv

(* Every handler, timer, render and event keeps the invariant.             *)
LEMMA ChatStep == ChatInv /\ [Next]_vars => ChatInv'
<1> SUFFICES ASSUME ChatInv, [Next]_vars PROVE ChatInv'
  OBVIOUS
<1>1. CASE sendStreamingChat
  <2>1. ctl' = (IF "headers" = "headers" THEN gen' ELSE 0)
    BY <1>1 DEF sendStreamingChat
  <2> QED
    BY <1>1, <2>1, SendStep DEF sendStreamingChat
<1>2. CASE sendNonStreamingChat
  <2>1. ctl' = (IF "xhr" = "headers" THEN gen' ELSE 0)
    BY <1>2 DEF sendNonStreamingChat
  <2> QED
    BY <1>2, <2>1, SendStep DEF sendNonStreamingChat
<1>3. CASE stopGeneration
  BY <1>3, StopStep
<1>4. CASE Unmount
  BY <1>4, UnmountStep
<1>5. CASE Render
  BY <1>5, RenderStep
<1>6. CASE FlushTimer
  BY <1>6, FlushTimerStep
<1>7. ASSUME NEW g \in Gen, HeadersReady(g) PROVE ChatInv'
  BY <1>7, HeadersStep
<1>8. ASSUME NEW g \in Gen, HeadersFail(g) PROVE ChatInv'
  BY <1>8, HeadersFailStep
<1>9. ASSUME NEW g \in Gen, NEW d \in Delta, handleStreamUpdate(g, d) PROVE ChatInv'
  BY <1>9, DeltaStep
<1>10. ASSUME NEW g \in Gen, RequestEnds(g) PROVE ChatInv'
  BY <1>10, StreamEndsStep, ChatAnsweredStep DEF RequestEnds
<1>11. CASE UNCHANGED vars
  BY <1>11, ChatStutter
<1> QED
  BY <1>1, <1>2, <1>3, <1>4, <1>5, <1>6, <1>7, <1>8, <1>9, <1>10, <1>11 DEF Next

(* ChatInv holds of every state the playground reaches.                    *)
THEOREM ChatAlwaysOK == Spec => []ChatInv
BY ChatBegins, ChatStep, PTL DEF Spec

(* The state space; in particular a timer is never left running for a      *)
(* generation that is over, and the controller has no source of a request  *)
(* it gave up.                                                             *)
THEOREM ChatTypeCorrect == Spec => []TypeOK
<1>1. ChatInv => TypeOK
  BY DEF ChatInv
<1> QED
  BY <1>1, ChatAlwaysOK, PTL

(* The last message holds text of its own request only, each letter once   *)
(* and in the order of the stream, however many requests came before it,   *)
(* whatever the merges dropped and however many updaters wait.             *)
THEOREM TextInOrder == Spec => []OwnTextInOrder
<1>1. ChatInv => OwnTextInOrder
  BY DEF ChatInv, MessageInv, Sound, Ordered, OwnTextInOrder
<1> QED
  BY <1>1, ChatAlwaysOK, PTL

(* A message the end of its stream completed shows all the stream          *)
(* delivered, or the stream said something twice in a row: neither the     *)
(* flush buffer nor an updater that came too late keeps a part of it, and  *)
(* the merges cut nothing else.                                            *)
THEOREM CompletedShowsAll == Spec => []CompletedIsWhole
<1>1. ChatInv => CompletedIsWhole
  BY DEF ChatInv, MessageInv, Sound, Full, CompletedIsWhole
<1> QED
  BY <1>1, ChatAlwaysOK, PTL

-----------------------------------------------------------------------------
(* The desktop shell.                                                      *)

Alive == {"starting", "listening"}

(* While the child lives, the variable serverProcess refers to it, so that *)
(* before-quit holds the application back; an exit code that is still to   *)
(* be handled is that of a dead child; before startServer there is none.   *)
ServerInv ==
  /\ child \in Alive => serverProcess /\ app = "running"
  /\ code # "none" => child = "exited"
  /\ startup = "none" => code = "none" /\ child = "none"

(* Only whenReady starts a child, and serverProcess is set by the same     *)
(* handler; the child's own steps keep the other parts.                    *)
LEMMA ServerStep == ServerInv /\ [ShellNext]_shellVars => ServerInv'
<1> SUFFICES ASSUME ServerInv, [ShellNext]_shellVars PROVE ServerInv'
  OBVIOUS
<1> USE DEF ServerInv, Alive
<1>1. CASE UNCHANGED shellVars
  BY <1>1 DEF shellVars
<1>2. CASE whenReady
  <2>1. CASE isDev
    BY <1>2, <2>1 DEF whenReady
  <2>2. CASE ~isDev
    BY <1>2, <2>2 DEF whenReady
  <2> QED
    BY <2>1, <2>2
<1>3. CASE ServerAvailable
  BY <1>3 DEF ServerAvailable
<1>4. CASE ProbeFails \/ ProbeTimesOut \/ tryConnect
  BY <1>4 DEF ProbeFails, ProbeTimesOut, NoAnswer, StartFailed, tryConnect
<1>5. CASE KillTimer
  BY <1>5 DEF KillTimer, exit
<1>6. CASE ServerClosed
  BY <1>6 DEF ServerClosed, exit
<1>7. CASE SpawnError
  BY <1>7 DEF SpawnError, StartFailed
<1>8. CASE ServerListens
  BY <1>8 DEF ServerListens, uiVars
<1>9. ASSUME NEW c \in {"zero", "signal", "failure"}, ServerExits(c)
      PROVE  ServerInv'
  BY <1>9 DEF ServerExits
<1>10. ASSUME quit, UNCHANGED serverVars, app = "running" PROVE ServerInv'
  <2>1. CASE beforeQuit
    BY <1>10, <2>1 DEF beforeQuit, serverVars
  <2>2. CASE quitWindows
    BY <1>10, <2>2 DEF quitWindows, serverVars
  <2> QED
    BY <1>10, <2>1, <2>2 DEF quit
<1>11. CASE ClickQuit \/ SystemQuit
  BY <1>10, <1>11 DEF ClickQuit, SystemQuit
<1>12. CASE ClickTray \/ activate
  BY <1>12 DEF ClickTray, activate, serverVars
<1>13. ASSUME NEW d \in Dialog, AnswerDialog(d) PROVE ServerInv'
  <2>1. CASE quit
    BY <1>10, <1>13, <2>1 DEF AnswerDialog
  <2>2. CASE UNCHANGED app
    BY <1>13, <2>2 DEF AnswerDialog, serverVars
  <2> QED
    BY <1>13, <2>1, <2>2 DEF AnswerDialog
<1>14. ASSUME NEW w \in Window, UserCloses(w) PROVE ServerInv'
  BY <1>14 DEF UserCloses, serverVars
<1> QED
  BY <1>1, <1>2, <1>3, <1>4, <1>5, <1>6, <1>7, <1>8, <1>9, <1>11, <1>12,
     <1>13, <1>14 DEF ShellNext, Main, Probe

(* Whenever the application has ended, its server has: before-quit cancels *)
(* every quit while serverProcess is set, and what ends the application    *)
(* then is the child's close event or the timer that kills it.             *)
THEOREM NoServerLeftBehind == ShellSpec => []NoOrphanServer
<1>1. ShellInit => ServerInv
  BY DEF ShellInit, ServerInv, Alive
<1>2. ServerInv => NoOrphanServer
  BY DEF ServerInv, NoOrphanServer, Alive
<1> QED
  BY <1>1, <1>2, ServerStep, PTL DEF ShellSpec

-----------------------------------------------------------------------------
(* Why the probing ends: an attempt is followed by at most two others, and *)
(* only by an attempt that came before the last.                           *)
ProbeInv ==
  /\ attempt \in Nat /\ probes \in Nat /\ timers \in Nat
  /\ timers + 2 * probes <= attempt + 1
  /\ attempt + timers <= 2 * MaxRetries - 1
  /\ startup = "none" => attempt = 0 /\ probes = 0 /\ timers = 0

ShellInv == ShellOK /\ ProbeInv

LEMMA ProbeStep == ProbeInv /\ [ShellNext]_shellVars => ProbeInv'
<1> SUFFICES ASSUME ProbeInv, [ShellNext]_shellVars PROVE ProbeInv'
  OBVIOUS
<1> USE DesktopShellAssumption DEF ProbeInv
<1>1. ASSUME UNCHANGED probing, startup' # "none" \/ startup' = startup PROVE ProbeInv'
  BY <1>1 DEF probing
<1>2. CASE UNCHANGED shellVars
  BY <1>1, <1>2 DEF shellVars
<1>3. CASE whenReady
  BY <1>3 DEF whenReady
<1>4. CASE ServerAvailable
  <2>1. /\ probes > 0 /\ probes' = probes - 1 /\ UNCHANGED <<attempt, timers>>
        /\ startup' # "none" \/ startup' = startup
    BY <1>4 DEF ServerAvailable
  <2> QED
    BY <2>1
<1>5. ASSUME NEW n \in {1, 2}, NoAnswer(n) PROVE ProbeInv'
  <2>1. /\ probes > 0 /\ probes' = probes - 1 /\ UNCHANGED attempt
        /\ startup' # "none" \/ startup' = startup
        /\ \/ timers' = timers
           \/ attempt < MaxRetries /\ timers' = timers + n
    BY <1>5 DEF NoAnswer, StartFailed
  <2> QED
    BY <2>1
<1>6. CASE tryConnect
  BY <1>6 DEF tryConnect
<1>7. CASE KillTimer
  BY <1>1, <1>7 DEF KillTimer
<1>8. CASE ServerClosed
  BY <1>1, <1>8 DEF ServerClosed
<1>9. CASE SpawnError
  BY <1>1, <1>9 DEF SpawnError, StartFailed
<1>10. CASE ServerListens
  BY <1>1, <1>10 DEF ServerListens
<1>11. ASSUME NEW c \in {"zero", "signal", "failure"}, ServerExits(c) PROVE ProbeInv'
  BY <1>1, <1>11 DEF ServerExits
<1>12. CASE ClickQuit \/ SystemQuit \/ ClickTray \/ activate
  BY <1>1, <1>12 DEF ClickQuit, SystemQuit, ClickTray, activate, serverVars
<1>13. ASSUME NEW d \in Dialog, AnswerDialog(d) PROVE ProbeInv'
  BY <1>1, <1>13 DEF AnswerDialog, serverVars
<1>14. ASSUME NEW w \in Window, UserCloses(w) PROVE ProbeInv'
  BY <1>1, <1>14 DEF UserCloses, serverVars
<1> QED
  BY <1>2, <1>3, <1>4, <1>5, <1>6, <1>7, <1>8, <1>9, <1>10, <1>11, <1>12,
     <1>13, <1>14 DEF ShellNext, Main, Probe, ProbeFails, ProbeTimesOut

(* What createWindow, closeWindow, quit and exit do to the windows: they   *)
(* never leave mainWindow at one that is gone.                             *)
WindowsOK ==
  /\ window' \in [Window -> {"gone", "hidden", "shown"}]
  /\ mainWindow' \in {NoWindow} \cup {w \in Window : window'[w] # "gone"}

(* A new window becomes the main one.                                      *)
LEMMA CreateWindows ==
  ASSUME ShellOK, \E w \in Window : createWindow(w)
  PROVE  WindowsOK
BY DEF ShellOK, createWindow, WindowsOK

(* Hiding, closing and ending.                                             *)
LEMMA CloseWindows ==
  ASSUME ShellOK,
         \/ \E w \in Window \cup {NoWindow} : closeWindow(w)
         \/ exit
         \/ \E v \in {"hidden", "shown"} :
              window' = [window EXCEPT ![mainWindow] = v] /\ mainWindow' = mainWindow
         \/ UNCHANGED <<window, mainWindow>>
  PROVE  WindowsOK
<1> USE DesktopShellAssumption DEF ShellOK, WindowsOK
<1>1. CASE \E v \in {"hidden", "shown"} :
              window' = [window EXCEPT ![mainWindow] = v] /\ mainWindow' = mainWindow
  BY <1>1
<1>2. CASE exit
  BY <1>2 DEF exit
<1>3. CASE \E w \in Window \cup {NoWindow} : closeWindow(w)
  BY <1>1, <1>3 DEF closeWindow, WindowClosed
<1>4. CASE UNCHANGED <<window, mainWindow>>
  BY <1>4
<1> QED
  BY <1>1, <1>2, <1>3, <1>4

(* quit leaves the windows in order, and its flags flags.                  *)
LEMMA QuitWindows ==
  ASSUME ShellOK, quit
  PROVE  /\ WindowsOK
         /\ shutdown' \in BOOLEAN /\ app' \in {"running", "exited"}
<1>1. CASE beforeQuit
  <2>1. shutdown' = TRUE /\ app' = app /\ UNCHANGED <<window, mainWindow>>
    BY <1>1 DEF beforeQuit
  <2> QED
    BY <2>1, CloseWindows DEF ShellOK
<1>2. CASE quitWindows
  <2>1. shutdown' = shutdown /\ app' \in {app, "exited"}
    BY <1>2 DEF quitWindows
  <2>2. \/ exit
        \/ /\ window' = [window EXCEPT ![mainWindow] = "hidden"]
           /\ mainWindow' = mainWindow
    BY <1>2 DEF quitWindows, exit
  <2> QED
    BY <2>1, <2>2, CloseWindows DEF ShellOK
<1> QED
  BY <1>1, <1>2 DEF quit

(* Every handler keeps the ranges.                                         *)
LEMMA ShellStep == ShellInv /\ [ShellNext]_shellVars => ShellInv'
<1> SUFFICES ASSUME ShellInv, [ShellNext]_shellVars PROVE ShellInv'
  OBVIOUS
<1> USE DesktopShellAssumption
<1>a. ShellOK
  BY DEF ShellInv
<1>b. /\ isDev \in BOOLEAN /\ taken \in BOOLEAN /\ serverProcess \in BOOLEAN
      /\ shutdown \in BOOLEAN /\ isQuitting \in BOOLEAN /\ tray \in BOOLEAN
  BY <1>a DEF ShellOK
<1>p. /\ ProbeInv' /\ attempt' \in 0..(2 * MaxRetries - 1)
      /\ probes' \in Nat /\ timers' \in Nat
  BY ProbeStep DEF ShellInv, ProbeInv
<1> USE <1>p
<1>1. CASE UNCHANGED shellVars
  BY <1>1 DEF shellVars, ShellInv, ShellOK
<1>2. CASE whenReady
  <2>1. serverProcess' \in BOOLEAN
    BY <1>b, <1>2, Zenon DEF whenReady
  <2> QED
    BY <1>2, <2>1 DEF whenReady, uiVars, ShellInv, ShellOK
<1>3. CASE ServerAvailable
  <2>1. UNCHANGED <<isDev, taken, serverProcess, child, code, isQuitting, dialogs,
                    shutdown, app>>
    BY <1>3 DEF ServerAvailable
  <2>2. CASE startup = "pending"
    <3>1. WindowsOK /\ tray' = TRUE /\ startup' = "resolved"
      BY <1>3, <1>a, <2>2, CreateWindows DEF ServerAvailable
    <3> QED
      BY <2>1, <3>1 DEF WindowsOK, ShellInv, ShellOK
  <2>3. CASE startup # "pending"
    <3>1. UNCHANGED <<window, mainWindow, tray, startup>>
      BY <1>3, <2>3 DEF ServerAvailable
    <3>2. WindowsOK
      BY <1>a, <3>1, CloseWindows
    <3> QED
      BY <1>b, <2>1, <3>1, <3>2 DEF WindowsOK, ShellInv, ShellOK
  <2> QED
    BY <2>2, <2>3
<1>4. CASE ProbeFails \/ ProbeTimesOut
  <2>1. PICK n \in {1, 2} : NoAnswer(n)
    BY <1>4 DEF ProbeFails, ProbeTimesOut
  <2>2. /\ startup' \in {startup, "rejected"} /\ dialogs' \subseteq Dialog
        /\ UNCHANGED <<isDev, taken, serverProcess, child, code, isQuitting, tray,
                       window, mainWindow, shutdown, app>>
    BY <1>a, <2>1 DEF NoAnswer, StartFailed, Dialog, ShellOK
  <2> QED
    BY <2>2 DEF ShellInv, ShellOK
<1>16. CASE tryConnect
  BY <1>16 DEF tryConnect, uiVars, ShellInv, ShellOK
<1>5. CASE KillTimer
  <2>1. WindowsOK
    BY <1>5, <1>a, CloseWindows DEF KillTimer
  <2>2. /\ child' \in {child, "exited"} /\ app' = "exited"
        /\ UNCHANGED <<isDev, taken, startup, serverProcess, code,
                       isQuitting, dialogs, tray, shutdown>>
    BY <1>5 DEF KillTimer, exit
  <2> QED
    BY <2>1, <2>2 DEF WindowsOK, ShellInv, ShellOK
<1>6. CASE ServerClosed
  <2>1. /\ code' = "none"
        /\ dialogs' \in {dialogs, dialogs \cup {"crash"}}
        /\ UNCHANGED <<isDev, taken, startup, child, isQuitting, tray,
                       shutdown>>
    BY <1>6 DEF ServerClosed
  <2>2. app' \in {app, "exited"} /\ serverProcess' \in BOOLEAN
    <3>1. CASE shutdown
      BY <1>6, <3>1 DEF ServerClosed, exit
    <3>2. CASE ~shutdown
      BY <1>b, <1>6, <3>2 DEF ServerClosed
    <3> QED
      BY <3>1, <3>2
  <2>3. WindowsOK
    <3>1. mainWindow \in Window \cup {NoWindow}
      BY <1>a DEF ShellOK
    <3>2. exit \/ closeWindow(mainWindow) \/ UNCHANGED <<window, mainWindow>>
      BY <1>6 DEF ServerClosed
    <3> QED
      BY <1>a, <3>1, <3>2, CloseWindows
  <2> QED
    BY <2>1, <2>2, <2>3 DEF WindowsOK, Dialog, Code, ShellInv, ShellOK
<1>7. CASE SpawnError
  <2>1. CASE startup = "pending"
    BY <1>7, <2>1 DEF SpawnError, StartFailed, Dialog, Code, ShellInv, ShellOK
  <2>2. CASE startup # "pending"
    BY <1>7, <2>2 DEF SpawnError, StartFailed, Code, ShellInv, ShellOK
  <2> QED
    BY <2>1, <2>2
<1>8. CASE ServerListens
  BY <1>8 DEF ServerListens, uiVars, ShellInv, ShellOK
<1>9. CASE \E c \in {"zero", "signal", "failure"} : ServerExits(c)
  BY <1>9 DEF ServerExits, uiVars, Code, ShellInv, ShellOK
<1>10. CASE ClickQuit
  <2>1. quit /\ isQuitting' = TRUE /\ UNCHANGED <<serverVars, dialogs, tray>>
    BY <1>10 DEF ClickQuit
  <2>2. WindowsOK /\ shutdown' \in BOOLEAN /\ app' \in {"running", "exited"}
    BY <1>a, <2>1, QuitWindows
  <2> QED
    BY <2>1, <2>2 DEF serverVars, WindowsOK, ShellInv, ShellOK
<1>11. CASE SystemQuit
  <2>1. quit /\ isQuitting' = isQuitting /\ UNCHANGED <<serverVars, dialogs, tray>>
    BY <1>11 DEF SystemQuit
  <2>2. WindowsOK /\ shutdown' \in BOOLEAN /\ app' \in {"running", "exited"}
    BY <1>a, <2>1, QuitWindows
  <2> QED
    BY <2>1, <2>2 DEF serverVars, WindowsOK, ShellInv, ShellOK
<1>12. CASE ClickTray
  <2>1. UNCHANGED <<serverVars, isQuitting, dialogs, tray, shutdown, app>>
    BY <1>12 DEF ClickTray
  <2>2. WindowsOK
    BY <1>12, <1>a, CreateWindows, CloseWindows DEF ClickTray
  <2> QED
    BY <2>1, <2>2 DEF serverVars, WindowsOK, ShellInv, ShellOK
<1>13. CASE activate
  <2>1. UNCHANGED <<serverVars, isQuitting, dialogs, tray, shutdown, app>>
    BY <1>13 DEF activate
  <2>2. WindowsOK
    BY <1>13, <1>a, CreateWindows DEF activate
  <2> QED
    BY <2>1, <2>2 DEF serverVars, WindowsOK, ShellInv, ShellOK
<1>14. ASSUME NEW d \in Dialog, AnswerDialog(d) PROVE ShellInv'
  <2>1. UNCHANGED <<serverVars, tray>>
    BY <1>14 DEF AnswerDialog
  <2>2. dialogs' \subseteq Dialog
    <3>1. dialogs \subseteq Dialog
      BY <1>a DEF ShellOK
    <3> QED
      BY <1>14, <3>1 DEF AnswerDialog, Dialog
  <2>3. CASE UNCHANGED <<isQuitting, window, mainWindow, shutdown, app>>
    BY <2>1, <2>2, <2>3 DEF serverVars, ShellInv, ShellOK
  <2>4. CASE isQuitting' = (isQuitting \/ d \in {"crash", "crashLog"}) /\ quit
    <3>1. WindowsOK /\ shutdown' \in BOOLEAN /\ app' \in {"running", "exited"}
      BY <1>a, <2>4, QuitWindows
    <3>2. isQuitting' \in BOOLEAN
      BY <2>4, Zenon
    <3> QED
      BY <2>1, <2>2, <3>1, <3>2 DEF serverVars, WindowsOK, ShellInv, ShellOK
  <2> QED
    BY <1>14, <2>3, <2>4, Zenon DEF AnswerDialog
<1>15. ASSUME NEW w \in Window, UserCloses(w) PROVE ShellInv'
  <2>1. UNCHANGED <<serverVars, isQuitting, dialogs, tray, shutdown, app>>
    BY <1>15 DEF UserCloses
  <2>2. WindowsOK
    BY <1>15, <1>a, CloseWindows DEF UserCloses
  <2> QED
    BY <2>1, <2>2 DEF serverVars, WindowsOK, ShellInv, ShellOK
<1> QED
  BY <1>1, <1>2, <1>3, <1>4, <1>5, <1>6, <1>7, <1>8, <1>9, <1>10, <1>11, <1>12,
     <1>13, <1>14, <1>15, <1>16 DEF ShellNext, Main, Probe

(* No handler uses a window that is gone, and checkServerAvailability      *)
(* makes fewer than twice its retries, however the child, the user, the    *)
(* timeouts, the timers and the dock interleave.                           *)
THEOREM ShellAlwaysOK == ShellSpec => []ShellOK
<1>1. ShellInit => ShellInv
  <2> SUFFICES ASSUME ShellInit PROVE ShellInv
    OBVIOUS
  <2>1. /\ isDev \in BOOLEAN /\ taken \in BOOLEAN /\ serverProcess \in BOOLEAN
        /\ shutdown \in BOOLEAN /\ isQuitting \in BOOLEAN /\ tray \in BOOLEAN
    BY DesktopShellAssumption, Zenon DEF ShellInit
  <2>2. ProbeInv /\ attempt \in 0..(2 * MaxRetries - 1)
    BY DesktopShellAssumption DEF ShellInit, ProbeInv
  <2> QED
    BY <2>1, <2>2 DEF ShellInit, Code, ShellInv, ShellOK
<1>2. ShellInv => ShellOK
  BY DEF ShellInv
<1> QED
  BY <1>1, <1>2, ShellStep, PTL DEF ShellSpec

=============================================================================
