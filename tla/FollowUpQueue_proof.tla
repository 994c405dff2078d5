------------------------- MODULE FollowUpQueue_proof ---------------------------
(*****************************************************************************)
(* Proofs about one thread's conversation, for any number of messages and    *)
(* runs: types, that a deletion takes back what was shown, that the legs     *)
(* of a thread answer the end of its conversation, and that what is saved    *)
(* is on one path. The shape of what waits comes first: sound requests, at   *)
(* most one steer of each visibility, rows below older rows. The last part   *)
(* is the refinement: the conversation is an inbox.                          *)
(*****************************************************************************)
EXTENDS FollowUpQueue, SequenceLemmas

USE DEF threadVars, loopVars, Goto
--------------------------------------------------------------------------------
(*****************************************************************************)
(* Requests and drafts.                                                      *)
(*****************************************************************************)
\* Requests as the code makes them: a request has the message it is named
\* after, and its messages are hidden if and only if it is.
SoundRequests ==
  {q \in Requests : /\ q.id \in ToSet(q.body)
                    /\ \A item \in ToSet(q.body) : item \in Hidden <=> q.hidden}

\* The request of one message is sound.
LEMMA NewSound ==
  ASSUME NEW m \in Items
  PROVE  /\ NewRequest(m) \in SoundRequests
         /\ NewRequest(m).id = m /\ NewRequest(m).body = <<m>>
         /\ NewRequest(m).hidden = (m \in Hidden) /\ ToSet(NewRequest(m).body) = {m}
<1>1. ToSet(<<m>>) = {m}
  BY DEF ToSet
<1>2. NewRequest(m) \in Requests
  BY DEF NewRequest, Requests
<1> QED BY <1>1, <1>2 DEF NewRequest, SoundRequests

\* Merging requests of one visibility gives a sound one with both bodies.
LEMMA MergeSound ==
  ASSUME NEW a \in SoundRequests, NEW b \in SoundRequests, a.hidden = b.hidden,
         NEW id \in {a.id, b.id}
  PROVE  /\ Merge(a, b, id) \in SoundRequests
         /\ Merge(a, b, id).id = id /\ Merge(a, b, id).hidden = a.hidden
         /\ Merge(a, b, id).body = a.body \o b.body
         /\ ToSet(Merge(a, b, id).body) = ToSet(a.body) \cup ToSet(b.body)
<1>1. /\ a \in Requests /\ b \in Requests
      /\ a.id \in ToSet(a.body) /\ b.id \in ToSet(b.body)
      /\ \A item \in ToSet(a.body) \cup ToSet(b.body) : item \in Hidden <=> a.hidden
  BY DEF SoundRequests
<1>2. a.body \in Seq(Items) /\ b.body \in Seq(Items)
  BY <1>1 DEF Requests
<1>3. ToSet(a.body \o b.body) = ToSet(a.body) \cup ToSet(b.body)
  BY <1>2, ToSetConcat
<1>4. a.body \o b.body \in Seq(Items)
  BY <1>2, ConcatProperties
<1>5. /\ Merge(a, b, id).id = id /\ Merge(a, b, id).hidden = a.hidden
      /\ Merge(a, b, id).body = a.body \o b.body /\ Merge(a, b, id) \in Requests
  BY <1>1, <1>4 DEF Merge, Requests
<1> QED BY <1>1, <1>3, <1>5 DEF SoundRequests

\* queueFollowUp leaves sound requests in the draft.
LEMMA WithFollowUpType ==
  ASSUME NEW s \in Seq(SoundRequests), NEW n \in SoundRequests
  PROVE  WithFollowUp(s, n) \in Seq(SoundRequests)
<1>1. CASE s = <<>>
  BY <1>1 DEF WithFollowUp
<1>2. CASE s # <<>>
  <2>1. Front(s) \in Seq(SoundRequests) /\ Last(s) \in SoundRequests
    BY <1>2, FrontLast
  <2>2. CASE Last(s).hidden = n.hidden
    <3>1. Merged(Last(s), n) \in SoundRequests
      BY <2>1, <2>2, MergeSound DEF Merged
    <3>2. WithFollowUp(s, n) = Append(Front(s), Merged(Last(s), n))
      BY <1>2, <2>2 DEF WithFollowUp
    <3> QED BY <2>1, <3>1, <3>2
  <2>3. CASE Last(s).hidden # n.hidden
    <3>1. /\ Front(s) \o <<n, Last(s)>> \in Seq(SoundRequests)
          /\ Append(s, n) \in Seq(SoundRequests)
      BY <2>1
    <3> QED BY <1>2, <2>3, <3>1 DEF WithFollowUp
  <2> QED BY <2>2, <2>3
<1> QED BY <1>1, <1>2

\* So does queuePendingSteersAfterTerminal.
LEMMA WithSteersQueuedType ==
  ASSUME NEW s \in Seq(SoundRequests), NEW t \in Seq(SoundRequests)
  PROVE  WithSteersQueued(s, t) \in Seq(SoundRequests)
  BY DEF WithSteersQueued

\* The rows of requests, each below the one before it
LEMMA ChainedType ==
  ASSUME NEW X, NEW s \in Seq(Requests), NEW parent \in Nat, rows \in Seq(X)
  PROVE  /\ Chained(s, parent) \in Seq(Rows) /\ Len(Chained(s, parent)) = Len(s)
         /\ \A i \in 1 .. Len(s) :
              /\ Chained(s, parent)[i].kind = "user"
              /\ Chained(s, parent)[i].body = s[i].body
              /\ Chained(s, parent)[i].parent = IF i = 1 THEN parent ELSE Len(rows) + i - 1
<1> DEFINE c == Chained(s, parent)
<1>1. Len(s) \in Nat /\ DOMAIN s = 1 .. Len(s) /\ Len(rows) \in Nat
  OBVIOUS
<1>2. \A i \in 1 .. Len(s) : s[i] \in Requests
  OBVIOUS
<1>3. \A i \in 1 .. Len(s) :
              /\ c[i] \in Rows
              /\ c[i].kind = "user"
              /\ c[i].body = s[i].body
              /\ c[i].parent = IF i = 1 THEN parent ELSE Len(rows) + i - 1
  BY <1>1, <1>2 DEF Chained, Rows, Requests
<1>4. DOMAIN c = 1 .. Len(s) /\ c = [i \in 1 .. Len(s) |-> c[i]]
  BY <1>1 DEF Chained
<1> HIDE DEF c
<1>5. c \in Seq(Rows) /\ Len(c) = Len(s)
  BY <1>1, <1>3, <1>4
<1> QED BY <1>3, <1>5 DEF c

--------------------------------------------------------------------------------
(*****************************************************************************)
(* Rows and paths. collectMessagePath is a recursion over parents, so what   *)
(* it computes is established first.                                         *)
(*****************************************************************************)
\* Every row hangs below an older one, or is a root.
Ordered == rows \in Seq(Rows) /\ \A i \in DOMAIN rows : rows[i].parent < i

\* What the provers need to know of rows
LEMMA RowFacts ==
  ASSUME Ordered
  PROVE  /\ Len(rows) \in Nat /\ DOMAIN rows = 1 .. Len(rows)
         /\ \A j \in 1 .. Len(rows) : rows[j] \in Rows /\ rows[j].parent \in 0 .. j - 1
<1>1. Len(rows) \in Nat /\ DOMAIN rows = 1 .. Len(rows)
  BY DEF Ordered
<1>2. \A j \in 1 .. Len(rows) : rows[j] \in Rows
  BY DEF Ordered
<1>3. \A j \in 1 .. Len(rows) : rows[j].parent \in Nat
  BY <1>2 DEF Rows
<1> QED BY <1>1, <1>2, <1>3 DEF Ordered

\* What collectMessagePath computes, as equations
Climbs(f, N) ==
  /\ DOMAIN f = 0 .. N
  /\ f[0] = {}
  /\ \A j \in 1 .. N : f[j] = {j} \cup f[rows[j].parent]

\* The same as the least closed set of rows, for the existence of a solution
Climb == [j \in 0 .. Len(rows) |->
  {x \in 1 .. Len(rows) : j # 0 /\ \A A \in SUBSET (1 .. Len(rows)) :
     /\ j \in A
     /\ \A k \in A : rows[k].parent # 0 => rows[k].parent \in A
     => x \in A}]

\* The equations have a solution.
LEMMA ClimbExists ==
  ASSUME Ordered
  PROVE  Climbs(Climb, Len(rows))
<1> DEFINE N == Len(rows)
           Closed(A) == \A k \in A : rows[k].parent # 0 => rows[k].parent \in A
<1>1. N \in Nat /\ \A j \in 1 .. N : rows[j].parent \in 0 .. N
  BY RowFacts
<1>2. \A j \in 1 .. N, x \in 1 .. N :
        x \in Climb[j] <=> \A A \in SUBSET (1 .. N) : j \in A /\ Closed(A) => x \in A
  <2> SUFFICES ASSUME NEW j \in 1 .. N, NEW x \in 1 .. N
               PROVE  x \in Climb[j] <=> \A A \in SUBSET (1 .. N) : j \in A /\ Closed(A) => x \in A
    OBVIOUS
  <2>1. j \in 0 .. N /\ j # 0
    BY <1>1
  <2>2. Climb[j] = {y \in 1 .. N : j # 0 /\ \A A \in SUBSET (1 .. N) : j \in A /\ Closed(A) => y \in A}
    BY <2>1, Zenon DEF Climb
  <2> HIDE DEF Closed, N
  <2> QED BY <2>1, <2>2
<1>3. \A j \in 0 .. N : Climb[j] \subseteq 1 .. N
  BY DEF Climb
<1>4. Climb[0] = {} /\ DOMAIN Climb = 0 .. N
  BY <1>1 DEF Climb
<1> HIDE DEF N
<1>5. ASSUME NEW j \in 1 .. N PROVE Climb[j] = {j} \cup Climb[rows[j].parent]
  <2> DEFINE p == rows[j].parent
             U == {j} \cup Climb[p]
  <2>1. U \subseteq 1 .. N /\ p \in 0 .. N
    BY <1>1, <1>3
  <2>2. j \in Climb[j]
    BY <1>2
  <2>3. \A x \in Climb[p] : x \in Climb[j]
    BY <1>1, <1>2, <1>3, <1>4
  <2>4. Closed(U)
    <3> SUFFICES ASSUME NEW k \in U, rows[k].parent # 0 PROVE rows[k].parent \in U
      OBVIOUS
    <3>1. CASE k = j
      <4>1. p \in 1 .. N
        BY <1>1, <2>1, <3>1
      <4> QED BY <1>2, <3>1, <4>1
    <3>2. CASE k \in Climb[p]
      <4>1. p \in 1 .. N /\ k \in 1 .. N /\ rows[k].parent \in 1 .. N
        BY <1>1, <1>3, <1>4, <2>1, <3>2
      <4>2. rows[k].parent \in Climb[p]
        BY <1>2, <3>2, <4>1
      <4> QED BY <4>2
    <3> QED BY <3>1, <3>2
  <2>5. \A x \in Climb[j] : x \in U
    <3>1. U \in SUBSET (1 .. N) /\ j \in U /\ Climb[j] \subseteq 1 .. N
      BY <1>3, <2>1
    <3> HIDE DEF U, p
    <3> QED BY <1>2, <2>4, <3>1
  <2> QED BY <2>2, <2>3, <2>5
<1> QED BY <1>4, <1>5 DEF Climbs, N

\* The equations of the function that Path is defined by
Solves(f, up, N) == f[0] = {} /\ \A j \in 1 .. N : f[j] = {j} \cup f[up[j]]

\* Such equations have one solution.
LEMMA ClimbUnique ==
  ASSUME NEW N \in Nat, NEW f, NEW g, NEW up, \A j \in 1 .. N : up[j] \in 0 .. j - 1,
         Solves(f, up, N), Solves(g, up, N)
  PROVE  \A j \in 0 .. N : f[j] = g[j]
<1> DEFINE P == {n \in 0 .. N : \A k \in 0 .. n : f[k] = g[k]}
<1>1. 0 \in P
  <2>1. \A k \in 0 .. 0 : k = 0
    OBVIOUS
  <2>2. \A k \in 0 .. 0 : f[k] = g[k]
    BY <2>1, Zenon DEF Solves
  <2>3. 0 \in 0 .. N
    OBVIOUS
  <2> QED BY <2>2, <2>3, Zenon
<1>2. ASSUME NEW n \in P, n \in 0 .. N - 1 PROVE n + 1 \in P
  <2>1. n + 1 \in 1 .. N /\ up[n + 1] \in 0 .. n
    BY <1>2
  <2>2. f[n + 1] = g[n + 1]
    BY <1>2, <2>1 DEF Solves
  <2> QED BY <1>2, <2>1, <2>2
<1>3. N \in P
  <2> HIDE DEF P
  <2> QED BY <1>1, <1>2, InductionUpTo
<1> QED BY <1>3

\* Path computes what the equations say, although it is defined by recursion.
LEMMA PathEquations ==
  Ordered => /\ Path(0) = {}
             /\ \A j \in 1 .. Len(rows) : Path(j) = {j} \cup Path(rows[j].parent)
<1> SUFFICES ASSUME Ordered
             PROVE  /\ Path(0) = {}
                    /\ \A j \in 1 .. Len(rows) : Path(j) = {j} \cup Path(rows[j].parent)
  OBVIOUS
<1> DEFINE N == Len(rows)
           Def(f) == f = [j \in 0 .. N |-> IF j = 0 THEN {} ELSE {j} \cup f[rows[j].parent]]
           up == CHOOSE f : Def(f)
<1>1. N \in Nat /\ \A j \in 1 .. N : rows[j].parent \in 0 .. N
  BY RowFacts
<1>2. Climbs(Climb, N) /\ Climb = [j \in 0 .. N |-> Climb[j]]
  BY ClimbExists DEF Climb
<1>3. \A i : Path(i) = up[i]
  BY DEF Path
<1> HIDE DEF N
<1>4. Def(Climb)
  <2> DEFINE c == Climb
  <2>1. c = [j \in 0 .. N |-> c[j]] /\ c[0] = {}
        /\ \A j \in 1 .. N : c[j] = {j} \cup c[rows[j].parent]
    BY <1>2 DEF Climbs
  <2> HIDE DEF c
  <2>2. \A j \in 0 .. N : c[j] = IF j = 0 THEN {} ELSE {j} \cup c[rows[j].parent]
    BY <1>1, <2>1
  <2>3. Def(c)
    BY <2>1, <2>2, Zenon
  <2> QED BY <2>3 DEF c
<1>5. Def(up)
  BY <1>4
<1> HIDE DEF up
<1>6. up[0] = {} /\ \A j \in 1 .. N : up[j] = {j} \cup up[rows[j].parent]
  BY <1>1, <1>5
<1> QED BY <1>3, <1>6 DEF N

\* Rows that are saved later change no path there is.
LEMMA PathStays ==
  ASSUME Ordered, Ordered', Len(rows) <= Len(rows'),
         \A j \in 1 .. Len(rows) : rows'[j].parent = rows[j].parent
  PROVE  \A j \in 0 .. Len(rows) : Path(j)' = Path(j)
<1> DEFINE N == Len(rows)
           up == [j \in 1 .. N |-> rows[j].parent]
           f == [j \in 0 .. N |-> Path(j)]
           g == [j \in 0 .. N |-> Path(j)']
<1>1. /\ N \in Nat /\ Len(rows)' \in Nat
      /\ \A j \in 1 .. N : up[j] = rows[j].parent /\ up[j] \in 0 .. j - 1
  BY RowFacts DEF Ordered
<1>2. \A j \in 0 .. N : f[j] = Path(j) /\ g[j] = Path(j)'
  OBVIOUS
<1>3. Solves(f, up, N)
  <2> HIDE DEF f, g, up
  <2>1. \A j \in 1 .. N : j \in 0 .. N /\ up[j] \in 0 .. N
    BY <1>1
  <2> QED BY <1>1, <1>2, <2>1, PathEquations DEF Solves
<1>4. Solves(g, up, N)
  <2>1. (/\ Path(0) = {}
         /\ \A j \in 1 .. Len(rows) : Path(j) = {j} \cup Path(rows[j].parent))'
    BY PathEquations, PTL
  <2> HIDE DEF f, g, up
  <2>2. \A j \in 1 .. N : j \in 0 .. N /\ up[j] \in 0 .. N /\ j \in 1 .. Len(rows')
    BY <1>1
  <2> QED BY <1>1, <1>2, <2>1, <2>2 DEF Solves
<1> HIDE DEF N, f, g, up
<1>5. \A j \in 0 .. N : f[j] = g[j]
  <2>1. N \in Nat /\ \A j \in 1 .. N : up[j] \in 0 .. j - 1
    BY <1>1
  <2> QED BY <2>1, <1>3, <1>4, ClimbUnique
<1> QED BY <1>2, <1>5 DEF N

\* A row is on the path from itself, and so the latest leaf below it exists.
LEMMA LeafExists ==
  ASSUME Ordered, NEW i \in DOMAIN rows
  PROVE  LatestLeaf(i) \in DOMAIN rows
<1> DEFINE T == {j \in DOMAIN rows : i \in Path(j)}
<1>1. Len(rows) \in Nat /\ DOMAIN rows = 1 .. Len(rows)
  BY RowFacts
<1>2. i \in T
  BY <1>1, PathEquations
<1>3. T \in SUBSET (0 .. Len(rows))
  BY <1>1
<1> HIDE DEF T
<1>4. Max(T) \in T
  BY <1>1, <1>2, <1>3, MaxOfBounded
<1> QED BY <1>4 DEF T, LatestLeaf

--------------------------------------------------------------------------------
(*****************************************************************************)
(* The steers of a run.                                                      *)
(*****************************************************************************)
\* What the steers of a run can be: a hidden one, a visible one, or both in that order
Pairs ==
  {s \in Seq(SoundRequests) : Len(s) <= 2 /\ (Len(s) = 2 => s[1].hidden /\ ~s[2].hidden)}

\* There are three kinds of them.
LEMMA PairCases ==
  ASSUME NEW s \in Pairs
  PROVE  \/ s = <<>>
         \/ \E a \in SoundRequests : s = <<a>>
         \/ \E a, b \in SoundRequests : a.hidden /\ ~b.hidden /\ s = <<a, b>>
<1>1. s \in Seq(SoundRequests) /\ Len(s) \in {0, 1, 2}
  <2>1. s \in Seq(SoundRequests) /\ Len(s) <= 2
    BY DEF Pairs
  <2>2. Len(s) \in Nat
    BY <2>1
  <2>3. Len(s) \in {0, 1, 2}
    <3> DEFINE n == Len(s)
    <3>1. n \in Nat /\ n <= 2
      BY <2>1, <2>2
    <3> HIDE DEF n
    <3>2. n \in {0, 1, 2}
      BY <3>1
    <3> QED BY <3>2 DEF n
  <2> QED BY <2>1, <2>3
<1>2. CASE Len(s) = 0
  BY <1>1, <1>2
<1>3. CASE Len(s) = 1
  <2>1. s[1] \in SoundRequests /\ s = <<s[1]>>
    BY <1>1, <1>3
  <2> QED BY <2>1
<1>4. CASE Len(s) = 2
  <2>1. s[1] \in SoundRequests /\ s[2] \in SoundRequests
    BY <1>1, <1>4
  <2>3. s = <<s[1], s[2]>>
    <3> DEFINE S == SoundRequests
    <3> HIDE DEF S
    <3>1. s \in Seq(S) /\ <<s[1], s[2]>> \in Seq(S)
      BY <1>1, <2>1 DEF S
    <3>2. Len(<<s[1], s[2]>>) = 2 /\ <<s[1], s[2]>>[1] = s[1] /\ <<s[1], s[2]>>[2] = s[2]
      OBVIOUS
    <3>3. \A i \in 1 .. 2 : s[i] = <<s[1], s[2]>>[i]
      <4>1. \A i \in 1 .. 2 : i = 1 \/ i = 2
        OBVIOUS
      <4> QED BY <3>2, <4>1, Zenon
    <3> QED BY <1>4, <3>1, <3>2, <3>3, SeqEqual, Zenon
  <2>2. s[1].hidden /\ ~s[2].hidden
    BY <1>4 DEF Pairs
  <2> QED BY <2>1, <2>2, <2>3, Zenon
<1> QED BY <1>1, <1>2, <1>3, <1>4

\* And each of the three kinds is one.
LEMMA PairsAre ==
  /\ <<>> \in Pairs
  /\ \A a \in SoundRequests : <<a>> \in Pairs
  /\ \A a, b \in SoundRequests : a.hidden /\ ~b.hidden => <<a, b>> \in Pairs
<1> DEFINE S == SoundRequests
<1> HIDE DEF S
<1>1. <<>> \in Seq(S) /\ Len(<<>>) = 0
  OBVIOUS
<1>2. \A a \in S : <<a>> \in Seq(S) /\ Len(<<a>>) = 1
  OBVIOUS
<1>3. \A a, b \in S : <<a, b>> \in Seq(S) /\ Len(<<a, b>>) = 2 /\ <<a, b>>[1] = a /\ <<a, b>>[2] = b
  OBVIOUS
<1> QED BY <1>1, <1>2, <1>3 DEF S, Pairs

--------------------------------------------------------------------------------
\* No request has no message.
LEMMA MessagesEmpty == MessagesOf(<<>>) = {}
  BY DEF MessagesOf

\* One request has the messages of its body.
LEMMA MessagesOne ==
  ASSUME NEW q
  PROVE  MessagesOf(<<q>>) = ToSet(q.body) \cap Msgs
<1>1. DOMAIN <<q>> = {1} /\ <<q>>[1] = q
  OBVIOUS
<1> QED BY <1>1, Zenon DEF MessagesOf

\* Two requests have the messages of both.
LEMMA MessagesTwo ==
  ASSUME NEW p, NEW q
  PROVE  MessagesOf(<<p, q>>) = MessagesOf(<<p>>) \cup MessagesOf(<<q>>)
<1> DEFINE s == <<p, q>>
<1>1. DOMAIN s = {1, 2} /\ s[1] = p /\ s[2] = q
  OBVIOUS
<1> HIDE DEF s
<1>2. MessagesOf(s) = (ToSet(p.body) \cup ToSet(q.body)) \cap Msgs
  BY <1>1 DEF MessagesOf
<1> QED BY <1>2, MessagesOne DEF s

\* The bodies of all that waits, and those of a part of it
LEMMA MessagesConcat ==
  ASSUME NEW X, NEW s \in Seq(X), NEW t \in Seq(X)
  PROVE  MessagesOf(s \o t) = MessagesOf(s) \cup MessagesOf(t)
<1> DEFINE u == s \o t
<1>1. /\ Len(s) \in Nat /\ Len(t) \in Nat /\ DOMAIN u = 1 .. Len(s) + Len(t)
      /\ DOMAIN s = 1 .. Len(s) /\ DOMAIN t = 1 .. Len(t)
      /\ \A i \in 1 .. Len(s) : u[i] = s[i]
      /\ \A i \in 1 .. Len(t) : u[Len(s) + i] = t[i]
  OBVIOUS
<1> HIDE DEF u
<1>2. ASSUME NEW m PROVE (\E i \in DOMAIN u : m \in ToSet(u[i].body)) <=>
           (\E i \in DOMAIN s : m \in ToSet(s[i].body)) \/ (\E i \in DOMAIN t : m \in ToSet(t[i].body))
  <2>1. ASSUME NEW i \in DOMAIN u, m \in ToSet(u[i].body)
        PROVE  (\E j \in DOMAIN s : m \in ToSet(s[j].body)) \/ (\E j \in DOMAIN t : m \in ToSet(t[j].body))
    <3>1. CASE i \in 1 .. Len(s)
      BY <1>1, <2>1, <3>1
    <3>2. CASE i \notin 1 .. Len(s)
      <4>1. i - Len(s) \in 1 .. Len(t) /\ Len(s) + (i - Len(s)) = i
        BY <1>1, <3>2
      <4> QED BY <1>1, <2>1, <4>1
    <3> QED BY <3>1, <3>2
  <2>2. ASSUME NEW i \in DOMAIN s, m \in ToSet(s[i].body)
        PROVE  \E j \in DOMAIN u : m \in ToSet(u[j].body)
    <3>1. i \in DOMAIN u
      BY <1>1
    <3> QED BY <1>1, <2>2, <3>1
  <2>3. ASSUME NEW i \in DOMAIN t, m \in ToSet(t[i].body)
        PROVE  \E j \in DOMAIN u : m \in ToSet(u[j].body)
    <3>1. Len(s) + i \in DOMAIN u
      BY <1>1
    <3> QED BY <1>1, <2>3, <3>1
  <2> QED BY <2>1, <2>2, <2>3
<1> QED BY <1>2, Zenon DEF MessagesOf, u

\* A request more brings its messages.
LEMMA MessagesAppend ==
  ASSUME NEW X, NEW s \in Seq(X), NEW q \in X
  PROVE  MessagesOf(Append(s, q)) = MessagesOf(s) \cup MessagesOf(<<q>>)
<1> DEFINE last == <<q>>
<1>1. Append(s, q) = s \o last /\ last \in Seq(X)
  OBVIOUS
<1> HIDE DEF last
<1>2. MessagesOf(s \o last) = MessagesOf(s) \cup MessagesOf(last)
  BY <1>1, MessagesConcat
<1> QED BY <1>1, <1>2, Zenon DEF last

\* addPendingSteerInput case by case: the first steer, one beside another,
\* or merged into it, and the third merged into one of two
LEMMA WithSteerEmpty ==
  ASSUME NEW n \in SoundRequests
  PROVE  WithSteer(<<>>, n) = <<n>>
<1>1. ~ \E i \in DOMAIN <<>> : SameVisibility(<<>>[i], n)
  OBVIOUS
<1>2. <<n>> \o <<>> = <<n>> /\ Append(<<>>, n) = <<n>>
  OBVIOUS
<1> QED BY <1>1, <1>2, Zenon DEF WithSteer

\* A second steer joins the first or stands beside it.
LEMMA WithSteerOne ==
  ASSUME NEW n \in SoundRequests, NEW a \in SoundRequests
  PROVE  /\ a.hidden = n.hidden => WithSteer(<<a>>, n) = <<Merge(a, n, a.id)>>
         /\ n.hidden /\ ~a.hidden => WithSteer(<<a>>, n) = <<n, a>>
         /\ a.hidden /\ ~n.hidden => WithSteer(<<a>>, n) = <<a, n>>
<1> DEFINE s == <<a>>
           f == [i \in DOMAIN s |-> IF SameVisibility(s[i], n) THEN Merge(s[i], n, s[i].id) ELSE s[i]]
<1>1. /\ DOMAIN s = {1} /\ s[1] = a
      /\ <<n>> \o s = <<n, a>>
      /\ Append(s, n) = <<a, n>>
  <2>1. DOMAIN s = {1} /\ s[1] = a
    OBVIOUS
  <2>2. <<n>> \o <<a>> = <<n, a>>
    BY JoinTwo
  <2>3. Append(<<a>>, n) = <<a, n>>
    BY JoinTwo
  <2> QED BY <2>1, <2>2, <2>3, Zenon
<1>2. a.hidden \in BOOLEAN /\ n.hidden \in BOOLEAN
  BY DEF SoundRequests, Requests
<1> HIDE DEF s
<1>3. f = <<f[1]>>
  <2>1. f = [i \in DOMAIN s |-> f[i]]
    OBVIOUS
  <2> HIDE DEF f
  <2> QED BY <1>1, <2>1, MapOne, Zenon
<1>4. CASE a.hidden = n.hidden
  <2>1. WithSteer(s, n) = f
    BY <1>1, <1>4 DEF WithSteer, SameVisibility
  <2>2. f[1] = Merge(a, n, a.id)
    BY <1>1, <1>4 DEF SameVisibility
  <2> QED BY <1>3, <1>4, <2>1, <2>2, Zenon DEF s
<1>5. CASE a.hidden # n.hidden
  <2>1. WithSteer(s, n) = IF n.hidden THEN <<n>> \o s ELSE Append(s, n)
    BY <1>1, <1>5 DEF WithSteer, SameVisibility
  <2> QED BY <1>1, <1>2, <1>5, <2>1, Zenon DEF s
<1> QED BY <1>4, <1>5

\* A third one joins the one of its visibility.
LEMMA WithSteerTwo ==
  ASSUME NEW n \in SoundRequests, NEW a \in SoundRequests, NEW b \in SoundRequests,
         a.hidden, ~b.hidden
  PROVE  /\ n.hidden => WithSteer(<<a, b>>, n) = <<Merge(a, n, a.id), b>>
         /\ ~n.hidden => WithSteer(<<a, b>>, n) = <<a, Merge(b, n, b.id)>>
<1> DEFINE s == <<a, b>>
           f == [i \in DOMAIN s |-> IF SameVisibility(s[i], n) THEN Merge(s[i], n, s[i].id) ELSE s[i]]
<1>1. DOMAIN s = {1, 2} /\ s[1] = a /\ s[2] = b
  OBVIOUS
<1>2. a.hidden \in BOOLEAN /\ b.hidden \in BOOLEAN /\ n.hidden \in BOOLEAN
  BY DEF SoundRequests, Requests
<1> HIDE DEF s
<1>3. f = <<f[1], f[2]>>
  <2>1. f = [i \in DOMAIN s |-> f[i]]
    OBVIOUS
  <2> HIDE DEF f
  <2> QED BY <1>1, <2>1, MapTwo, Zenon
<1>4. WithSteer(s, n) = f
  BY <1>1, <1>2 DEF WithSteer, SameVisibility
<1>5. /\ n.hidden => f[1] = Merge(a, n, a.id) /\ f[2] = b
      /\ ~n.hidden => f[1] = a /\ f[2] = Merge(b, n, b.id)
  BY <1>1, <1>2 DEF SameVisibility
<1> HIDE DEF f
<1> QED BY <1>3, <1>4, <1>5 DEF s

\* addPendingSteerInput keeps to one steer of each visibility, hidden first.
LEMMA WithSteerPairs ==
  ASSUME NEW s \in Pairs, NEW n \in SoundRequests
  PROVE  WithSteer(s, n) \in Pairs
<1>1. CASE s = <<>>
  BY <1>1, WithSteerEmpty, PairsAre
<1>2. CASE \E a \in SoundRequests : s = <<a>>
  <2>1. PICK a \in SoundRequests : s = <<a>>
    BY <1>2
  <2>2. a.hidden \in BOOLEAN /\ n.hidden \in BOOLEAN
    BY DEF SoundRequests, Requests
  <2>3. CASE a.hidden = n.hidden
    <3>1. Merge(a, n, a.id) \in SoundRequests
      BY <2>3, MergeSound
    <3> QED BY <2>1, <2>3, <3>1, WithSteerOne, PairsAre
  <2>4. CASE a.hidden # n.hidden
    BY <2>1, <2>2, <2>4, WithSteerOne, PairsAre
  <2> QED BY <2>3, <2>4
<1>3. CASE \E a, b \in SoundRequests : a.hidden /\ ~b.hidden /\ s = <<a, b>>
  <2>1. PICK a \in SoundRequests, b \in SoundRequests : a.hidden /\ ~b.hidden /\ s = <<a, b>>
    BY <1>3
  <2>2. a.hidden = TRUE /\ b.hidden = FALSE /\ n.hidden \in BOOLEAN
    BY <2>1 DEF SoundRequests, Requests
  <2>3. CASE n.hidden
    <3>1. Merge(a, n, a.id) \in SoundRequests /\ Merge(a, n, a.id).hidden
      BY <2>2, <2>3, MergeSound
    <3> QED BY <2>1, <2>3, <3>1, WithSteerTwo, PairsAre
  <2>4. CASE ~n.hidden
    <3>1. Merge(b, n, b.id) \in SoundRequests /\ ~ Merge(b, n, b.id).hidden
      <4>1. b.hidden = n.hidden
        BY <2>2, <2>4
      <4> QED BY <2>2, <4>1, MergeSound
    <3> QED BY <2>1, <2>4, <3>1, WithSteerTwo, PairsAre
  <2> QED BY <2>3, <2>4
<1> QED BY <1>1, <1>2, <1>3, PairCases

\* removeVisiblePendingSteerInputs on one steer and on two
LEMMA SplitOne ==
  ASSUME NEW a \in SoundRequests
  PROVE  /\ a.hidden => OfVisibility(<<a>>, TRUE) = <<a>> /\ OfVisibility(<<a>>, FALSE) = <<>>
         /\ ~a.hidden => OfVisibility(<<a>>, TRUE) = <<>> /\ OfVisibility(<<a>>, FALSE) = <<a>>
<1> DEFINE s == <<a>>
           H == {q \in ToSet(s) : q.hidden = TRUE}
           V == {q \in ToSet(s) : q.hidden = FALSE}
<1>1. ToSet(s) = {a}
  BY DEF ToSet
<1>2. a.hidden \in BOOLEAN
  BY DEF SoundRequests, Requests
<1>3. a.hidden => a \in H /\ a \notin V
  BY <1>1, <1>2
<1>4. ~a.hidden => a \notin H /\ a \in V
  BY <1>1, <1>2
<1>5. OfVisibility(s, TRUE) = Kept(s, H) /\ OfVisibility(s, FALSE) = Kept(s, V)
  BY DEF OfVisibility
<1> HIDE DEF H, V
<1>6. /\ a \in H => Kept(<<a>>, H) = <<a>>
      /\ a \notin H => Kept(<<a>>, H) = <<>>
      /\ a \in V => Kept(<<a>>, V) = <<a>>
      /\ a \notin V => Kept(<<a>>, V) = <<>>
  BY KeptOne
<1> QED BY <1>3, <1>4, <1>5, <1>6, Zenon DEF s

\* Two steers are split into the hidden one and the visible one.
LEMMA SplitTwo ==
  ASSUME NEW a \in SoundRequests, NEW b \in SoundRequests, a.hidden, ~b.hidden
  PROVE  /\ OfVisibility(<<a, b>>, TRUE) = <<a>>
         /\ OfVisibility(<<a, b>>, FALSE) = <<b>>
<1> DEFINE s == <<a, b>>
           H == {q \in ToSet(s) : q.hidden = TRUE}
           V == {q \in ToSet(s) : q.hidden = FALSE}
           S == SoundRequests
           sa == <<a>>
           sb == <<b>>
           e == <<>>
<1>1. ToSet(s) = {a, b}
  <2>1. DOMAIN s = {1, 2} /\ s[1] = a /\ s[2] = b
    OBVIOUS
  <2> HIDE DEF s
  <2> QED BY <2>1 DEF ToSet
<1>2. a.hidden \in BOOLEAN /\ b.hidden \in BOOLEAN
  BY DEF SoundRequests, Requests
<1>3. a \in H /\ a \notin V /\ b \notin H /\ b \in V
  BY <1>1, <1>2
<1>4. OfVisibility(s, TRUE) = Kept(s, H) /\ OfVisibility(s, FALSE) = Kept(s, V)
  BY DEF OfVisibility
<1> HIDE DEF H, V, S
<1>5. /\ Kept(<<a>>, H) = <<a>> /\ Kept(<<a>>, V) = <<>>
      /\ Kept(<<b>>, H) = <<>> /\ Kept(<<b>>, V) = <<b>>
  BY <1>3, KeptOne
<1>6. /\ sa \in Seq(S) /\ sb \in Seq(S)
  BY DEF S
<1>7. s = sa \o sb
  BY JoinTwo
<1>8. sa \o e = sa /\ e \o sb = sb
  BY <1>6, ConcatEmptySeq
<1> HIDE DEF s, sa, sb, e
<1>9. Kept(s, H) = Kept(sa, H) \o Kept(sb, H) /\ Kept(s, V) = Kept(sa, V) \o Kept(sb, V)
  <2>1. /\ Kept(sa \o sb, H) = Kept(sa, H) \o Kept(sb, H)
        /\ Kept(sa \o sb, V) = Kept(sa, V) \o Kept(sb, V)
    BY <1>6, KeptConcat
  <2> QED BY <1>7, <2>1, Zenon
<1>10. Kept(sa, H) = sa /\ Kept(sa, V) = e /\ Kept(sb, H) = e /\ Kept(sb, V) = sb
  BY <1>5, Zenon DEF sa, sb, e
<1>11. OfVisibility(s, TRUE) = sa /\ OfVisibility(s, FALSE) = sb
  BY <1>4, <1>8, <1>9, <1>10, Zenon
<1> QED BY <1>11, Zenon DEF s, sa, sb

\* The steers of a run are the hidden ones and then the visible ones
LEMMA PairSplits ==
  ASSUME NEW s \in Pairs
  PROVE  /\ OfVisibility(s, TRUE) \in Pairs /\ OfVisibility(s, FALSE) \in Pairs
         /\ OfVisibility(s, TRUE) \o OfVisibility(s, FALSE) = s
         /\ \A i \in DOMAIN OfVisibility(s, TRUE) : OfVisibility(s, TRUE)[i].hidden
         /\ \A i \in DOMAIN OfVisibility(s, FALSE) : ~OfVisibility(s, FALSE)[i].hidden
<1>1. CASE s = <<>>
  <2>1. OfVisibility(<<>>, TRUE) = <<>> /\ OfVisibility(<<>>, FALSE) = <<>>
    BY KeptEmpty DEF OfVisibility
  <2>2. <<>> \o <<>> = <<>>
    OBVIOUS
  <2>3. \A i \in DOMAIN <<>> : FALSE
    OBVIOUS
  <2> QED BY <1>1, <2>1, <2>2, <2>3, PairsAre, Zenon
<1>2. CASE \E a \in SoundRequests : s = <<a>>
  <2>1. PICK a \in SoundRequests : s = <<a>>
    BY <1>2
  <2>2. <<>> \o <<a>> = <<a>> /\ <<a>> \o <<>> = <<a>>
    OBVIOUS
  <2>3. (\A i \in DOMAIN <<>> : FALSE) /\ (\A i \in DOMAIN <<a>> : <<a>>[i] = a)
    OBVIOUS
  <2> QED BY <2>1, <2>2, <2>3, SplitOne, PairsAre, Zenon
<1>3. CASE \E a, b \in SoundRequests : a.hidden /\ ~b.hidden /\ s = <<a, b>>
  <2>1. PICK a \in SoundRequests, b \in SoundRequests : a.hidden /\ ~b.hidden /\ s = <<a, b>>
    BY <1>3
  <2>2. <<a>> \o <<b>> = <<a, b>>
    BY JoinTwo
  <2>3. (\A i \in DOMAIN <<b>> : <<b>>[i] = b) /\ (\A i \in DOMAIN <<a>> : <<a>>[i] = a)
    OBVIOUS
  <2> QED BY <2>1, <2>2, <2>3, SplitTwo, PairsAre, Zenon
<1> QED BY <1>1, <1>2, <1>3, PairCases

\* Requests without the continuation line are requests.
LEMMA TrimmedType ==
  ASSUME NEW s \in Seq(Requests)
  PROVE  [i \in DOMAIN s |-> [s[i] EXCEPT !.body = Kept(@, Msgs)]] \in Seq(Requests)
<1> DEFINE t == [i \in DOMAIN s |-> [s[i] EXCEPT !.body = Kept(@, Msgs)]]
<1>1. Len(s) \in Nat /\ DOMAIN s = 1 .. Len(s) /\ \A i \in 1 .. Len(s) : s[i] \in Requests
  OBVIOUS
<1>2. ASSUME NEW i \in 1 .. Len(s) PROVE t[i] \in Requests
  <2>1. s[i] \in Requests /\ s[i].body \in Seq(Items)
    BY <1>1 DEF Requests
  <2>2. Kept(s[i].body, Msgs) \in Seq(Items)
    BY <2>1, KeptType
  <2> QED BY <1>1, <2>1, <2>2 DEF Requests
<1>3. t = [i \in 1 .. Len(s) |-> t[i]]
  BY <1>1
<1> HIDE DEF t
<1>4. t \in Seq(Requests)
  BY <1>1, <1>2, <1>3
<1> QED BY <1>4 DEF t

\* Dropping the empty ones of them leaves requests.
LEMMA WithoutContinuationType ==
  ASSUME NEW s \in Seq(Requests)
  PROVE  WithoutContinuation(s) \in Seq(Requests)
<1> DEFINE t == [i \in DOMAIN s |-> [s[i] EXCEPT !.body = Kept(@, Msgs)]]
           N == {input \in ToSet(t) : input.body # <<>>}
<1>1. WithoutContinuation(s) = Kept(t, N)
  BY DEF WithoutContinuation
<1>2. t \in Seq(Requests)
  BY TrimmedType
<1> HIDE DEF t, N
<1> QED BY <1>1, <1>2, KeptType

--------------------------------------------------------------------------------
(*****************************************************************************)
(* Types.                                                                    *)
(*****************************************************************************)
\* Types of what controls the loops and the calls
ControlInv ==
  /\ send \in [Msgs -> {"new", "preparing", "accepted", "withdrawn", "lost"}]
  /\ owner \in Runs \cup {NoRun}
  /\ pc \in [Runs -> Pcs]
  /\ abort \in [Runs -> {"none", "plain", "withSteer"}]
  /\ outcome \in [Runs -> {"none", "completed", "failed", "cancelled", "cancelled-with-steer"}]
  /\ handoff \in [Runs -> {"unused", "pending", "used"}]

\* Types of what waits: steers in pairs, sound drafts and clicks
BoxInv ==
  /\ steers \in [Runs -> Pairs]
  /\ draft \in Seq(SoundRequests) /\ click \in Seq(SoundRequests)

\* Types of what refers to rows
RowInv ==
  /\ Ordered
  /\ head \in 0 .. Len(rows)
  /\ seen \in [Msgs -> 0 .. Len(rows)]
  /\ request \in [Runs -> 0 .. Len(rows)]

\* The inductive type invariant: TypeOK, and the shape of what waits, without
\* which the operations on steers and rows are not closed.
TypeInv == ControlInv /\ BoxInv /\ RowInv

\* It holds initially.
LEMMA TypeInit == Init => TypeInv
<1> SUFFICES ASSUME Init PROVE TypeInv
  OBVIOUS
<1>1. ControlInv
  BY DEF Init, ControlInv, Pcs
<1>2. BoxInv
  BY PairsAre DEF Init, BoxInv
<1>3. Ordered /\ Len(rows) = 0
  BY DEF Init, Ordered
<1>4. RowInv
  BY <1>3 DEF Init, RowInv
<1> QED BY <1>1, <1>2, <1>4 DEF TypeInv

--------------------------------------------------------------------------------
\* Every step keeps ControlInv.
LEMMA ControlStep == ASSUME ControlInv, Next PROVE ControlInv'
<1> USE DEF Pcs, WorkPcs
<1>1. ASSUME NEW m \in Msgs, NEW parent, Accept(m, parent) PROVE ControlInv'
  BY <1>1 DEF Accept, StartFreshRun, SendToActiveRun, AddSteer, QueueFollowUp, Launch,
              Fresh, ControlInv
<1>2. ASSUME NEW m \in Msgs, SendChat(m) \/ SendChatWithFiles(m) \/ SendPrepared(m) PROVE ControlInv'
  <2>1. CASE SendChatWithFiles(m)
    BY <2>1 DEF SendChatWithFiles, ControlInv
  <2> QED BY <1>1, <1>2, <2>1 DEF SendChat, SendPrepared
<1>3. CASE CancelRun
  BY <1>3 DEF CancelRun, ControlInv
<1>4. CASE WithdrawPendingSteer
  BY <1>4 DEF WithdrawPendingSteer, End, ControlInv
<1>5. CASE ClickDelete \/ DeleteQueuedFollowUp
  BY <1>5 DEF ClickDelete, DeleteQueuedFollowUp, End, ControlInv
<1>6. CASE RetryMessage \/ SelectReplyBranch
  BY <1>6 DEF RetryMessage, SelectReplyBranch, Launch, Fresh, ControlInv
<1>7. ASSUME NEW r \in Runs, LoopStep(r) PROVE ControlInv'
  <2>1. CASE RequestContextHandoff(r)
    BY <2>1 DEF RequestContextHandoff, ControlInv
  <2>2. CASE LegCompletes(r) \/ LegCompletesWithSteers(r) \/ LegFails(r)
    BY <2>2 DEF LegCompletes, LegCompletesWithSteers, LegFails, ControlInv
  <2>3. CASE ObserveAbort(r) \/ LegRetries(r) \/ NextLeg(r) \/ BackoffAborted(r)
    BY <2>3 DEF ObserveAbort, LegRetries, NextLeg, BackoffAborted, ControlInv
  <2>4. CASE HandleSteerPending(r)
    BY <2>4 DEF HandleSteerPending, CancelSteerPending, PersistSteers, ControlInv
  <2>5. CASE HandoffAnswers(r)
    BY <2>5 DEF HandoffAnswers, CancelSteerPending, PersistSteers, ControlInv
  <2>6. CASE Release(r) \/ LegReturns(r)
    BY <2>6 DEF Release, LegReturns, ControlInv
  <2>7. CASE LoopEnds(r)
    <3>1. [pc EXCEPT ![r] = "done"] \in [Runs -> Pcs]
      BY DEF ControlInv
    <3> QED BY <2>7, <3>1 DEF LoopEnds, Launch, Fresh, End, ControlInv
  <2> QED BY <1>7, <2>1, <2>2, <2>3, <2>4, <2>5, <2>6, <2>7 DEF LoopStep
<1> QED BY <1>2, <1>3, <1>4, <1>5, <1>6, <1>7 DEF Next

--------------------------------------------------------------------------------
\* The steers of a run are sound requests.
LEMMA PairsAreSound ==
  ASSUME NEW s \in Pairs
  PROVE  s \in Seq(SoundRequests)
  BY DEF Pairs

\* Sound requests are requests.
LEMMA SoundAreRequests ==
  ASSUME NEW s \in Seq(SoundRequests)
  PROVE  s \in Seq(Requests)
<1>1. SoundRequests \subseteq Requests
  BY DEF SoundRequests
<1> QED BY <1>1

\* Every step keeps BoxInv.
LEMMA BoxStep == ASSUME ControlInv, BoxInv, Next PROVE BoxInv'
<1>1. ASSUME NEW m \in Msgs, NEW parent, Accept(m, parent) PROVE BoxInv'
  <2>1. NewRequest(m) \in SoundRequests
    BY NewSound DEF Items
  <2>2. CASE AddSteer(m) /\ owner \in Runs
    <3>1. steers[owner] \in Pairs
      BY <2>2 DEF BoxInv
    <3>2. WithSteer(steers[owner], NewRequest(m)) \in Pairs
      BY <2>1, <3>1, WithSteerPairs
    <3> QED BY <1>1, <2>2, <3>2 DEF Accept, AddSteer, BoxInv
  <2>3. CASE QueueFollowUp(m)
    <3>1. WithFollowUp(draft, NewRequest(m)) \in Seq(SoundRequests)
      BY <2>1, WithFollowUpType DEF BoxInv
    <3> QED BY <1>1, <2>3, <3>1 DEF Accept, QueueFollowUp, BoxInv
  <2>4. CASE StartFreshRun(m, parent)
    BY <1>1, <2>4 DEF Accept, StartFreshRun, BoxInv
  <2> QED BY <1>1, <2>2, <2>3, <2>4 DEF Accept, SendToActiveRun, ControlInv
<1>2. ASSUME NEW m \in Msgs, SendChat(m) \/ SendChatWithFiles(m) \/ SendPrepared(m) PROVE BoxInv'
  <2>1. CASE SendChatWithFiles(m)
    BY <2>1 DEF SendChatWithFiles, BoxInv
  <2> QED BY <1>1, <1>2, <2>1 DEF SendChat, SendPrepared
<1>3. CASE CancelRun \/ RetryMessage \/ SelectReplyBranch
  BY <1>3 DEF CancelRun, RetryMessage, SelectReplyBranch, BoxInv
<1>4. CASE WithdrawPendingSteer
  <2>1. owner \in Runs
    BY <1>4 DEF WithdrawPendingSteer, ControlInv
  <2>2. OfVisibility(steers[owner], TRUE) \in Pairs
    BY <2>1, PairSplits DEF BoxInv
  <2> QED BY <1>4, <2>1, <2>2 DEF WithdrawPendingSteer, BoxInv
<1>5. CASE ClickDelete
  <2>1. Last(draft) \in SoundRequests
    BY <1>5, FrontLast DEF ClickDelete, BoxInv
  <2>2. <<Last(draft)>> \in Seq(SoundRequests)
    BY <2>1
  <2> QED BY <1>5, <2>2 DEF ClickDelete, BoxInv
<1>6. CASE DeleteQueuedFollowUp
  <2>1. draft # <<>> => Front(draft) \in Seq(SoundRequests)
    BY FrontLast DEF BoxInv
  <2>2. <<>> \in Seq(SoundRequests)
    OBVIOUS
  <2> QED BY <1>6, <2>1, <2>2 DEF DeleteQueuedFollowUp, AfterDelete, BoxInv
<1>7. ASSUME NEW r \in Runs, LoopStep(r) PROVE BoxInv'
  <2>0. <<>> \in Pairs /\ <<>> \in Seq(SoundRequests) /\ steers[r] \in Pairs
    BY PairsAre DEF BoxInv
  <2>1. CASE RequestContextHandoff(r)
    <3>1. WithSteer(steers[r], NewRequest(Continuation)) \in Pairs
      BY <2>0, NewSound, WithSteerPairs DEF Items
    <3> QED BY <2>1, <3>1 DEF RequestContextHandoff, BoxInv
  <2>2. CASE \/ LegCompletes(r) \/ LegCompletesWithSteers(r) \/ LegFails(r) \/ ObserveAbort(r)
             \/ LegRetries(r) \/ NextLeg(r) \/ BackoffAborted(r) \/ Release(r)
    BY <2>2 DEF LegCompletes, LegCompletesWithSteers, LegFails, ObserveAbort, LegRetries,
                NextLeg, BackoffAborted, Release, BoxInv
  <2>3. CASE HandleSteerPending(r) \/ HandoffAnswers(r)
    BY <2>0, <2>3 DEF HandleSteerPending, HandoffAnswers, CancelSteerPending, PersistSteers, BoxInv
  <2>4. CASE LegReturns(r)
    <3>1. WithSteersQueued(draft, steers[r]) \in Seq(SoundRequests)
      BY <2>0, PairsAreSound, WithSteersQueuedType DEF BoxInv
    <3> QED BY <2>0, <2>4, <3>1 DEF LegReturns, BoxInv
  <2>5. CASE LoopEnds(r)
    BY <2>0, <2>5 DEF LoopEnds, BoxInv
  <2> QED BY <1>7, <2>1, <2>2, <2>3, <2>4, <2>5 DEF LoopStep
<1> QED BY <1>2, <1>3, <1>4, <1>5, <1>6, <1>7 DEF Next

\* Rows are only added.
Grown ==
  /\ Ordered' /\ Len(rows) <= Len(rows')
  /\ \A j \in 1 .. Len(rows) : rows'[j] = rows[j]

\* Saving requests appends rows below older ones, and the head exists.
LEMMA SavedRequests ==
  ASSUME Ordered, NEW s \in Seq(Requests), NEW parent \in 0 .. Len(rows),
         SaveRequests(s, parent)
  PROVE  /\ Grown /\ Len(rows') = Len(rows) + Len(s) /\ head' = Len(rows')
         /\ \A i \in 1 .. Len(s) : rows'[Len(rows) + i] = Chained(s, parent)[i]
<1> DEFINE c == Chained(s, parent)
           u == rows'
<1>1. /\ c \in Seq(Rows) /\ Len(c) = Len(s)
      /\ \A i \in 1 .. Len(s) : c[i].parent = IF i = 1 THEN parent ELSE Len(rows) + i - 1
  BY ChainedType DEF Ordered
<1>2. rows \in Seq(Rows) /\ u = rows \o c /\ head' = Len(rows) + Len(s)
  BY DEF SaveRequests, Ordered
<1>3. Len(rows) \in Nat /\ Len(s) \in Nat /\ \A j \in 1 .. Len(rows) : rows[j].parent < j
  BY RowFacts DEF Ordered
<1> HIDE DEF c, u
<1>4. /\ u \in Seq(Rows) /\ Len(u) = Len(rows) + Len(c)
      /\ \A i \in 1 .. Len(rows) + Len(c) : u[i] = IF i <= Len(rows) THEN rows[i] ELSE c[i - Len(rows)]
  <2>1. /\ rows \o c \in Seq(Rows) /\ Len(rows \o c) = Len(rows) + Len(c)
        /\ \A i \in 1 .. Len(rows) + Len(c) :
             (rows \o c)[i] = IF i <= Len(rows) THEN rows[i] ELSE c[i - Len(rows)]
    <3>1. rows \in Seq(Rows) /\ c \in Seq(Rows)
      BY <1>1, <1>2
    <3> QED BY <3>1, ConcatProperties, Zenon
  <2> QED BY <1>2, <2>1, Zenon
<1> DEFINE n == Len(rows)
           k == Len(s)
<1>5. /\ n \in Nat /\ k \in Nat /\ Len(u) = n + k
      /\ \A i \in 1 .. n : u[i] = rows[i]
  BY <1>1, <1>3, <1>4
<1>6. \A i \in 1 .. k : u[n + i] = c[i]
  <2> SUFFICES ASSUME NEW i \in 1 .. k PROVE u[n + i] = c[i]
    OBVIOUS
  <2>1. n + i \in 1 .. n + Len(c) /\ ~(n + i <= n) /\ (n + i) - n = i
    BY <1>1, <1>5
  <2> QED BY <1>4, <2>1
<1>7. \A j \in 1 .. n + k : u[j].parent < j
  <2> SUFFICES ASSUME NEW j \in 1 .. n + k PROVE u[j].parent < j
    OBVIOUS
  <2>1. CASE j <= n
    BY <1>3, <1>5, <2>1
  <2>2. CASE j > n
    <3>1. j - n \in 1 .. k /\ n + (j - n) = j
      BY <1>5, <2>2
    <3>2. u[j] = c[j - n] /\ c[j - n].parent = IF j - n = 1 THEN parent ELSE n + (j - n) - 1
      BY <1>1, <1>6, <3>1
    <3> QED BY <1>5, <3>1, <3>2
  <2> QED BY <1>5, <2>1, <2>2
<1>8. DOMAIN u = 1 .. n + k
  <2>1. DOMAIN u = 1 .. Len(u)
    BY <1>4
  <2> QED BY <1>5, <2>1, Zenon
<1> QED BY <1>2, <1>4, <1>5, <1>6, <1>7, <1>8 DEF Grown, Ordered, u, c

\* So does saving a reply.
LEMMA SavedReply ==
  ASSUME RowInv, NEW r \in Runs, NEW kind \in {"completed", "stopped", "failed"},
         SaveReply(r, kind)
  PROVE  /\ Grown /\ Len(rows') = Len(rows) + 1
         /\ rows'[Len(rows')] = Reply(r, kind)
<1> DEFINE u == rows'
           q == Reply(r, kind)
           n == Len(rows)
<1>1. n \in Nat /\ request[r] \in 0 .. n /\ rows \in Seq(Rows)
      /\ \A j \in 1 .. n : rows[j].parent < j
  BY RowFacts DEF RowInv, Ordered
<1>2. <<>> \in Seq(Items)
  OBVIOUS
<1>3. q \in Rows /\ q.parent = request[r]
  BY <1>1, <1>2 DEF Reply, Rows
<1>4. u = Append(rows, q)
  BY DEF SaveReply
<1> HIDE DEF u, q
<1>5. /\ u \in Seq(Rows) /\ Len(u) = n + 1 /\ DOMAIN u = 1 .. n + 1 /\ u[n + 1] = q
      /\ \A j \in 1 .. n : u[j] = rows[j]
  BY <1>1, <1>3, <1>4
<1>6. \A j \in 1 .. n + 1 : u[j].parent < j
  <2> SUFFICES ASSUME NEW j \in 1 .. n + 1 PROVE u[j].parent < j
    OBVIOUS
  <2> QED BY <1>1, <1>3, <1>5
<1> QED BY <1>1, <1>5, <1>6 DEF Grown, Ordered, u, q

\* Indices of rows stay indices.
LEMMA OrderedStays ==
  ASSUME Ordered, rows' = rows
  PROVE  Ordered' /\ Len(rows') = Len(rows)
<1>1. DOMAIN rows' = DOMAIN rows
  OBVIOUS
<1>2. \A i \in DOMAIN rows' : rows'[i].parent < i
  BY <1>1, Zenon DEF Ordered
<1> QED BY <1>2, Zenon DEF Ordered

\* Steps that touch neither rows nor indices
LEMMA RowsQuiet ==
  ASSUME RowInv, UNCHANGED <<rows, head, seen, request>>
  PROVE  RowInv'
  BY OrderedStays DEF RowInv

\* Every step keeps RowInv.
LEMMA RowStep == ASSUME ControlInv, BoxInv, RowInv, Next PROVE RowInv'
<1>0. Len(rows) \in Nat /\ DOMAIN rows = 1 .. Len(rows)
  BY RowFacts DEF RowInv
<1>1. ASSUME NEW m \in Msgs, NEW parent \in 0 .. Len(rows), Accept(m, parent) PROVE RowInv'
  <2>1. CASE StartFreshRun(m, parent)
    <3>1. <<NewRequest(m)>> \in Seq(Requests) /\ Len(<<NewRequest(m)>>) = 1
      <4>1. NewRequest(m) \in Requests
        BY NewSound DEF Items, SoundRequests
      <4> QED BY <4>1
    <3>2. Grown /\ Len(rows') = Len(rows) + 1 /\ head' = Len(rows')
      BY <2>1, <3>1, SavedRequests DEF StartFreshRun, RowInv
    <3>3. PICK r \in Runs : request' = [request EXCEPT ![r] = head']
      BY <2>1 DEF StartFreshRun, Fresh, Launch
    <3> QED BY <1>0, <1>1, <3>2, <3>3 DEF Accept, Grown, RowInv
  <2>2. CASE SendToActiveRun(m)
    BY <1>1, <2>2, RowsQuiet DEF Accept, SendToActiveRun, AddSteer, QueueFollowUp
  <2> QED BY <1>1, <2>1, <2>2 DEF Accept
<1>2. ASSUME NEW m \in Msgs, SendChat(m) \/ SendChatWithFiles(m) \/ SendPrepared(m) PROVE RowInv'
  <2>1. CASE SendChatWithFiles(m)
    BY <2>1, OrderedStays DEF SendChatWithFiles, RowInv
  <2>2. head \in 0 .. Len(rows) /\ seen[m] \in 0 .. Len(rows)
    BY DEF RowInv
  <2> QED BY <1>1, <1>2, <2>1, <2>2 DEF SendChat, SendPrepared
<1>3. CASE CancelRun \/ WithdrawPendingSteer \/ ClickDelete \/ DeleteQueuedFollowUp
  BY <1>3, RowsQuiet DEF CancelRun, WithdrawPendingSteer, ClickDelete, DeleteQueuedFollowUp
<1>4. CASE RetryMessage
  <2>1. rows' = rows /\ seen' = seen /\ head' \in 0 .. Len(rows)
    BY <1>0, <1>4 DEF RetryMessage, OfKind
  <2>2. PICK r \in Runs : request' = [request EXCEPT ![r] = head']
    BY <1>4 DEF RetryMessage, Fresh, Launch
  <2> QED BY <2>1, <2>2 DEF RowInv, Ordered
<1>5. CASE SelectReplyBranch
  <2>1. PICK i \in DOMAIN rows : head' = LatestLeaf(i)
    BY <1>5 DEF SelectReplyBranch
  <2>2. head' \in 0 .. Len(rows)
    BY <1>0, <2>1, LeafExists DEF RowInv
  <2> QED BY <1>5, <2>2, OrderedStays DEF SelectReplyBranch, RowInv
<1>6. ASSUME NEW r \in Runs, LoopStep(r) PROVE RowInv'
  <2>1. CASE LegCompletes(r) \/ ObserveAbort(r)
    <3>1. Grown /\ Len(rows') = Len(rows) + 1 /\ head' = Len(rows')
      BY <2>1, SavedReply DEF LegCompletes, ObserveAbort
    <3> QED BY <1>0, <2>1, <3>1 DEF LegCompletes, ObserveAbort, Grown, RowInv
  <2>2. CASE LegCompletesWithSteers(r)
    <3>1. Grown /\ Len(rows') = Len(rows) + 1
      BY <2>2, SavedReply DEF LegCompletesWithSteers
    <3> QED BY <1>0, <2>2, <3>1 DEF LegCompletesWithSteers, Grown, RowInv
  <2>3. CASE LegFails(r)
    <3>1. Grown /\ Len(rows') = Len(rows) + 1
      BY <2>3, SavedReply DEF LegFails
    <3> QED BY <1>0, <2>3, <3>1 DEF LegFails, Grown, RowInv
  <2>4. CASE BackoffAborted(r)
    <3>1. CASE SaveReply(r, "stopped") /\ head' = Len(rows')
      <4>1. Grown /\ Len(rows') = Len(rows) + 1 /\ head' = Len(rows')
        BY <3>1, SavedReply
      <4> QED BY <1>0, <2>4, <4>1 DEF BackoffAborted, Grown, RowInv
    <3>2. CASE UNCHANGED <<rows, head>>
      BY <2>4, <3>2, RowsQuiet DEF BackoffAborted
    <3> QED BY <2>4, <3>1, <3>2 DEF BackoffAborted
  <2>5. ASSUME NEW s \in Seq(Requests), PersistSteers(r, s), UNCHANGED seen PROVE RowInv'
    <3>1. request[r] \in 0 .. Len(rows)
      BY DEF RowInv
    <3>2. Grown /\ Len(rows') = Len(rows) + Len(s) /\ head' = Len(rows')
      BY <2>5, <3>1, SavedRequests DEF PersistSteers, RowInv
    <3> QED BY <1>0, <2>5, <3>2 DEF PersistSteers, Grown, RowInv
  <2>6. CASE HandleSteerPending(r)
    <3>1. steers[r] \in Seq(Requests)
      BY PairsAreSound, SoundAreRequests DEF BoxInv
    <3>2. CASE PersistSteers(r, steers[r])
      BY <2>5, <2>6, <3>1, <3>2 DEF HandleSteerPending
    <3>3. CASE ~PersistSteers(r, steers[r])
      BY <2>6, <3>3, RowsQuiet DEF HandleSteerPending, CancelSteerPending
    <3> QED BY <3>2, <3>3
  <2>7. CASE HandoffAnswers(r)
    <3>1. steers[r] \in Seq(Requests) /\ WithoutContinuation(steers[r]) \in Seq(Requests)
      BY PairsAreSound, SoundAreRequests, WithoutContinuationType DEF BoxInv
    <3>2. CASE \E s \in Seq(Requests) : PersistSteers(r, s)
      BY <2>5, <2>7, <3>2 DEF HandoffAnswers
    <3>3. CASE CancelSteerPending(r)
      BY <2>7, <3>3, RowsQuiet DEF HandoffAnswers, CancelSteerPending
    <3> QED BY <2>7, <3>1, <3>2, <3>3 DEF HandoffAnswers
  <2>8. CASE LoopEnds(r)
    <3>1. CASE owner \in {r, NoRun} /\ draft # <<>>
      <4>1. draft \in Seq(Requests)
        BY SoundAreRequests DEF BoxInv
      <4>2. SaveRequests(draft, head) /\ UNCHANGED seen
        BY <2>8, <3>1 DEF LoopEnds
      <4>3. Grown /\ Len(rows') = Len(rows) + Len(draft) /\ head' = Len(rows')
        BY <4>1, <4>2, SavedRequests DEF RowInv
      <4>4. PICK next \in Runs : request' = [request EXCEPT ![next] = head']
        BY <2>8, <3>1 DEF LoopEnds, Fresh, Launch
      <4> QED BY <1>0, <4>1, <4>2, <4>3, <4>4 DEF Grown, RowInv
    <3>2. CASE ~(owner \in {r, NoRun} /\ draft # <<>>)
      BY <2>8, <3>2, RowsQuiet DEF LoopEnds
    <3> QED BY <3>1, <3>2
  <2>9. CASE RequestContextHandoff(r) \/ LegRetries(r) \/ NextLeg(r) \/ Release(r) \/ LegReturns(r)
    BY <2>9, RowsQuiet DEF RequestContextHandoff, LegRetries, NextLeg, Release, LegReturns
  <2> QED BY <1>6, <2>1, <2>2, <2>3, <2>4, <2>6, <2>7, <2>8, <2>9 DEF LoopStep
<1> QED BY <1>2, <1>3, <1>4, <1>5, <1>6 DEF Next

\* Every step keeps TypeInv.
LEMMA TypeStep == ASSUME TypeInv, [Next]_vars PROVE TypeInv'
<1>1. CASE Next
  BY <1>1, ControlStep, BoxStep, RowStep DEF TypeInv
<1>2. CASE UNCHANGED vars
  BY <1>2, RowsQuiet DEF vars, TypeInv, ControlInv, BoxInv
<1> QED BY <1>1, <1>2

\* TypeInv implies the type invariant that TLC checks.
LEMMA TypeInvImplies == TypeInv => TypeOK
<1> SUFFICES ASSUME TypeInv PROVE TypeOK
  OBVIOUS
<1>1. steers \in [Runs -> Seq(Requests)] /\ draft \in Seq(Requests) /\ click \in Seq(Requests)
  BY PairsAreSound, SoundAreRequests DEF TypeInv, BoxInv
<1> QED BY <1>1 DEF TypeInv, ControlInv, RowInv, Ordered, TypeOK

\* TypeInv is an invariant.
THEOREM TypeInvariant == Spec => []TypeInv
BY TypeInit, TypeStep, PTL DEF Spec

\* Steers, drafts and rows are what their types say in every state: the head,
\* what a call has read and what a run answers are rows of the thread.
THEOREM TypeCorrect == Spec => []TypeOK
BY TypeInvariant, TypeInvImplies, PTL

--------------------------------------------------------------------------------
(*****************************************************************************)
(* Which messages the operations on requests keep, and how often.            *)
(*****************************************************************************)
\* No message is in two requests.
NoRepeat(s) ==
  \A i, j \in DOMAIN s : i # j => ToSet(s[i].body) \cap ToSet(s[j].body) \cap Msgs = {}

\* One request repeats nothing.
LEMMA NoRepeatOne ==
  ASSUME NEW q
  PROVE  NoRepeat(<<q>>)
<1>1. \A i, j \in DOMAIN <<q>> : i = j
  OBVIOUS
<1> QED BY <1>1, Zenon DEF NoRepeat

\* Two sequences without repetition that have nothing in common, joined, are
\* one; and so the other way round.
LEMMA NoRepeatConcat ==
  ASSUME NEW X, NEW s \in Seq(X), NEW t \in Seq(X)
  PROVE  NoRepeat(s \o t) <=>
           NoRepeat(s) /\ NoRepeat(t) /\ MessagesOf(s) \cap MessagesOf(t) = {}
<1> DEFINE u == s \o t
           B(q) == ToSet(q.body)
<1>1. /\ Len(s) \in Nat /\ Len(t) \in Nat /\ DOMAIN u = 1 .. Len(s) + Len(t)
      /\ DOMAIN s = 1 .. Len(s) /\ DOMAIN t = 1 .. Len(t)
      /\ \A i \in 1 .. Len(s) : u[i] = s[i]
      /\ \A i \in 1 .. Len(t) : u[Len(s) + i] = t[i]
  OBVIOUS
<1> HIDE DEF u
<1>2. \A i \in DOMAIN s : i \in DOMAIN u /\ u[i] = s[i]
  BY <1>1
<1>3. \A i \in DOMAIN t : Len(s) + i \in DOMAIN u /\ u[Len(s) + i] = t[i] /\ Len(s) + i \notin DOMAIN s
  BY <1>1
<1>4. \A i \in DOMAIN u : i \in DOMAIN s \/ \E k \in DOMAIN t : i = Len(s) + k
  <2> SUFFICES ASSUME NEW i \in DOMAIN u, i \notin DOMAIN s PROVE \E k \in DOMAIN t : i = Len(s) + k
    OBVIOUS
  <2>1. i - Len(s) \in DOMAIN t /\ i = Len(s) + (i - Len(s))
    BY <1>1
  <2> QED BY <2>1
<1>5. \A i, j \in DOMAIN t : i # j => Len(s) + i # Len(s) + j
  BY <1>1
<1>6. MessagesOf(s) \cap MessagesOf(t) = {} <=>
        \A i \in DOMAIN s, j \in DOMAIN t : ToSet(s[i].body) \cap ToSet(t[j].body) \cap Msgs = {}
  <2>1. \A m : m \in MessagesOf(s) <=> m \in Msgs /\ \E i \in DOMAIN s : m \in ToSet(s[i].body)
    BY Zenon DEF MessagesOf
  <2>2. \A m : m \in MessagesOf(t) <=> m \in Msgs /\ \E i \in DOMAIN t : m \in ToSet(t[i].body)
    BY Zenon DEF MessagesOf
  <2> QED BY <2>1, <2>2
<1>7. ASSUME NoRepeat(u)
      PROVE  NoRepeat(s) /\ NoRepeat(t) /\ MessagesOf(s) \cap MessagesOf(t) = {}
  <2>1. NoRepeat(s)
    BY <1>2, <1>7, Zenon DEF NoRepeat
  <2>2. NoRepeat(t)
    BY <1>3, <1>5, <1>7, Zenon DEF NoRepeat
  <2>3. MessagesOf(s) \cap MessagesOf(t) = {}
    <3> SUFFICES ASSUME NEW i \in DOMAIN s, NEW j \in DOMAIN t
                 PROVE  ToSet(s[i].body) \cap ToSet(t[j].body) \cap Msgs = {}
      BY <1>6
    <3>1. Len(s) + j \in DOMAIN u /\ i \in DOMAIN u /\ i # Len(s) + j /\ u[Len(s) + j] = t[j] /\ u[i] = s[i]
      BY <1>2, <1>3
    <3> QED BY <1>7, <3>1, Zenon DEF NoRepeat
  <2> QED BY <2>1, <2>2, <2>3
<1>8. ASSUME NoRepeat(s), NoRepeat(t), MessagesOf(s) \cap MessagesOf(t) = {}
      PROVE  NoRepeat(u)
  <2> SUFFICES ASSUME NEW i \in DOMAIN u, NEW j \in DOMAIN u, i # j
               PROVE  ToSet(u[i].body) \cap ToSet(u[j].body) \cap Msgs = {}
    BY DEF NoRepeat
  <2>0. \A k \in DOMAIN s, l \in DOMAIN t : ToSet(s[k].body) \cap ToSet(t[l].body) \cap Msgs = {}
    BY <1>6, <1>8
  <2>1. CASE i \in DOMAIN s /\ j \in DOMAIN s
    BY <1>2, <1>8, <2>1 DEF NoRepeat
  <2>2. CASE i \in DOMAIN s /\ j \notin DOMAIN s
    <3>1. PICK k \in DOMAIN t : j = Len(s) + k
      BY <1>4, <2>2
    <3>2. u[i] = s[i] /\ u[j] = t[k]
      BY <1>2, <1>3, <2>2, <3>1
    <3> QED BY <2>0, <2>2, <3>2
  <2>3. CASE i \notin DOMAIN s /\ j \in DOMAIN s
    <3>1. PICK k \in DOMAIN t : i = Len(s) + k
      BY <1>4, <2>3
    <3>2. u[j] = s[j] /\ u[i] = t[k]
      BY <1>2, <1>3, <2>3, <3>1
    <3> QED BY <2>0, <2>3, <3>2
  <2>4. CASE i \notin DOMAIN s /\ j \notin DOMAIN s
    <3>1. PICK k \in DOMAIN t : i = Len(s) + k
      BY <1>4, <2>4
    <3>2. PICK l \in DOMAIN t : j = Len(s) + l
      BY <1>4, <2>4
    <3>3. u[i] = t[k] /\ u[j] = t[l] /\ k # l
      BY <1>3, <3>1, <3>2
    <3> QED BY <1>8, <3>3 DEF NoRepeat
  <2> QED BY <2>1, <2>2, <2>3, <2>4
<1> QED BY <1>7, <1>8 DEF u

\* The last request has nothing in common with those before it.
LEMMA LastApart ==
  ASSUME NEW X, NEW s \in Seq(X), s # <<>>
  PROVE  /\ MessagesOf(s) = MessagesOf(Front(s)) \cup (ToSet(Last(s).body) \cap Msgs)
         /\ ToSet(s) = ToSet(Front(s)) \cup {Last(s)}
         /\ NoRepeat(s) <=>
              NoRepeat(Front(s)) /\ MessagesOf(Front(s)) \cap ToSet(Last(s).body) = {}
<1> DEFINE f == Front(s)
           l == Last(s)
           last == <<l>>
<1>1. f \in Seq(X) /\ l \in X /\ s = Append(f, l)
  BY FrontLast
<1> HIDE DEF f, l
<1>2. s = f \o last /\ last \in Seq(X)
  BY <1>1
<1>3. MessagesOf(last) = ToSet(l.body) \cap Msgs /\ NoRepeat(last) /\ ToSet(last) = {l}
  <2>1. ToSet(<<l>>) = {l}
    BY DEF ToSet
  <2> QED BY <2>1, MessagesOne, NoRepeatOne
<1> HIDE DEF last
<1>4. /\ MessagesOf(f \o last) = MessagesOf(f) \cup MessagesOf(last)
      /\ ToSet(f \o last) = ToSet(f) \cup ToSet(last)
      /\ NoRepeat(f \o last) <=>
              NoRepeat(f) /\ NoRepeat(last) /\ MessagesOf(f) \cap MessagesOf(last) = {}
  BY <1>1, <1>2, MessagesConcat, ToSetConcat, NoRepeatConcat
<1>5. MessagesOf(f) \subseteq Msgs
  BY DEF MessagesOf
<1>6. /\ MessagesOf(s) = MessagesOf(f) \cup (ToSet(l.body) \cap Msgs)
      /\ ToSet(s) = ToSet(f) \cup {l}
      /\ NoRepeat(s) <=> NoRepeat(f) /\ MessagesOf(f) \cap (ToSet(l.body) \cap Msgs) = {}
  BY <1>2, <1>3, <1>4, Zenon
<1>7. MessagesOf(f) \cap (ToSet(l.body) \cap Msgs) = MessagesOf(f) \cap ToSet(l.body)
  BY <1>5
<1> QED BY <1>6, <1>7, Zenon DEF f, l

\* The ids of requests
Ids(s) == {q.id : q \in ToSet(s)}

\* The same messages after a steer is added as before, and its own
LEMMA WithSteerAdds ==
  ASSUME NEW s \in Pairs, NEW n \in SoundRequests
  PROVE  /\ MessagesOf(WithSteer(s, n)) = MessagesOf(s) \cup MessagesOf(<<n>>)
         /\ Ids(WithSteer(s, n)) \subseteq Ids(s) \cup {n.id}
<1>1. CASE s = <<>>
  <2>1. /\ MessagesOf(<<n>>) = MessagesOf(<<>>) \cup MessagesOf(<<n>>)
        /\ Ids(<<n>>) = {n.id}
    BY MessagesEmpty, ToSetOne DEF Ids
  <2> QED BY <1>1, <2>1, WithSteerEmpty
<1>2. CASE \E a \in SoundRequests : s = <<a>>
  <2>1. PICK a \in SoundRequests : s = <<a>>
    BY <1>2
  <2>2. a.hidden \in BOOLEAN /\ n.hidden \in BOOLEAN
    BY DEF SoundRequests, Requests
  <2>3. Ids(<<a>>) = {a.id} /\ Ids(<<a, n>>) = {a.id, n.id} /\ Ids(<<n, a>>) = {a.id, n.id}
    BY ToSetOne, ToSetTwo DEF Ids
  <2>4. CASE a.hidden = n.hidden
    <3> DEFINE q == Merge(a, n, a.id)
    <3>1. q.id = a.id /\ ToSet(q.body) = ToSet(a.body) \cup ToSet(n.body)
      BY <2>4, MergeSound
    <3> HIDE DEF q
    <3>2. WithSteer(<<a>>, n) = <<q>>
      BY <2>4, WithSteerOne DEF q
    <3>3. MessagesOf(<<q>>) = MessagesOf(<<a>>) \cup MessagesOf(<<n>>)
      BY <3>1, MessagesOne
    <3>4. Ids(<<q>>) = {a.id}
      BY <3>1, ToSetOne DEF Ids
    <3> QED BY <2>1, <2>3, <3>2, <3>3, <3>4
  <2>5. CASE a.hidden # n.hidden
    <3>1. WithSteer(<<a>>, n) \in {<<a, n>>, <<n, a>>}
      BY <2>2, <2>5, WithSteerOne
    <3>2. /\ MessagesOf(<<a, n>>) = MessagesOf(<<a>>) \cup MessagesOf(<<n>>)
          /\ MessagesOf(<<n, a>>) = MessagesOf(<<a>>) \cup MessagesOf(<<n>>)
      BY MessagesTwo
    <3> QED BY <2>1, <2>3, <3>1, <3>2
  <2> QED BY <2>4, <2>5
<1>3. CASE \E a, b \in SoundRequests : a.hidden /\ ~b.hidden /\ s = <<a, b>>
  <2>1. PICK a \in SoundRequests, b \in SoundRequests : a.hidden /\ ~b.hidden /\ s = <<a, b>>
    BY <1>3
  <2>2. a.hidden = TRUE /\ b.hidden = FALSE /\ n.hidden \in BOOLEAN
    BY <2>1 DEF SoundRequests, Requests
  <2>3. Ids(s) = {a.id, b.id} /\ MessagesOf(s) = MessagesOf(<<a>>) \cup MessagesOf(<<b>>)
    BY <2>1, ToSetTwo, MessagesTwo DEF Ids
  <2>4. CASE n.hidden
    <3> DEFINE q == Merge(a, n, a.id)
    <3>1. q.id = a.id /\ ToSet(q.body) = ToSet(a.body) \cup ToSet(n.body)
      BY <2>2, <2>4, MergeSound
    <3> HIDE DEF q
    <3>2. WithSteer(s, n) = <<q, b>>
      BY <2>1, <2>4, WithSteerTwo DEF q
    <3>3. MessagesOf(<<q>>) = MessagesOf(<<a>>) \cup MessagesOf(<<n>>)
      BY <3>1, MessagesOne
    <3>4. Ids(<<q, b>>) = {a.id, b.id} /\ MessagesOf(<<q, b>>) = MessagesOf(<<q>>) \cup MessagesOf(<<b>>)
      BY <3>1, ToSetTwo, MessagesTwo DEF Ids
    <3> QED BY <2>3, <3>2, <3>3, <3>4
  <2>5. CASE ~n.hidden
    <3> DEFINE q == Merge(b, n, b.id)
    <3>1. q.id = b.id /\ ToSet(q.body) = ToSet(b.body) \cup ToSet(n.body)
      <4>1. b.hidden = n.hidden
        BY <2>2, <2>5
      <4> QED BY <4>1, MergeSound
    <3> HIDE DEF q
    <3>2. WithSteer(s, n) = <<a, q>>
      BY <2>1, <2>5, WithSteerTwo DEF q
    <3>3. MessagesOf(<<q>>) = MessagesOf(<<b>>) \cup MessagesOf(<<n>>)
      BY <3>1, MessagesOne
    <3>4. Ids(<<a, q>>) = {a.id, b.id} /\ MessagesOf(<<a, q>>) = MessagesOf(<<a>>) \cup MessagesOf(<<q>>)
      BY <3>1, ToSetTwo, MessagesTwo DEF Ids
    <3> QED BY <2>3, <3>2, <3>3, <3>4
  <2> QED BY <2>4, <2>5
<1> QED BY <1>1, <1>2, <1>3, PairCases

\* The messages of a sound request have its visibility.
LEMMA MessageIsSound ==
  ASSUME NEW q \in SoundRequests, NEW m \in ToSet(q.body)
  PROVE  m \in Hidden <=> q.hidden
  BY DEF SoundRequests

\* The two steers of a run have nothing in common, nor do the parts of one
\* visibility
LEMMA PairApart ==
  ASSUME NEW s \in Pairs
  PROVE  /\ MessagesOf(s) =
              MessagesOf(OfVisibility(s, TRUE)) \cup MessagesOf(OfVisibility(s, FALSE))
         /\ MessagesOf(OfVisibility(s, TRUE)) \subseteq Hidden
         /\ MessagesOf(OfVisibility(s, FALSE)) \cap Hidden = {}
         /\ ToSet(OfVisibility(s, TRUE)) \subseteq ToSet(s)
         /\ NoRepeat(s)
<1> DEFINE h == OfVisibility(s, TRUE)
           v == OfVisibility(s, FALSE)
<1>1. /\ h \in Pairs /\ v \in Pairs /\ h \o v = s
      /\ \A i \in DOMAIN h : h[i].hidden
      /\ \A i \in DOMAIN v : ~v[i].hidden
  BY PairSplits
<1> HIDE DEF h, v
<1>2. h \in Seq(SoundRequests) /\ v \in Seq(SoundRequests)
  BY <1>1, PairsAreSound
<1>3. /\ MessagesOf(h \o v) = MessagesOf(h) \cup MessagesOf(v)
      /\ ToSet(h \o v) = ToSet(h) \cup ToSet(v)
      /\ NoRepeat(h \o v) <=> NoRepeat(h) /\ NoRepeat(v) /\ MessagesOf(h) \cap MessagesOf(v) = {}
  BY <1>2, MessagesConcat, ToSetConcat, NoRepeatConcat
<1>4. (\A i \in DOMAIN h : h[i] \in SoundRequests) /\ (\A i \in DOMAIN v : v[i] \in SoundRequests)
  BY <1>2
<1>5. MessagesOf(h) \subseteq Hidden /\ MessagesOf(v) \cap Hidden = {}
  <2>1. \A i \in DOMAIN h : ToSet(h[i].body) \subseteq Hidden
    BY <1>1, <1>4, MessageIsSound
  <2>2. \A i \in DOMAIN v : ToSet(v[i].body) \cap Hidden = {}
    BY <1>1, <1>4, MessageIsSound
  <2> QED BY <2>1, <2>2 DEF MessagesOf
<1>6. \A i, j \in DOMAIN h : i = j
  <2>1. Len(h) \in Nat /\ DOMAIN h = 1 .. Len(h) /\ Len(h) <= 2 /\ (Len(h) = 2 => ~h[2].hidden)
    BY <1>1, <1>2 DEF Pairs
  <2>2. Len(h) # 2
    BY <1>1, <2>1
  <2> DEFINE n == Len(h)
  <2>3. n \in Nat /\ n <= 2 /\ n # 2
    BY <2>1, <2>2
  <2> HIDE DEF n
  <2>4. \A i, j \in 1 .. n : i = j
    BY <2>3
  <2> QED BY <2>1, <2>4 DEF n
<1>7. \A i, j \in DOMAIN v : i = j
  <2>1. Len(v) \in Nat /\ DOMAIN v = 1 .. Len(v) /\ Len(v) <= 2 /\ (Len(v) = 2 => v[1].hidden)
    BY <1>1, <1>2 DEF Pairs
  <2>2. Len(v) # 2
    BY <1>1, <2>1
  <2> DEFINE n == Len(v)
  <2>3. n \in Nat /\ n <= 2 /\ n # 2
    BY <2>1, <2>2
  <2> HIDE DEF n
  <2>4. \A i, j \in 1 .. n : i = j
    BY <2>3
  <2> QED BY <2>1, <2>4 DEF n
<1>8. NoRepeat(h) /\ NoRepeat(v)
  BY <1>6, <1>7, Zenon DEF NoRepeat
<1>9. MessagesOf(h) \cap MessagesOf(v) = {}
  BY <1>5
<1>10. /\ MessagesOf(s) = MessagesOf(h) \cup MessagesOf(v)
       /\ ToSet(h) \subseteq ToSet(s) /\ NoRepeat(s)
  <2>1. /\ MessagesOf(s) = MessagesOf(h) \cup MessagesOf(v)
        /\ ToSet(s) = ToSet(h) \cup ToSet(v)
        /\ NoRepeat(s)
    BY <1>1, <1>3, <1>8, <1>9, Zenon
  <2> QED BY <2>1
<1> QED BY <1>5, <1>10, Zenon DEF h, v

\* A message that is queued joins the draft, and nothing else changes.
LEMMA WithFollowUpAdds ==
  ASSUME NEW s \in Seq(SoundRequests), NEW n \in SoundRequests
  PROVE  /\ MessagesOf(WithFollowUp(s, n)) = MessagesOf(s) \cup MessagesOf(<<n>>)
         /\ \A q \in ToSet(WithFollowUp(s, n)) : q.id = n.id \/ q \in ToSet(s)
         /\ NoRepeat(s) /\ MessagesOf(s) \cap MessagesOf(<<n>>) = {}
              => NoRepeat(WithFollowUp(s, n))
<1> DEFINE S == SoundRequests
           w == WithFollowUp(s, n)
           one == <<n>>
<1>0. one \in Seq(S) /\ MessagesOf(one) = ToSet(n.body) \cap Msgs /\ NoRepeat(one) /\ ToSet(one) = {n}
  <2>1. one \in Seq(S)
    OBVIOUS
  <2> QED BY <2>1, MessagesOne, NoRepeatOne, ToSetOne
<1>1. CASE s = <<>>
  <2>1. w = one
    BY <1>1 DEF WithFollowUp
  <2> HIDE DEF w, one
  <2>2. MessagesOf(w) = MessagesOf(s) \cup MessagesOf(one)
    BY <1>1, <2>1, MessagesEmpty
  <2>3. NoRepeat(w) /\ \A q \in ToSet(w) : q.id = n.id
    BY <1>0, <2>1
  <2> QED BY <2>2, <2>3, Zenon DEF w, one
<1>2. CASE s # <<>>
  <2> DEFINE f == Front(s)
             l == Last(s)
             last == <<l>>
  <2>1. f \in Seq(S) /\ l \in S
    BY <1>2, FrontLast
  <2>2. /\ MessagesOf(s) = MessagesOf(f) \cup (ToSet(l.body) \cap Msgs)
        /\ ToSet(s) = ToSet(f) \cup {l}
        /\ NoRepeat(s) <=> NoRepeat(f) /\ MessagesOf(f) \cap ToSet(l.body) = {}
    BY <1>2, LastApart
  <2>3. /\ l.hidden = n.hidden => w = Append(f, Merged(l, n))
        /\ l.hidden # n.hidden => w = f \o <<n, l>> \/ w = Append(s, n)
    BY <1>2 DEF WithFollowUp
  <2>4. last \in Seq(S) /\ MessagesOf(last) = ToSet(l.body) \cap Msgs /\ NoRepeat(last) /\ ToSet(last) = {l}
    <3>1. last \in Seq(S)
      BY <2>1
    <3> QED BY <3>1, MessagesOne, NoRepeatOne, ToSetOne
  <2> HIDE DEF w, f, l, S
  <2>5. CASE l.hidden = n.hidden
    <3> DEFINE q == Merged(l, n)
               tail == <<q>>
    <3>1. q \in S /\ q.id = n.id /\ ToSet(q.body) = ToSet(l.body) \cup ToSet(n.body)
      BY <2>1, <2>5, MergeSound DEF Merged, S
    <3>2. w = Append(f, q)
      BY <2>3, <2>5
    <3> HIDE DEF q
    <3>3. w = f \o tail /\ tail \in Seq(S)
      BY <2>1, <3>1, <3>2
    <3>4. MessagesOf(tail) = ToSet(q.body) \cap Msgs /\ NoRepeat(tail) /\ ToSet(tail) = {q}
      BY MessagesOne, NoRepeatOne, ToSetOne
    <3> HIDE DEF tail
    <3>5. /\ MessagesOf(w) = MessagesOf(f) \cup MessagesOf(tail)
          /\ ToSet(w) = ToSet(f) \cup ToSet(tail)
          /\ NoRepeat(w) <=> NoRepeat(f) /\ NoRepeat(tail) /\ MessagesOf(f) \cap MessagesOf(tail) = {}
      <4>1. /\ MessagesOf(f \o tail) = MessagesOf(f) \cup MessagesOf(tail)
            /\ ToSet(f \o tail) = ToSet(f) \cup ToSet(tail)
            /\ NoRepeat(f \o tail) <=> NoRepeat(f) /\ NoRepeat(tail) /\ MessagesOf(f) \cap MessagesOf(tail) = {}
        BY <2>1, <3>3, MessagesConcat, ToSetConcat, NoRepeatConcat
      <4> QED BY <3>3, <4>1, Zenon
    <3> HIDE DEF one
    <3>6. MessagesOf(w) = MessagesOf(s) \cup MessagesOf(one)
      BY <1>0, <2>2, <3>1, <3>4, <3>5
    <3>7. \A x \in ToSet(w) : x.id = n.id \/ x \in ToSet(s)
      BY <2>2, <3>1, <3>4, <3>5
    <3>8. ASSUME NoRepeat(s), MessagesOf(s) \cap MessagesOf(one) = {} PROVE NoRepeat(w)
      <4>1. NoRepeat(f) /\ MessagesOf(f) \cap ToSet(l.body) = {}
        BY <2>2, <3>8
      <4>2. MessagesOf(f) \cap (ToSet(n.body) \cap Msgs) = {}
        BY <1>0, <2>2, <3>8
      <4>3. MessagesOf(f) \cap MessagesOf(tail) = {}
        BY <3>1, <3>4, <4>1, <4>2
      <4> QED BY <3>4, <3>5, <4>1, <4>3
    <3> QED BY <3>6, <3>7, <3>8, Zenon DEF w, one
  <2>6. CASE w = f \o <<n, l>>
    <3> HIDE DEF one, last
    <3> DEFINE tail == <<n, l>>
    <3>1. tail = one \o last /\ tail \in Seq(S)
      <4>1. <<n>> \o <<l>> = <<n, l>>
        BY JoinTwo
      <4>2. <<n, l>> \in Seq(S)
        BY <2>1 DEF S
      <4> QED BY <4>1, <4>2, Zenon DEF one, last
    <3>2. w = f \o tail
      BY <2>6
    <3> HIDE DEF tail
    <3>3. /\ MessagesOf(tail) = MessagesOf(one) \cup MessagesOf(last)
          /\ ToSet(tail) = {n, l}
          /\ NoRepeat(tail) <=> NoRepeat(one) /\ NoRepeat(last) /\ MessagesOf(one) \cap MessagesOf(last) = {}
      <4>1. /\ MessagesOf(one \o last) = MessagesOf(one) \cup MessagesOf(last)
            /\ ToSet(one \o last) = ToSet(one) \cup ToSet(last)
            /\ NoRepeat(one \o last) <=> NoRepeat(one) /\ NoRepeat(last) /\ MessagesOf(one) \cap MessagesOf(last) = {}
        BY <1>0, <2>4, MessagesConcat, ToSetConcat, NoRepeatConcat DEF S
      <4>2. ToSet(one) \cup ToSet(last) = {n, l}
        BY <1>0, <2>4
      <4> QED BY <3>1, <4>1, <4>2, Zenon
    <3>4. /\ MessagesOf(w) = MessagesOf(f) \cup MessagesOf(tail)
          /\ ToSet(w) = ToSet(f) \cup ToSet(tail)
          /\ NoRepeat(w) <=> NoRepeat(f) /\ NoRepeat(tail) /\ MessagesOf(f) \cap MessagesOf(tail) = {}
      <4>1. /\ MessagesOf(f \o tail) = MessagesOf(f) \cup MessagesOf(tail)
            /\ ToSet(f \o tail) = ToSet(f) \cup ToSet(tail)
            /\ NoRepeat(f \o tail) <=> NoRepeat(f) /\ NoRepeat(tail) /\ MessagesOf(f) \cap MessagesOf(tail) = {}
        <5>1. f \in Seq(S) /\ tail \in Seq(S)
          BY <2>1, <3>1
        <5> QED BY <5>1, MessagesConcat, ToSetConcat, NoRepeatConcat
      <4> QED BY <3>2, <4>1, Zenon
    <3>5. MessagesOf(w) = MessagesOf(s) \cup MessagesOf(one)
      BY <2>2, <2>4, <3>3, <3>4
    <3>6. \A x \in ToSet(w) : x.id = n.id \/ x \in ToSet(s)
      BY <2>2, <3>3, <3>4
    <3>7. ASSUME NoRepeat(s), MessagesOf(s) \cap MessagesOf(one) = {} PROVE NoRepeat(w)
      <4>1. NoRepeat(f) /\ MessagesOf(f) \cap ToSet(l.body) = {}
        BY <2>2, <3>7
      <4>2. MessagesOf(f) \cap MessagesOf(one) = {} /\ MessagesOf(one) \cap MessagesOf(last) = {}
        BY <2>2, <2>4, <3>7
      <4>3. MessagesOf(f) \cap MessagesOf(last) = {}
        BY <2>4, <4>1
      <4>4. NoRepeat(tail) /\ MessagesOf(f) \cap MessagesOf(tail) = {}
        BY <1>0, <2>4, <3>3, <4>2, <4>3
      <4> QED BY <3>4, <4>1, <4>4
    <3> QED BY <3>5, <3>6, <3>7, Zenon DEF w, one
  <2>7. CASE w = Append(s, n)
    <3>1. w = s \o one
      BY <2>7
    <3> HIDE DEF one
    <3>2. /\ MessagesOf(w) = MessagesOf(s) \cup MessagesOf(one)
          /\ ToSet(w) = ToSet(s) \cup ToSet(one)
          /\ NoRepeat(w) <=> NoRepeat(s) /\ NoRepeat(one) /\ MessagesOf(s) \cap MessagesOf(one) = {}
      <4>1. /\ MessagesOf(s \o one) = MessagesOf(s) \cup MessagesOf(one)
            /\ ToSet(s \o one) = ToSet(s) \cup ToSet(one)
            /\ NoRepeat(s \o one) <=> NoRepeat(s) /\ NoRepeat(one) /\ MessagesOf(s) \cap MessagesOf(one) = {}
        BY <1>0, MessagesConcat, ToSetConcat, NoRepeatConcat DEF S
      <4> QED BY <3>1, <4>1, Zenon
    <3>3. \A x \in ToSet(w) : x.id = n.id \/ x \in ToSet(s)
      BY <1>0, <3>2
    <3> QED BY <1>0, <3>2, <3>3, Zenon DEF w, one
  <2> QED BY <2>3, <2>5, <2>6, <2>7
<1> QED BY <1>1, <1>2

\* The pending steers join the draft, and nothing else changes.
LEMMA WithSteersQueuedAdds ==
  ASSUME NEW s \in Seq(SoundRequests), NEW t \in Seq(SoundRequests)
  PROVE  /\ MessagesOf(WithSteersQueued(s, t)) = MessagesOf(s) \cup MessagesOf(t)
         /\ ToSet(WithSteersQueued(s, t)) = ToSet(s) \cup ToSet(t)
         /\ NoRepeat(s) /\ NoRepeat(t) /\ MessagesOf(s) \cap MessagesOf(t) = {}
              => NoRepeat(WithSteersQueued(s, t))
<1>1. \/ s = <<>> /\ WithSteersQueued(s, t) = t
      \/ WithSteersQueued(s, t) = s \o t
      \/ WithSteersQueued(s, t) = t \o s
  BY DEF WithSteersQueued
<1>2. /\ MessagesOf(s \o t) = MessagesOf(s) \cup MessagesOf(t)
      /\ ToSet(s \o t) = ToSet(s) \cup ToSet(t)
      /\ NoRepeat(s \o t) <=> NoRepeat(s) /\ NoRepeat(t) /\ MessagesOf(s) \cap MessagesOf(t) = {}
  BY MessagesConcat, ToSetConcat, NoRepeatConcat
<1>3. /\ MessagesOf(t \o s) = MessagesOf(s) \cup MessagesOf(t)
      /\ ToSet(t \o s) = ToSet(s) \cup ToSet(t)
      /\ NoRepeat(t \o s) <=> NoRepeat(s) /\ NoRepeat(t) /\ MessagesOf(s) \cap MessagesOf(t) = {}
  <2>1. /\ MessagesOf(t \o s) = MessagesOf(t) \cup MessagesOf(s)
        /\ ToSet(t \o s) = ToSet(t) \cup ToSet(s)
        /\ NoRepeat(t \o s) <=> NoRepeat(t) /\ NoRepeat(s) /\ MessagesOf(t) \cap MessagesOf(s) = {}
    BY MessagesConcat, ToSetConcat, NoRepeatConcat
  <2> DEFINE u == t \o s
  <2> HIDE DEF u
  <2>2. /\ MessagesOf(u) = MessagesOf(s) \cup MessagesOf(t)
        /\ ToSet(u) = ToSet(s) \cup ToSet(t)
        /\ NoRepeat(u) <=> NoRepeat(s) /\ NoRepeat(t) /\ MessagesOf(s) \cap MessagesOf(t) = {}
    BY <2>1 DEF u
  <2> QED BY <2>2 DEF u
<1>4. s = <<>> => MessagesOf(s) = {} /\ ToSet(s) = {}
  BY MessagesEmpty, ToSetEmpty
<1>5. CASE s = <<>> /\ WithSteersQueued(s, t) = t
  <2>1. MessagesOf(s) = {} /\ ToSet(s) = {}
    BY <1>4, <1>5
  <2>2. MessagesOf(t) = MessagesOf(s) \cup MessagesOf(t) /\ ToSet(t) = ToSet(s) \cup ToSet(t)
    BY <2>1
  <2> QED BY <1>5, <2>2, Zenon
<1>6. CASE WithSteersQueued(s, t) = s \o t
  BY <1>2, <1>6, Zenon
<1>7. CASE WithSteersQueued(s, t) = t \o s
  BY <1>3, <1>7, Zenon
<1> QED BY <1>1, <1>5, <1>6, <1>7

\* The rows of requests have their messages.
LEMMA ChainedMessages ==
  ASSUME NEW s, NEW parent
  PROVE  MessagesOf(Chained(s, parent)) = MessagesOf(s)
<1> DEFINE c == Chained(s, parent)
<1>1. DOMAIN c = DOMAIN s /\ \A i \in DOMAIN s : c[i].body = s[i].body
  BY DEF Chained
<1> HIDE DEF c
<1>2. {ToSet(c[i].body) : i \in DOMAIN c} = {ToSet(s[i].body) : i \in DOMAIN s}
  BY <1>1
<1>3. MessagesOf(c) = MessagesOf(s)
  BY <1>2, Zenon DEF MessagesOf
<1> QED BY <1>3 DEF c

\* Taking the continuation line out takes no message out.
LEMMA WithoutContinuationMessages ==
  ASSUME NEW s \in Seq(Requests)
  PROVE  MessagesOf(WithoutContinuation(s)) \subseteq MessagesOf(s)
<1> DEFINE t == [i \in DOMAIN s |-> [s[i] EXCEPT !.body = Kept(@, Msgs)]]
           N == {input \in ToSet(t) : input.body # <<>>}
           k == Kept(t, N)
<1>1. t \in Seq(Requests) /\ WithoutContinuation(s) = k
  BY TrimmedType DEF WithoutContinuation
<1>2. \A i \in DOMAIN s : s[i] \in Requests
  OBVIOUS
<1>3. DOMAIN t = DOMAIN s /\ \A i \in DOMAIN s : t[i].body = Kept(s[i].body, Msgs)
  BY <1>2 DEF Requests
<1>4. \A i \in DOMAIN s : ToSet(t[i].body) = ToSet(s[i].body) \cap Msgs
  <2> SUFFICES ASSUME NEW i \in DOMAIN s PROVE ToSet(t[i].body) = ToSet(s[i].body) \cap Msgs
    OBVIOUS
  <2>1. s[i].body \in Seq(Items)
    BY <1>2 DEF Requests
  <2> QED BY <1>3, <2>1, KeptElements
<1> HIDE DEF t, N
<1>5. ToSet(k) = ToSet(t) \cap N
  BY <1>1, KeptElements
<1> HIDE DEF k
<1>6. \A i \in DOMAIN k : \E j \in DOMAIN t : k[i] = t[j]
  BY <1>5 DEF ToSet
<1>7. \A m : m \in MessagesOf(k) => m \in MessagesOf(s)
  BY <1>3, <1>4, <1>6 DEF MessagesOf
<1> QED BY <1>1, <1>7

--------------------------------------------------------------------------------
(*****************************************************************************)
(* Where messages wait, and what a deletion takes back.                      *)
(*****************************************************************************)
\* Where messages wait: in one box at most, accepted and not yet said.  A
\* message that was not sent is nowhere.
WaitInv ==
  /\ NoRepeat(draft)
  /\ \A r \in Runs : MessagesOf(draft) \cap MessagesOf(steers[r]) = {}
  /\ \A r, q \in Runs : r # q => MessagesOf(steers[r]) \cap MessagesOf(steers[q]) = {}
  /\ \A m \in MessagesOf(draft) : send[m] = "accepted"
  /\ \A r \in Runs : \A m \in MessagesOf(steers[r]) : send[m] = "accepted"
  /\ \A m \in MessagesOf(rows) : send[m] \notin {"new", "preparing"}

\* What the user clicked on has a message of that id, and as long as the draft
\* has that id it has nothing the user did not see.
ClickInv ==
  click # <<>> =>
    LET shown == click[1] IN
    /\ click = <<shown>>
    /\ shown.id \in Msgs \ Hidden /\ send[shown.id] \notin {"new", "preparing"}
    /\ \A r \in Runs : shown.id \notin Ids(steers[r])
    /\ \A q \in ToSet(draft) : q.id = shown.id => ToSet(q.body) \subseteq ToSet(shown.body)

\* The inductive invariant for deletion and for the inbox
QueueInv == TypeInv /\ WaitInv /\ ClickInv

\* MessagesOf has messages only, never the continuation line.
LEMMA MessagesAreMsgs == \A s : MessagesOf(s) \subseteq Msgs
  BY DEF MessagesOf

\* The request of one message has that message.
LEMMA NewMessages ==
  ASSUME NEW m \in Items
  PROVE  MessagesOf(<<NewRequest(m)>>) = {m} \cap Msgs
  BY NewSound, MessagesOne

\* QueueInv holds initially.
LEMMA QueueInit == Init => QueueInv
<1> SUFFICES ASSUME Init PROVE QueueInv
  OBVIOUS
<1>1. NoRepeat(<<>>) /\ MessagesOf(<<>>) = {}
  <2>1. DOMAIN <<>> = {}
    OBVIOUS
  <2> QED BY <2>1, MessagesEmpty DEF NoRepeat
<1>2. WaitInv
  BY <1>1 DEF Init, WaitInv
<1> QED BY <1>2, TypeInit DEF Init, ClickInv, QueueInv

--------------------------------------------------------------------------------
\* Rows of requests, and of replies
LEMMA SavedMessages ==
  ASSUME RowInv, NEW s \in Seq(Requests), NEW parent \in 0 .. Len(rows), SaveRequests(s, parent)
  PROVE  MessagesOf(rows') = MessagesOf(rows) \cup MessagesOf(s)
<1>1. rows \in Seq(Rows)
  BY DEF RowInv, Ordered
<1>2. Chained(s, parent) \in Seq(Rows)
  BY <1>1, ChainedType
<1>3. MessagesOf(rows \o Chained(s, parent)) = MessagesOf(rows) \cup MessagesOf(Chained(s, parent))
  BY <1>1, <1>2, MessagesConcat
<1>4. rows' = rows \o Chained(s, parent)
  BY DEF SaveRequests
<1> QED BY <1>3, <1>4, ChainedMessages, Zenon

\* A reply has no message.
LEMMA ReplyMessages ==
  ASSUME RowInv, NEW r \in Runs, NEW kind \in {"completed", "stopped", "failed"}, SaveReply(r, kind)
  PROVE  MessagesOf(rows') = MessagesOf(rows)
<1>1. rows \in Seq(Rows) /\ Len(rows) \in Nat
  BY RowFacts DEF RowInv, Ordered
<1>2. Reply(r, kind) \in Rows /\ Reply(r, kind).body = <<>>
  <2>1. <<>> \in Seq(Items) /\ request[r] \in Nat
    BY <1>1 DEF RowInv
  <2> QED BY <2>1 DEF Reply, Rows
<1>3. MessagesOf(Append(rows, Reply(r, kind))) = MessagesOf(rows) \cup MessagesOf(<<Reply(r, kind)>>)
  BY <1>1, <1>2, MessagesAppend
<1>4. MessagesOf(<<Reply(r, kind)>>) = {}
  BY <1>2, MessagesOne, ToSetEmpty
<1>5. rows' = Append(rows, Reply(r, kind))
  BY DEF SaveReply
<1>6. MessagesOf(rows) \cup {} = MessagesOf(rows)
  OBVIOUS
<1> QED BY <1>3, <1>4, <1>5, <1>6, Zenon

\* A message that is sent goes to rows, to a steer or to the draft.
LEMMA AcceptWaits ==
  ASSUME QueueInv, NEW m \in Msgs, NEW parent \in 0 .. Len(rows), Accept(m, parent),
         send[m] \in {"new", "preparing"}
  PROVE  WaitInv' /\ ClickInv'
<1> DEFINE n == NewRequest(m)
           one == <<n>>
<1>1. n \in SoundRequests /\ n.id = m /\ MessagesOf(one) = {m}
  BY NewSound, NewMessages DEF Items
<1>2. /\ m \notin MessagesOf(draft) /\ m \notin MessagesOf(rows)
      /\ \A r \in Runs : m \notin MessagesOf(steers[r])
  BY DEF QueueInv, WaitInv
<1>3. /\ send' = [send EXCEPT ![m] = "accepted"] /\ UNCHANGED click
      /\ send \in [Msgs -> {"new", "preparing", "accepted", "withdrawn", "lost"}]
      /\ owner \in Runs \cup {NoRun} /\ steers \in [Runs -> Pairs] /\ draft \in Seq(SoundRequests)
      /\ RowInv
  BY DEF Accept, QueueInv, TypeInv, ControlInv, BoxInv
<1>4. click # <<>> => m # click[1].id
  BY DEF QueueInv, ClickInv
<1>5. MessagesOf(draft) \subseteq Msgs /\ MessagesOf(rows) \subseteq Msgs
      /\ \A r \in Runs : MessagesOf(steers[r]) \subseteq Msgs
  BY MessagesAreMsgs
<1> HIDE DEF n
<1>6. CASE StartFreshRun(m, parent)
  <2>1. UNCHANGED <<steers, draft>> /\ SaveRequests(one, parent)
    BY <1>6 DEF StartFreshRun, n
  <2>2. one \in Seq(Requests)
    <3>1. one \in Seq(SoundRequests)
      BY <1>1
    <3> QED BY <3>1, SoundAreRequests
  <2>3. MessagesOf(rows') = MessagesOf(rows) \cup {m}
    BY <1>1, <1>3, <2>1, <2>2, SavedMessages
  <2>4. WaitInv'
    BY <1>2, <1>3, <1>5, <2>1, <2>3 DEF QueueInv, WaitInv
  <2>5. ClickInv'
    BY <1>3, <1>4, <2>1 DEF QueueInv, ClickInv
  <2> QED BY <2>4, <2>5
<1>7. CASE AddSteer(m) /\ owner \in Runs
  <2> DEFINE w == WithSteer(steers[owner], n)
  <2>1. steers' = [steers EXCEPT ![owner] = w] /\ UNCHANGED <<rows, draft>>
    BY <1>7 DEF AddSteer, n
  <2>2. MessagesOf(w) = MessagesOf(steers[owner]) \cup {m} /\ Ids(w) \subseteq Ids(steers[owner]) \cup {m}
    BY <1>1, <1>3, <1>7, WithSteerAdds
  <2> HIDE DEF w
  <2>3. WaitInv'
    BY <1>2, <1>3, <1>5, <1>7, <2>1, <2>2 DEF QueueInv, WaitInv
  <2>4. ClickInv'
    BY <1>3, <1>4, <1>7, <2>1, <2>2 DEF QueueInv, ClickInv
  <2> QED BY <2>3, <2>4
<1>8. CASE QueueFollowUp(m)
  <2> DEFINE w == WithFollowUp(draft, n)
  <2>1. draft' = w /\ UNCHANGED <<rows, steers>>
    BY <1>8 DEF QueueFollowUp, n
  <2>2. MessagesOf(draft) \cap MessagesOf(one) = {} /\ NoRepeat(draft)
    BY <1>1, <1>2 DEF QueueInv, WaitInv
  <2>3. MessagesOf(w) = MessagesOf(draft) \cup {m} /\ NoRepeat(w)
        /\ \A q \in ToSet(w) : q.id = m \/ q \in ToSet(draft)
    BY <1>1, <1>3, <2>2, WithFollowUpAdds
  <2> HIDE DEF w
  <2>4. WaitInv'
    BY <1>2, <1>3, <1>5, <2>1, <2>3 DEF QueueInv, WaitInv
  <2>5. ClickInv'
    BY <1>3, <1>4, <2>1, <2>3 DEF QueueInv, ClickInv
  <2> QED BY <2>4, <2>5
<1> QED BY <1>3, <1>6, <1>7, <1>8 DEF Accept, SendToActiveRun

\* The steps of sendChat
LEMMA SendsWait ==
  ASSUME QueueInv, NEW m \in Msgs, SendChat(m) \/ SendChatWithFiles(m) \/ SendPrepared(m)
  PROVE  WaitInv' /\ ClickInv'
<1>1. head \in 0 .. Len(rows) /\ seen[m] \in 0 .. Len(rows)
  BY DEF QueueInv, TypeInv, RowInv
<1>2. CASE SendChat(m) \/ SendPrepared(m)
  BY <1>1, <1>2, AcceptWaits DEF SendChat, SendPrepared
<1>3. CASE SendChatWithFiles(m)
  <2>1. /\ send \in [Msgs -> {"new", "preparing", "accepted", "withdrawn", "lost"}]
        /\ send[m] = "new" /\ send' = [send EXCEPT ![m] = "preparing"]
        /\ UNCHANGED <<rows, steers, draft, click>>
    BY <1>3 DEF SendChatWithFiles, QueueInv, TypeInv, ControlInv
  <2>2. MessagesOf(draft) \subseteq Msgs /\ MessagesOf(rows) \subseteq Msgs
        /\ \A r \in Runs : MessagesOf(steers[r]) \subseteq Msgs
    BY MessagesAreMsgs
  <2>3. WaitInv'
    BY <2>1, <2>2 DEF QueueInv, WaitInv
  <2>4. ClickInv'
    BY <2>1 DEF QueueInv, ClickInv
  <2> QED BY <2>3, <2>4
<1> QED BY <1>2, <1>3

\* The visible steers are withdrawn, the hidden ones stay.
LEMMA WithdrawWaits ==
  ASSUME QueueInv, WithdrawPendingSteer
  PROVE  WaitInv' /\ ClickInv'
<1> DEFINE h == OfVisibility(steers[owner], TRUE)
           v == OfVisibility(steers[owner], FALSE)
<1>1. /\ owner \in Runs /\ steers \in [Runs -> Pairs] /\ steers[owner] \in Pairs
  BY DEF WithdrawPendingSteer, QueueInv, TypeInv, ControlInv, BoxInv
<1>2. /\ steers' = [steers EXCEPT ![owner] = h]
      /\ send' = [m \in Msgs |-> IF m \in MessagesOf(v) THEN "withdrawn" ELSE send[m]]
      /\ UNCHANGED <<rows, draft, click>>
  BY DEF WithdrawPendingSteer, End
<1>3. /\ MessagesOf(steers[owner]) = MessagesOf(h) \cup MessagesOf(v)
      /\ MessagesOf(h) \cap MessagesOf(v) = {}
      /\ ToSet(h) \subseteq ToSet(steers[owner])
  BY <1>1, PairApart
<1>4. MessagesOf(draft) \subseteq Msgs /\ MessagesOf(rows) \subseteq Msgs
      /\ \A r \in Runs : MessagesOf(steers[r]) \subseteq Msgs
  BY MessagesAreMsgs
<1> HIDE DEF h, v
<1>5. WaitInv'
  BY <1>1, <1>2, <1>3, <1>4 DEF QueueInv, WaitInv
<1>6. Ids(h) \subseteq Ids(steers[owner])
  BY <1>3 DEF Ids
<1>7. ClickInv'
  BY <1>1, <1>2, <1>6 DEF QueueInv, ClickInv
<1> QED BY <1>5, <1>7

\* The draft on the screen is the only request with its id.
LEMMA ClickWaits ==
  ASSUME QueueInv, ClickDelete
  PROVE  WaitInv' /\ ClickInv'
<1> DEFINE l == Last(draft)
           one == <<l>>
<1>1. /\ draft \in Seq(SoundRequests) /\ draft # <<>> /\ ~l.hidden /\ click' = one
      /\ UNCHANGED <<rows, steers, send, draft>> /\ steers \in [Runs -> Pairs]
  BY DEF ClickDelete, QueueInv, TypeInv, BoxInv
<1>2. /\ l \in SoundRequests
      /\ MessagesOf(draft) = MessagesOf(Front(draft)) \cup (ToSet(l.body) \cap Msgs)
      /\ ToSet(draft) = ToSet(Front(draft)) \cup {l}
      /\ MessagesOf(Front(draft)) \cap ToSet(l.body) = {}
  BY <1>1, FrontLast, LastApart DEF QueueInv, WaitInv
<1>3. l.id \in ToSet(l.body) /\ l.id \in Msgs \ Hidden
  <2>1. l.id \in ToSet(l.body) /\ l.id \in Items
    BY <1>2 DEF SoundRequests, Requests
  <2>2. l.id \notin Hidden
    BY <1>1, <1>2, <2>1, MessageIsSound
  <2> QED BY <2>1, <2>2 DEF Items, Hidden
<1>4. WaitInv'
  BY <1>1 DEF QueueInv, WaitInv
<1>5. l.id \in MessagesOf(draft)
  BY <1>2, <1>3
<1>6. ASSUME NEW s, NEW q \in ToSet(s), q \in SoundRequests, q.id = l.id
      PROVE  l.id \in MessagesOf(s)
  <2>1. l.id \in ToSet(q.body)
    BY <1>6 DEF SoundRequests
  <2> QED BY <1>3, <2>1 DEF MessagesOf, ToSet
<1>7. \A r \in Runs : l.id \notin Ids(steers[r])
  <2> SUFFICES ASSUME NEW r \in Runs, l.id \in Ids(steers[r]) PROVE FALSE
    OBVIOUS
  <2>1. PICK q \in ToSet(steers[r]) : q.id = l.id
    BY DEF Ids
  <2>2. q \in SoundRequests
    <3>1. steers[r] \in Seq(SoundRequests)
      BY <1>1, PairsAreSound
    <3> QED BY <3>1 DEF ToSet
  <2> QED BY <1>5, <1>6, <2>1, <2>2 DEF QueueInv, WaitInv
<1>8. \A q \in ToSet(draft) : q.id = l.id => q = l
  <2> SUFFICES ASSUME NEW q \in ToSet(Front(draft)), q.id = l.id PROVE FALSE
    BY <1>2
  <2>1. q \in SoundRequests
    <3>1. Front(draft) \in Seq(SoundRequests)
      BY <1>1, FrontLast
    <3> QED BY <3>1 DEF ToSet
  <2>2. l.id \in MessagesOf(Front(draft))
    BY <1>6, <2>1
  <2> QED BY <1>2, <1>3, <2>2
<1> HIDE DEF l
<1>9. one[1] = l
  OBVIOUS
<1> HIDE DEF one
<1>10. send[l.id] = "accepted"
  BY <1>5 DEF QueueInv, WaitInv
<1>11. ClickInv'
  BY <1>1, <1>3, <1>7, <1>8, <1>9, <1>10 DEF ClickInv, one
<1> QED BY <1>4, <1>11

\* The draft is deleted and the one before it promoted.
LEMMA DeleteWaits ==
  ASSUME QueueInv, DeleteQueuedFollowUp
  PROVE  WaitInv' /\ ClickInv'
<1> DEFINE f == Front(draft)
<1>1. click' = <<>> /\ UNCHANGED <<rows, steers>> /\ draft \in Seq(SoundRequests)
  BY DEF DeleteQueuedFollowUp, QueueInv, TypeInv, BoxInv
<1>2. ClickInv'
  BY <1>1 DEF ClickInv
<1>3. CASE UNCHANGED <<draft, send>>
  <2>1. WaitInv'
    BY <1>1, <1>3 DEF QueueInv, WaitInv
  <2> QED BY <1>2, <2>1
<1>4. CASE ~UNCHANGED <<draft, send>>
  <2>1. /\ draft # <<>> /\ draft' = f
        /\ send' = [m \in Msgs |-> IF m \in MessagesOf(draft) \ MessagesOf(f) THEN "withdrawn" ELSE send[m]]
    BY <1>4 DEF DeleteQueuedFollowUp, AfterDelete, End
  <2>2. MessagesOf(f) \subseteq MessagesOf(draft) /\ NoRepeat(f)
    BY <1>1, <2>1, LastApart DEF QueueInv, WaitInv
  <2>3. MessagesOf(draft) \subseteq Msgs /\ MessagesOf(rows) \subseteq Msgs
        /\ \A r \in Runs : MessagesOf(steers[r]) \subseteq Msgs
    BY MessagesAreMsgs
  <2> HIDE DEF f
  <2>4. WaitInv'
    BY <1>1, <2>1, <2>2, <2>3 DEF QueueInv, WaitInv
  <2> QED BY <1>2, <2>4
<1> QED BY <1>3, <1>4

\* Steps that move no message
LEMMA QuietWaits ==
  ASSUME WaitInv, ClickInv, UNCHANGED <<steers, draft, send, click>>,
         MessagesOf(rows') = MessagesOf(rows)
  PROVE  WaitInv' /\ ClickInv'
  BY DEF WaitInv, ClickInv

\* The steers of a run go, some of them into rows.
LEMMA ClearedWaits ==
  ASSUME QueueInv, NEW r \in Runs, steers' = [steers EXCEPT ![r] = <<>>],
         UNCHANGED <<draft, send, click>>,
         MessagesOf(rows') \subseteq MessagesOf(rows) \cup MessagesOf(steers[r])
  PROVE  WaitInv' /\ ClickInv'
<1>1. steers \in [Runs -> Pairs] /\ MessagesOf(<<>>) = {} /\ Ids(<<>>) = {}
  BY MessagesEmpty, ToSetEmpty DEF QueueInv, TypeInv, BoxInv, Ids
<1>2. WaitInv'
  BY <1>1 DEF QueueInv, WaitInv
<1>3. ClickInv'
  BY <1>1 DEF QueueInv, ClickInv
<1> QED BY <1>2, <1>3

\* Steers become rows.
LEMMA PersistWaits ==
  ASSUME QueueInv, NEW r \in Runs, NEW s \in Seq(Requests), PersistSteers(r, s),
         MessagesOf(s) \subseteq MessagesOf(steers[r]), UNCHANGED <<draft, send, click>>
  PROVE  WaitInv' /\ ClickInv'
<1>1. RowInv /\ request[r] \in 0 .. Len(rows)
  BY DEF QueueInv, TypeInv, RowInv
<1>2. MessagesOf(rows') = MessagesOf(rows) \cup MessagesOf(s)
  BY <1>1, SavedMessages DEF PersistSteers
<1> QED BY <1>2, ClearedWaits DEF PersistSteers

\* Steers that say nothing are cleared.
LEMMA CancelWaits ==
  ASSUME QueueInv, NEW r \in Runs, CancelSteerPending(r), UNCHANGED <<draft, send, click>>
  PROVE  WaitInv' /\ ClickInv'
  BY ClearedWaits DEF CancelSteerPending

\* The loop after a leg that left steers
LEMMA SteerLegWaits ==
  ASSUME QueueInv, NEW r \in Runs, HandleSteerPending(r) \/ HandoffAnswers(r)
  PROVE  WaitInv' /\ ClickInv'
<1>1. steers[r] \in Seq(Requests) /\ WithoutContinuation(steers[r]) \in Seq(Requests)
  BY PairsAreSound, SoundAreRequests, WithoutContinuationType DEF QueueInv, TypeInv, BoxInv
<1>2. MessagesOf(WithoutContinuation(steers[r])) \subseteq MessagesOf(steers[r])
  BY <1>1, WithoutContinuationMessages
<1>3. CASE HandleSteerPending(r)
  <2>1. UNCHANGED <<draft, send, click>>
    BY <1>3 DEF HandleSteerPending
  <2>2. CASE PersistSteers(r, steers[r])
    BY <1>1, <2>1, <2>2, PersistWaits
  <2>3. CASE CancelSteerPending(r)
    BY <2>1, <2>3, CancelWaits
  <2>4. CASE UNCHANGED <<rows, steers>>
    BY <2>1, <2>4, QuietWaits DEF QueueInv
  <2> QED BY <1>3, <2>2, <2>3, <2>4 DEF HandleSteerPending
<1>4. CASE HandoffAnswers(r)
  <2>1. UNCHANGED <<draft, send, click>>
    BY <1>4 DEF HandoffAnswers
  <2>2. CASE CancelSteerPending(r)
    BY <2>1, <2>2, CancelWaits
  <2>3. CASE PersistSteers(r, steers[r]) \/ PersistSteers(r, WithoutContinuation(steers[r]))
    BY <1>1, <1>2, <2>1, <2>3, PersistWaits
  <2> QED BY <1>4, <2>2, <2>3 DEF HandoffAnswers
<1> QED BY <1>3, <1>4

\* Pending steers move to the draft.
LEMMA ReturnWaits ==
  ASSUME QueueInv, NEW r \in Runs, LegReturns(r)
  PROVE  WaitInv' /\ ClickInv'
<1> DEFINE w == WithSteersQueued(draft, steers[r])
<1>1. /\ UNCHANGED <<rows, send, click>>
      /\ UNCHANGED <<draft, steers>> \/ (draft' = w /\ steers' = [steers EXCEPT ![r] = <<>>])
  BY DEF LegReturns
<1>2. CASE UNCHANGED <<draft, steers>>
  BY <1>1, <1>2, QuietWaits DEF QueueInv
<1>3. CASE draft' = w /\ steers' = [steers EXCEPT ![r] = <<>>]
  <2>1. /\ steers \in [Runs -> Pairs] /\ draft \in Seq(SoundRequests) /\ steers[r] \in Pairs
        /\ MessagesOf(<<>>) = {} /\ Ids(<<>>) = {}
    BY MessagesEmpty, ToSetEmpty DEF QueueInv, TypeInv, BoxInv, Ids
  <2>2. NoRepeat(steers[r]) /\ NoRepeat(draft) /\ MessagesOf(draft) \cap MessagesOf(steers[r]) = {}
    BY <2>1, PairApart DEF QueueInv, WaitInv
  <2>3. /\ MessagesOf(w) = MessagesOf(draft) \cup MessagesOf(steers[r])
        /\ ToSet(w) = ToSet(draft) \cup ToSet(steers[r])
        /\ NoRepeat(w)
    BY <2>1, <2>2, PairsAreSound, WithSteersQueuedAdds
  <2> HIDE DEF w
  <2>4. WaitInv'
    BY <1>1, <1>3, <2>1, <2>3 DEF QueueInv, WaitInv
  <2>5. ClickInv'
    BY <1>1, <1>3, <2>1, <2>3 DEF QueueInv, ClickInv, Ids
  <2> QED BY <2>4, <2>5
<1> QED BY <1>1, <1>2, <1>3

\* The draft becomes rows; what still pends is lost.
LEMMA EndWaits ==
  ASSUME QueueInv, NEW r \in Runs, LoopEnds(r)
  PROVE  WaitInv' /\ ClickInv'
<1>1. /\ send' = [m \in Msgs |-> IF m \in MessagesOf(steers[r]) THEN "lost" ELSE send[m]]
      /\ steers' = [steers EXCEPT ![r] = <<>>] /\ UNCHANGED click
  BY DEF LoopEnds, End
<1>2. /\ steers \in [Runs -> Pairs]
      /\ MessagesOf(<<>>) = {} /\ Ids(<<>>) = {} /\ ToSet(<<>>) = {} /\ NoRepeat(<<>>)
  <2>1. DOMAIN <<>> = {}
    OBVIOUS
  <2> QED BY <2>1, MessagesEmpty, ToSetEmpty DEF QueueInv, TypeInv, BoxInv, Ids, NoRepeat
<1>3. /\ MessagesOf(draft) \subseteq Msgs /\ MessagesOf(rows) \subseteq Msgs
      /\ \A q \in Runs : MessagesOf(steers[q]) \subseteq Msgs
  BY MessagesAreMsgs
<1>4. CASE draft' = draft /\ rows' = rows
  <2>1. WaitInv'
    BY <1>1, <1>2, <1>3, <1>4 DEF QueueInv, WaitInv
  <2>2. ClickInv'
    BY <1>1, <1>2, <1>4 DEF QueueInv, ClickInv
  <2> QED BY <2>1, <2>2
<1>5. CASE draft' = <<>> /\ SaveRequests(draft, head)
  <2>1. MessagesOf(rows') = MessagesOf(rows) \cup MessagesOf(draft)
    BY <1>5, SavedMessages, SoundAreRequests DEF QueueInv, TypeInv, BoxInv, RowInv
  <2>2. WaitInv'
    BY <1>1, <1>2, <1>3, <1>5, <2>1 DEF QueueInv, WaitInv
  <2>3. ClickInv'
    BY <1>1, <1>2, <1>5 DEF QueueInv, ClickInv
  <2> QED BY <2>2, <2>3
<1> QED BY <1>4, <1>5 DEF LoopEnds

\* The steps of a loop
LEMMA LoopWaits ==
  ASSUME QueueInv, NEW r \in Runs, LoopStep(r)
  PROVE  WaitInv' /\ ClickInv'
<1>1. CASE RequestContextHandoff(r)
  <2> DEFINE n == NewRequest(Continuation)
             w == WithSteer(steers[r], n)
  <2>1. /\ steers' = [steers EXCEPT ![r] = w] /\ UNCHANGED <<rows, draft, send, click>>
        /\ steers \in [Runs -> Pairs]
    BY <1>1 DEF RequestContextHandoff, QueueInv, TypeInv, BoxInv
  <2>2. n \in SoundRequests /\ n.id = Continuation /\ MessagesOf(<<n>>) = {}
    BY NewSound, NewMessages, NamesAssumption DEF Items
  <2>3. MessagesOf(w) = MessagesOf(steers[r]) /\ Ids(w) \subseteq Ids(steers[r]) \cup {Continuation}
    BY <2>1, <2>2, WithSteerAdds
  <2> HIDE DEF w
  <2>4. WaitInv'
    BY <2>1, <2>3 DEF QueueInv, WaitInv
  <2>5. ClickInv'
    BY <2>1, <2>3, NamesAssumption DEF QueueInv, ClickInv
  <2> QED BY <2>4, <2>5
<1>2. CASE LegCompletes(r) \/ LegCompletesWithSteers(r) \/ LegFails(r) \/ ObserveAbort(r)
  <2>1. UNCHANGED <<steers, draft, send, click>>
    BY <1>2 DEF LegCompletes, LegCompletesWithSteers, LegFails, ObserveAbort
  <2>2. MessagesOf(rows') = MessagesOf(rows)
    BY <1>2, ReplyMessages DEF LegCompletes, LegCompletesWithSteers, LegFails, ObserveAbort,
                               QueueInv, TypeInv
  <2> QED BY <2>1, <2>2, QuietWaits DEF QueueInv
<1>3. CASE BackoffAborted(r)
  <2>1. UNCHANGED <<steers, draft, send, click>>
    BY <1>3 DEF BackoffAborted
  <2>2. MessagesOf(rows') = MessagesOf(rows)
    BY <1>3, ReplyMessages DEF BackoffAborted, QueueInv, TypeInv
  <2> QED BY <2>1, <2>2, QuietWaits DEF QueueInv
<1>4. CASE LegRetries(r) \/ NextLeg(r) \/ Release(r)
  BY <1>4, QuietWaits DEF LegRetries, NextLeg, Release, QueueInv
<1> QED BY <1>1, <1>2, <1>3, <1>4, SteerLegWaits, ReturnWaits, EndWaits DEF LoopStep

\* Every step keeps QueueInv.
LEMMA QueueStep == ASSUME QueueInv, [Next]_vars PROVE QueueInv'
<1>1. TypeInv'
  BY TypeStep DEF QueueInv
<1>2. CASE \E m \in Msgs : SendChat(m) \/ SendChatWithFiles(m) \/ SendPrepared(m)
  BY <1>1, <1>2, SendsWait DEF QueueInv
<1>3. CASE CancelRun \/ RetryMessage \/ SelectReplyBranch
  <2>1. UNCHANGED <<rows, steers, draft, send, click>>
    BY <1>3 DEF CancelRun, RetryMessage, SelectReplyBranch
  <2> QED BY <1>1, <2>1, QuietWaits DEF QueueInv
<1>4. CASE WithdrawPendingSteer \/ ClickDelete \/ DeleteQueuedFollowUp
  BY <1>1, <1>4, WithdrawWaits, ClickWaits, DeleteWaits DEF QueueInv
<1>5. CASE \E r \in Runs : LoopStep(r)
  BY <1>1, <1>5, LoopWaits DEF QueueInv
<1>6. CASE UNCHANGED vars
  <2>1. UNCHANGED <<rows, steers, draft, send, click>>
    BY <1>6 DEF vars
  <2> QED BY <1>1, <2>1, QuietWaits DEF QueueInv
<1> QED BY <1>2, <1>3, <1>4, <1>5, <1>6 DEF Next

\* QueueInv is an invariant: whatever a client, the user or a loop does, a
\* message waits in one place at most.
THEOREM QueueInvariant == Spec => []QueueInv
BY QueueInit, QueueStep, PTL DEF Spec

\* Whatever is withdrawn from the draft was on the screen.
LEMMA DeleteStep ==
  ASSUME QueueInv, [Next]_vars, NEW m \in MessagesOf(draft), send'[m] = "withdrawn"
  PROVE  click # <<>> /\ m \in MessagesOf(click)
<1>1. /\ send[m] = "accepted" /\ m \in Msgs
      /\ send \in [Msgs -> {"new", "preparing", "accepted", "withdrawn", "lost"}]
  BY MessagesAreMsgs DEF QueueInv, WaitInv, TypeInv, ControlInv
<1>2. CASE WithdrawPendingSteer
  <2>1. owner \in Runs /\ steers[owner] \in Pairs
    BY <1>2 DEF WithdrawPendingSteer, QueueInv, TypeInv, ControlInv, BoxInv
  <2>2. MessagesOf(OfVisibility(steers[owner], FALSE)) \subseteq MessagesOf(steers[owner])
    BY <2>1, PairApart
  <2>3. m \in MessagesOf(steers[owner])
    BY <1>1, <1>2, <2>2 DEF WithdrawPendingSteer, End
  <2> QED BY <2>1, <2>3 DEF QueueInv, WaitInv
<1>3. CASE DeleteQueuedFollowUp
  <2> DEFINE l == Last(draft)
             f == Front(draft)
             shown == click[1]
  <2>1. /\ click # <<>> /\ draft # <<>> /\ l.id = shown.id /\ m \notin MessagesOf(f)
        /\ draft \in Seq(SoundRequests)
    BY <1>1, <1>3 DEF DeleteQueuedFollowUp, AfterDelete, End, QueueInv, TypeInv, BoxInv
  <2>2. MessagesOf(draft) = MessagesOf(f) \cup (ToSet(l.body) \cap Msgs) /\ l \in ToSet(draft)
    BY <2>1, LastApart
  <2>3. m \in ToSet(l.body)
    BY <2>1, <2>2
  <2>4. click = <<shown>> /\ ToSet(l.body) \subseteq ToSet(shown.body)
    BY <2>1, <2>2 DEF QueueInv, ClickInv
  <2> HIDE DEF l, f, shown
  <2>5. MessagesOf(click) = ToSet(shown.body) \cap Msgs
    BY <2>4, MessagesOne
  <2> QED BY <1>1, <2>1, <2>3, <2>4, <2>5
<1>4. CASE \E k \in Msgs : SendChat(k) \/ SendChatWithFiles(k) \/ SendPrepared(k)
  BY <1>1, <1>4 DEF SendChat, SendChatWithFiles, SendPrepared, Accept
<1>5. CASE CancelRun \/ ClickDelete \/ RetryMessage \/ SelectReplyBranch \/ UNCHANGED vars
  BY <1>1, <1>5 DEF CancelRun, ClickDelete, RetryMessage, SelectReplyBranch, vars
<1>6. ASSUME NEW r \in Runs, LoopStep(r) PROVE FALSE
  <2>1. CASE LoopEnds(r)
    BY <1>1, <2>1 DEF LoopEnds, End
  <2>2. CASE ~LoopEnds(r)
    BY <1>1, <1>6, <2>2 DEF LoopStep, RequestContextHandoff, LegCompletes, LegCompletesWithSteers,
       LegFails, ObserveAbort, LegRetries, NextLeg, BackoffAborted, HandleSteerPending,
       HandoffAnswers, Release, LegReturns
  <2> QED BY <2>1, <2>2
<1> QED BY <1>2, <1>3, <1>4, <1>5, <1>6 DEF Next

\* Deleting the queued message takes back what was on the screen when the user
\* clicked.  It holds since a merged draft takes the new message's id.
THEOREM DeletionShown == Spec => DeletesWhatWasShown
<1>1. QueueInv /\ [Next]_vars =>
        [\A m \in MessagesOf(draft) :
           send'[m] = "withdrawn" => click # <<>> /\ m \in MessagesOf(click)]_vars
  BY DeleteStep
<1> QED BY <1>1, QueueInvariant, PTL DEF Spec, DeletesWhatWasShown

--------------------------------------------------------------------------------
(*****************************************************************************)
(* The head. HeadInv is inductive: whoever moves the head holds the          *)
(* thread, and then no other loop is at work.                                *)
(*****************************************************************************)
USE NamesAssumption DEF NamesAssumption, WorkPcs, Pcs, threadVars, loopVars, Goto

\* HeadInv holds initially.
LEMMA HeadInit == Init => HeadInv
  BY DEF Init, HeadInv

\* A run launched on a thread nobody works on has the head as its request.
LEMMA LaunchKeeps ==
  ASSUME HeadInv, NEW r \in Runs, NEW ended \in [Runs -> Pcs],
         Launch(r, ended),
         \A q \in Runs : ended[q] \notin WorkPcs
  PROVE  HeadInv'
  BY DEF HeadInv, Launch

\* A send: only a fresh run moves the head, and then nobody held the thread.
LEMMA AcceptKeeps ==
  ASSUME HeadInv, NEW m \in Msgs, NEW parent, Accept(m, parent)
  PROVE  HeadInv'
<1>1. CASE StartFreshRun(m, parent)
  <2>1. \A q \in Runs : pc[q] \notin WorkPcs
    BY <1>1 DEF StartFreshRun, HeadInv
  <2>2. PICK r \in Runs : Launch(r, pc)
    BY <1>1 DEF StartFreshRun, Fresh
  <2> QED BY <2>1, <2>2, LaunchKeeps DEF HeadInv
<1>2. CASE SendToActiveRun(m)
  BY <1>2 DEF SendToActiveRun, AddSteer, QueueFollowUp, HeadInv
<1> QED BY <1>1, <1>2 DEF Accept

\* Calls of clients that only touch steers, drafts or the abort signal.
LEMMA ClientsKeep ==
  ASSUME HeadInv,
         \/ \E m \in Msgs : SendChatWithFiles(m)
         \/ CancelRun \/ WithdrawPendingSteer \/ ClickDelete \/ DeleteQueuedFollowUp
  PROVE  HeadInv'
  BY DEF HeadInv, SendChatWithFiles, CancelRun, WithdrawPendingSteer, ClickDelete,
         DeleteQueuedFollowUp

\* The user moves the head only while nobody works on the thread.
LEMMA BranchesKeep ==
  ASSUME HeadInv, RetryMessage \/ SelectReplyBranch
  PROVE  HeadInv'
<1>1. \A q \in Runs : pc[q] \notin WorkPcs
  BY DEF HeadInv, RetryMessage, SelectReplyBranch, ThreadRuns
<1>2. CASE RetryMessage
  <2>1. PICK r \in Runs : Launch(r, pc)
    BY <1>2 DEF RetryMessage, Fresh
  <2> QED BY <1>1, <2>1, LaunchKeeps DEF HeadInv
<1>3. CASE SelectReplyBranch
  BY <1>1, <1>3 DEF SelectReplyBranch, HeadInv
<1> QED BY <1>2, <1>3

\* The steps of a leg, and the waits between legs.
LEMMA LegKeeps ==
  ASSUME HeadInv, NEW r \in Runs,
         \/ RequestContextHandoff(r)
         \/ LegCompletes(r) \/ LegCompletesWithSteers(r) \/ LegFails(r) \/ ObserveAbort(r)
         \/ LegRetries(r) \/ NextLeg(r) \/ BackoffAborted(r)
         \/ Release(r) \/ LegReturns(r)
  PROVE  HeadInv'
<1>1. CASE RequestContextHandoff(r)
  BY <1>1 DEF RequestContextHandoff, HeadInv
<1>2. CASE LegCompletes(r)
  BY <1>2 DEF LegCompletes, HeadInv
<1>3. CASE LegCompletesWithSteers(r)
  BY <1>3 DEF LegCompletesWithSteers, HeadInv
<1>4. CASE LegFails(r)
  BY <1>4 DEF LegFails, HeadInv
<1>5. CASE ObserveAbort(r)
  BY <1>5 DEF ObserveAbort, HeadInv
<1>6. CASE LegRetries(r)
  BY <1>6 DEF LegRetries, HeadInv
<1>7. CASE NextLeg(r)
  BY <1>7 DEF NextLeg, HeadInv
<1>8. CASE BackoffAborted(r)
  BY <1>8 DEF BackoffAborted, HeadInv
<1>9. CASE Release(r)
  BY <1>9 DEF Release, HeadInv
<1>10. CASE LegReturns(r)
  BY <1>10 DEF LegReturns, HeadInv
<1> QED
  BY <1>1, <1>2, <1>3, <1>4, <1>5, <1>6, <1>7, <1>8, <1>9, <1>10

\* The steers of r are saved: r holds the thread, so the head is its own.
LEMMA PersistKeeps ==
  ASSUME HeadInv, NEW r \in Runs, pc[r] \in WorkPcs, owner' = owner,
         NEW inputs, PersistSteers(r, inputs)
  PROVE  HeadInv'
  BY DEF HeadInv, PersistSteers

\* A run without steers gives up and leaves the head.
LEMMA CancelSteersKeeps ==
  ASSUME HeadInv, NEW r \in Runs, owner' = owner, CancelSteerPending(r)
  PROVE  HeadInv'
  BY DEF HeadInv, CancelSteerPending

\* The loop after a leg that left steers
LEMMA SteerLegKeeps ==
  ASSUME HeadInv, NEW r \in Runs, HandleSteerPending(r) \/ HandoffAnswers(r)
  PROVE  HeadInv'
<1>1. CASE HandleSteerPending(r)
  <2>1. CASE PersistSteers(r, steers[r])
    BY <1>1, <2>1, PersistKeeps DEF HandleSteerPending
  <2>2. CASE CancelSteerPending(r)
    BY <1>1, <2>2, CancelSteersKeeps DEF HandleSteerPending
  <2>3. CASE Goto(r, "handoff") /\ UNCHANGED <<threadVars, outcome, request, steers>>
    BY <1>1, <2>3 DEF HandleSteerPending, HeadInv
  <2> QED BY <1>1, <2>1, <2>2, <2>3 DEF HandleSteerPending
<1>2. CASE HandoffAnswers(r)
  <2>1. (\E inputs : PersistSteers(r, inputs)) \/ CancelSteerPending(r)
    BY <1>2 DEF HandoffAnswers
  <2>2. pc[r] \in WorkPcs /\ owner' = owner
    BY <1>2 DEF HandoffAnswers
  <2> QED BY <2>1, <2>2, PersistKeeps, CancelSteersKeeps
<1> QED BY <1>1, <1>2

\* The end of a loop that holds the thread, or finds it free, may start the
\* draft: nobody else is at work then.
LEMMA EndKeeps ==
  ASSUME HeadInv, NEW r \in Runs, LoopEnds(r)
  PROVE  HeadInv'
<1> DEFINE free == owner \in {r, NoRun}
           ended == [pc EXCEPT ![r] = "done"]
<1>1. ended \in [Runs -> Pcs] /\ pc[r] = "final"
  BY DEF LoopEnds, HeadInv
<1>2. CASE free /\ draft # <<>>
  <2>1. \A q \in Runs : ended[q] \notin WorkPcs
    BY <1>1, <1>2 DEF HeadInv
  <2>2. PICK next \in Runs : Launch(next, ended)
    BY <1>2 DEF LoopEnds, Fresh
  <2> QED BY <1>1, <2>1, <2>2, LaunchKeeps
<1>3. CASE ~(free /\ draft # <<>>)
  BY <1>1, <1>3 DEF LoopEnds, HeadInv
<1> QED BY <1>2, <1>3

\* Every step keeps HeadInv.
LEMMA HeadStep == ASSUME HeadInv, [Next]_vars PROVE HeadInv'
<1>1. CASE \E m \in Msgs : SendChat(m) \/ SendPrepared(m)
  BY <1>1, AcceptKeeps DEF SendChat, SendPrepared
<1>2. CASE \/ \E m \in Msgs : SendChatWithFiles(m)
           \/ CancelRun \/ WithdrawPendingSteer \/ ClickDelete \/ DeleteQueuedFollowUp
  BY <1>2, ClientsKeep
<1>3. CASE RetryMessage \/ SelectReplyBranch
  BY <1>3, BranchesKeep
<1>4. CASE \E r \in Runs : LoopStep(r)
  <2>1. PICK r \in Runs : LoopStep(r)
    BY <1>4
  <2>2. CASE HandleSteerPending(r) \/ HandoffAnswers(r)
    BY <2>2, SteerLegKeeps
  <2>3. CASE LoopEnds(r)
    BY <2>3, EndKeeps
  <2> QED BY <2>1, <2>2, <2>3, LegKeeps DEF LoopStep
<1>5. CASE UNCHANGED vars
  BY <1>5 DEF vars, HeadInv
<1> QED BY <1>1, <1>2, <1>3, <1>4, <1>5 DEF Next

\* A loop that is at work holds the thread, and its request is the head: no
\* second loop works, and none waits for a request that others have left.
THEOREM HeadIsRequest == Spec => []HeadInv
BY HeadInit, HeadStep, PTL DEF Spec

\* A leg, from its first delta to its last retry, answers the message that is
\* the end of the conversation: no other run, send, deletion, follow-up or
\* change of branch moves the head under it.
THEOREM AnswersHead == Spec => []LegAnswersHead
<1>1. HeadInv => LegAnswersHead
  BY DEF HeadInv, LegAnswersHead
<1> QED BY <1>1, HeadIsRequest, PTL

HIDE NamesAssumption DEF WorkPcs, Pcs

--------------------------------------------------------------------------------
(*****************************************************************************)
(* One path. A reply that is saved without moving the head is what the       *)
(* steers of its run will hang under, so the paths of both are kept.         *)
(*****************************************************************************)
\* The user neither retries nor changes branches, and no message has files.
Straight == Branching = FALSE /\ FileMsgs = {}

\* Whatever is saved is on the way from the head, or from what the steers of
\* the run will hang under, to the root.
LinearInv ==
  /\ OfKind("user") \subseteq Path(head)
  /\ \A r \in Runs : pc[r] \in {"steerPending", "handoff"} => OfKind("user") \subseteq Path(request[r])
  /\ \A m \in Msgs : send[m] # "preparing"

\* Paths under a prime, from rows given by name
LEMMA PathAtHead ==
  ASSUME NEW j, head' = j
  PROVE  Path(head)' = Path(j)'
  BY DEF Path

\* The same for requests
LEMMA PathAtRequest ==
  ASSUME NEW r, NEW j, request'[r] = j
  PROVE  Path(request[r])' = Path(j)'
  BY DEF Path

\* Rows that stay have the paths they had.
LEMMA UserRowsSame ==
  ASSUME rows' = rows
  PROVE  OfKind("user")' = OfKind("user") /\ \A j : Path(j)' = Path(j)
<1>1. OfKind("user")' = OfKind("user")
  BY DEF OfKind
<1>2. \A j : Path(j)' = Path(j)
  BY DEF Path
<1> QED BY <1>1, <1>2

\* New rows leave the old ones and their paths alone.
LEMMA GrownPaths ==
  ASSUME Ordered, Grown
  PROVE  /\ \A j \in 0 .. Len(rows) : Path(j)' = Path(j)
         /\ \A j \in 1 .. Len(rows'), p \in Nat :
              rows'[j].parent = p => Path(j)' = {j} \cup Path(p)'
<1>1. Ordered' /\ Len(rows) <= Len(rows') /\ Len(rows) \in Nat
      /\ \A j \in 1 .. Len(rows) : rows'[j].parent = rows[j].parent
  BY RowFacts DEF Grown
<1>2. \A j \in 0 .. Len(rows) : Path(j)' = Path(j)
  BY <1>1, PathStays
<1>3. (/\ Path(0) = {}
       /\ \A j \in 1 .. Len(rows) : Path(j) = {j} \cup Path(rows[j].parent))'
  BY <1>1, PathEquations, PTL
<1>4. ASSUME NEW j \in 1 .. Len(rows'), NEW p \in Nat, rows'[j].parent = p
      PROVE  Path(j)' = {j} \cup Path(p)'
  <2>1. Path(j)' = {j} \cup Path(rows[j].parent)'
    BY <1>3
  <2>2. Path(rows[j].parent)' = Path(p)'
    BY <1>4 DEF Path
  <2> QED BY <2>1, <2>2
<1> QED BY <1>2, <1>4

\* Requests that are saved together hang below one another.
LEMMA ChainPath ==
  ASSUME Ordered, NEW s \in Seq(Requests), s # <<>>, NEW parent \in 0 .. Len(rows),
         SaveRequests(s, parent), NEW n, n = Len(rows), NEW k, k = Len(s)
  PROVE  /\ Path(head)' = Path(parent) \cup (n + 1 .. n + k)
         /\ OfKind("user")' \subseteq OfKind("user") \cup (n + 1 .. n + k)
<1> DEFINE c == Chained(s, parent)
<1>1. /\ Grown /\ Len(rows') = n + k /\ head' = n + k
      /\ \A i \in 1 .. k : rows'[n + i] = c[i]
  BY SavedRequests
<1>2. n \in Nat /\ k \in Nat \ {0} /\ DOMAIN rows = 1 .. n
  BY RowFacts
<1>3. \A i \in 1 .. k : c[i].parent = IF i = 1 THEN parent ELSE n + i - 1
  BY ChainedType DEF Ordered
<1>4. /\ Path(parent)' = Path(parent)
      /\ \A j \in 1 .. Len(rows'), p \in Nat : rows'[j].parent = p => Path(j)' = {j} \cup Path(p)'
  BY <1>1, GrownPaths
<1>5. Ordered' /\ \A j \in 1 .. n : rows'[j] = rows[j]
  BY <1>1 DEF Grown
<1> HIDE DEF c
<1> DEFINE P == {i \in 0 .. k : i = 0 \/ Path(n + i)' = Path(parent) \cup (n + 1 .. n + i)}
<1>6. 0 \in P
  BY <1>2
<1>7. ASSUME NEW i \in P, i \in 0 .. k - 1 PROVE i + 1 \in P
  <2>1. i + 1 \in 1 .. k /\ n + (i + 1) \in 1 .. Len(rows') /\ i + 1 \in 0 .. k
    BY <1>1, <1>2, <1>7
  <2>2. rows'[n + (i + 1)].parent = IF i = 0 THEN parent ELSE n + i
    <3>1. rows'[n + (i + 1)] = c[i + 1]
      BY <1>1, <2>1
    <3>2. c[i + 1].parent = IF i + 1 = 1 THEN parent ELSE n + (i + 1) - 1
      BY <1>3, <2>1
    <3>3. (i + 1 = 1 <=> i = 0) /\ n + (i + 1) - 1 = n + i
      BY <1>2, <1>7
    <3> QED BY <3>1, <3>2, <3>3
  <2>3. CASE i = 0
    <3>1. Path(n + (i + 1))' = {n + (i + 1)} \cup Path(parent)
      BY <1>4, <2>1, <2>2, <2>3
    <3>2. n + 1 .. n + (i + 1) = {n + (i + 1)}
      BY <1>2, <2>3
    <3>3. Path(n + (i + 1))' = Path(parent) \cup (n + 1 .. n + (i + 1))
      BY <3>1, <3>2
    <3> QED BY <2>1, <3>3
  <2>4. CASE i # 0
    <3>1. n + i \in Nat
      BY <1>2, <1>7
    <3>2. Path(n + (i + 1))' = {n + (i + 1)} \cup Path(n + i)'
      BY <1>4, <2>1, <2>2, <2>4, <3>1
    <3>3. Path(n + i)' = Path(parent) \cup (n + 1 .. n + i)
      BY <1>7, <2>4
    <3>4. n + 1 .. n + (i + 1) = (n + 1 .. n + i) \cup {n + (i + 1)}
      BY <1>2, <1>7
    <3>5. Path(n + (i + 1))' = Path(parent) \cup (n + 1 .. n + (i + 1))
      BY <3>2, <3>3, <3>4
    <3> QED BY <2>1, <3>5
  <2> QED BY <2>3, <2>4
<1>8. 0 .. k \subseteq P
  <2> HIDE DEF P
  <2> QED BY <1>2, <1>6, <1>7, InductionUpTo
<1>9. Path(n + k)' = Path(parent) \cup (n + 1 .. n + k)
  BY <1>2, <1>8
<1>10. Path(head)' = Path(n + k)'
  BY <1>1, PathAtHead
<1>11. OfKind("user")' \subseteq OfKind("user") \cup (n + 1 .. n + k)
  <2> SUFFICES ASSUME NEW i \in OfKind("user")', i \notin n + 1 .. n + k PROVE i \in OfKind("user")
    OBVIOUS
  <2>1. i \in DOMAIN rows' /\ rows'[i].kind = "user"
    BY DEF OfKind
  <2>2. DOMAIN rows' = 1 .. n + k
    <3>1. DOMAIN rows' = 1 .. Len(rows')
      BY <1>5 DEF Ordered
    <3> QED BY <1>1, <3>1
  <2>3. i \in 1 .. n
    BY <1>2, <2>1, <2>2
  <2> QED BY <1>2, <1>5, <2>1, <2>3 DEF OfKind
<1> QED BY <1>9, <1>10, <1>11

\* A reply hangs below the request of its run.
LEMMA ReplyPath ==
  ASSUME RowInv, NEW r \in Runs, NEW kind \in {"completed", "stopped", "failed"},
         SaveReply(r, kind), NEW j, j = Len(rows')
  PROVE  /\ Path(j)' = {j} \cup Path(request[r])
         /\ OfKind("user")' = OfKind("user")
         /\ \A i \in 0 .. Len(rows) : Path(i)' = Path(i)
<1>1. Grown /\ Len(rows') = Len(rows) + 1 /\ rows'[Len(rows')] = Reply(r, kind)
  BY SavedReply
<1>2. Ordered /\ Ordered' /\ Len(rows) \in Nat /\ DOMAIN rows = 1 .. Len(rows)
      /\ request[r] \in 0 .. Len(rows)
  BY <1>1, RowFacts DEF RowInv, Grown
<1>3. /\ \A i \in 0 .. Len(rows) : Path(i)' = Path(i)
      /\ \A i \in 1 .. Len(rows'), p \in Nat : rows'[i].parent = p => Path(i)' = {i} \cup Path(p)'
  BY <1>1, <1>2, GrownPaths
<1>4. DOMAIN rows' = 1 .. Len(rows')
  BY <1>2 DEF Ordered
<1>5. Reply(r, kind).parent = request[r] /\ Reply(r, kind).kind # "user"
  BY DEF Reply
<1>6. OfKind("user")' = OfKind("user")
  BY <1>1, <1>2, <1>4, <1>5 DEF OfKind, Grown
<1>7. ASSUME NEW p, p = request[r] PROVE Path(j)' = {j} \cup Path(p)
  <2>1. j \in 1 .. Len(rows') /\ p \in Nat /\ p \in 0 .. Len(rows) /\ rows'[j].parent = p
    BY <1>1, <1>2, <1>5, <1>7
  <2> QED BY <1>3, <2>1
<1> QED BY <1>3, <1>6, <1>7

\* Where a run keeps a reply the head has not moved to
SteerPcs == {"steerPending", "handoff"}

\* LinearInv holds initially.
LEMMA LinearInit == ASSUME Straight, Init PROVE LinearInv
<1>1. OfKind("user") = {}
  <2>1. DOMAIN rows = {}
    BY DEF Init
  <2> QED BY <2>1 DEF OfKind
<1> QED BY <1>1 DEF Init, LinearInv

\* Steps that save nothing
LEMMA LinearQuiet ==
  ASSUME LinearInv, UNCHANGED <<rows, head, request>>,
         \A r \in Runs : pc'[r] \in SteerPcs => pc[r] \in SteerPcs,
         \A m \in Msgs : send'[m] # "preparing"
  PROVE  LinearInv'
<1>1. OfKind("user")' = OfKind("user") /\ \A j : Path(j)' = Path(j)
  BY UserRowsSame
<1>2. ASSUME NEW h, h = head PROVE Path(head)' = Path(h)
  BY <1>1, <1>2, PathAtHead
<1>3. ASSUME NEW r \in Runs, NEW j, j = request[r] PROVE Path(request[r])' = Path(j)
  BY <1>1, <1>3, PathAtRequest
<1>4. (OfKind("user") \subseteq Path(head))'
  BY <1>1, <1>2 DEF LinearInv
<1>5. ASSUME NEW r \in Runs, pc'[r] \in SteerPcs PROVE (OfKind("user") \subseteq Path(request[r]))'
  BY <1>1, <1>3, <1>5 DEF LinearInv, SteerPcs
<1> QED BY <1>4, <1>5 DEF LinearInv, SteerPcs

\* Requests are saved below all that the user said so far.
LEMMA LinearSaved ==
  ASSUME TypeInv, NEW s \in Seq(Requests), s # <<>>, NEW parent \in 0 .. Len(rows),
         SaveRequests(s, parent), OfKind("user") \subseteq Path(parent),
         \A r \in Runs : pc'[r] \notin SteerPcs,
         \A m \in Msgs : send'[m] # "preparing"
  PROVE  LinearInv'
<1>1. Ordered
  BY DEF TypeInv, RowInv
<1>2. PICK n : n = Len(rows)
  OBVIOUS
<1>3. PICK k : k = Len(s)
  OBVIOUS
<1>4. /\ Path(head)' = Path(parent) \cup (n + 1 .. n + k)
      /\ OfKind("user")' \subseteq OfKind("user") \cup (n + 1 .. n + k)
  BY <1>1, <1>2, <1>3, ChainPath
<1>5. (OfKind("user") \subseteq Path(head))'
  BY <1>4
<1> QED BY <1>5 DEF LinearInv, SteerPcs

\* A reply is saved below all that the user said so far.
LEMMA LinearReply ==
  ASSUME TypeInv, LinearInv, NEW r \in Runs, NEW kind \in {"completed", "stopped", "failed"},
         SaveReply(r, kind), OfKind("user") \subseteq Path(request[r]),
         head' \in {head, Len(rows')},
         \A q \in Runs : pc'[q] \in SteerPcs => q = r /\ request'[r] = Len(rows'),
         UNCHANGED send
  PROVE  LinearInv'
<1>1. RowInv /\ head \in 0 .. Len(rows)
  BY DEF TypeInv, RowInv
<1>2. PICK j : j = Len(rows')
  OBVIOUS
<1>3. /\ Path(j)' = {j} \cup Path(request[r])
      /\ OfKind("user")' = OfKind("user")
      /\ \A i \in 0 .. Len(rows) : Path(i)' = Path(i)
  BY <1>1, <1>2, ReplyPath
<1>4. (OfKind("user") \subseteq Path(head))'
  <2>1. CASE head' = Len(rows')
    <3>1. Path(head)' = Path(j)'
      BY <1>2, <2>1, PathAtHead
    <3> QED BY <1>3, <3>1
  <2>2. CASE head' = head
    <3>1. PICK h : h = head
      OBVIOUS
    <3>2. Path(head)' = Path(h)' /\ Path(h)' = Path(h)
      BY <1>1, <1>3, <2>2, <3>1, PathAtHead
    <3> QED BY <1>3, <3>1, <3>2 DEF LinearInv
  <2> QED BY <2>1, <2>2
<1>5. ASSUME NEW q \in Runs, pc'[q] \in SteerPcs PROVE (OfKind("user") \subseteq Path(request[q]))'
  <2>1. request'[q] = j
    BY <1>2, <1>5
  <2>2. Path(request[q])' = Path(j)'
    BY <2>1, PathAtRequest
  <2> QED BY <1>3, <2>2
<1> QED BY <1>4, <1>5 DEF LinearInv, SteerPcs

\* Every step keeps LinearInv.
LEMMA LinearStep ==
  ASSUME Straight, TypeInv, HeadInv, LinearInv, Next
  PROVE  LinearInv'
<1> USE DEF SteerPcs
<1>0. /\ head \in 0 .. Len(rows) /\ send \in [Msgs -> {"new", "preparing", "accepted", "withdrawn", "lost"}]
      /\ pc \in [Runs -> Pcs] /\ owner \in Runs \cup {NoRun}
      /\ \A r \in Runs : request[r] \in 0 .. Len(rows)
  BY DEF TypeInv, RowInv, ControlInv
<1>1. \A r \in Runs : pc[r] \in WorkPcs => owner = r
  BY DEF HeadInv
<1>2. ASSUME NEW m \in Msgs, SendChat(m) PROVE LinearInv'
  <2>1. \A k \in Msgs : send'[k] # "preparing"
    BY <1>0, <1>2 DEF SendChat, Accept, LinearInv
  <2>2. CASE StartFreshRun(m, head)
    <3>1. <<NewRequest(m)>> \in Seq(Requests) /\ <<NewRequest(m)>> # <<>>
      <4>1. NewRequest(m) \in Requests
        BY NewSound DEF Items, SoundRequests
      <4> QED BY <4>1
    <3>2. \A r \in Runs : pc'[r] \notin SteerPcs
      BY <1>0, <1>1, <2>2, NamesAssumption DEF StartFreshRun, Launch, Fresh, WorkPcs
    <3>3. SaveRequests(<<NewRequest(m)>>, head)
      BY <2>2 DEF StartFreshRun
    <3> HIDE DEF SteerPcs
    <3> QED BY <1>0, <2>1, <3>1, <3>2, <3>3, LinearSaved DEF LinearInv
  <2>3. CASE SendToActiveRun(m)
    <3>1. UNCHANGED <<rows, head, request, pc>>
      BY <2>3 DEF SendToActiveRun, AddSteer, QueueFollowUp
    <3> QED BY <2>1, <3>1, LinearQuiet
  <2> QED BY <1>2, <2>2, <2>3 DEF SendChat, Accept
<1>3. ASSUME NEW m \in Msgs, SendChatWithFiles(m) \/ SendPrepared(m) PROVE FALSE
  BY <1>3 DEF SendChatWithFiles, SendPrepared, Straight, LinearInv
<1>4. CASE CancelRun \/ WithdrawPendingSteer \/ ClickDelete \/ DeleteQueuedFollowUp
  <2>1. UNCHANGED <<rows, head, request, pc>>
    BY <1>4 DEF CancelRun, WithdrawPendingSteer, ClickDelete, DeleteQueuedFollowUp
  <2>2. \A k \in Msgs : send'[k] # "preparing"
    BY <1>4 DEF CancelRun, WithdrawPendingSteer, ClickDelete, DeleteQueuedFollowUp, End, LinearInv
  <2> QED BY <2>1, <2>2, LinearQuiet
<1>5. ~RetryMessage /\ ~SelectReplyBranch
  BY DEF RetryMessage, SelectReplyBranch, Straight
<1>6. ASSUME NEW r \in Runs, LoopStep(r) PROVE LinearInv'
  <2>0. \A q \in Runs : pc[r] \in WorkPcs /\ pc[q] \in SteerPcs => q = r
    BY <1>1 DEF WorkPcs
  <2>1. CASE pc[r] \in {"leg", "backoff"} /\ LoopStep(r)
    <3>1. request[r] = head
      BY <2>1 DEF HeadInv
    <3>2. OfKind("user") \subseteq Path(request[r])
      BY <3>1 DEF LinearInv
    <3>3. CASE LegCompletes(r) \/ ObserveAbort(r) \/ LegFails(r)
      <4>1. \A q \in Runs : pc'[q] \notin SteerPcs
        BY <1>0, <2>0, <2>1, <3>3 DEF LegCompletes, ObserveAbort, LegFails, WorkPcs
      <4>2. head' \in {head, Len(rows')} /\ UNCHANGED send
        BY <3>3 DEF LegCompletes, ObserveAbort, LegFails
      <4>3. SaveReply(r, "completed") \/ SaveReply(r, "stopped") \/ SaveReply(r, "failed")
        BY <3>3 DEF LegCompletes, ObserveAbort, LegFails
      <4> HIDE DEF SteerPcs
      <4> QED BY <3>2, <4>1, <4>2, <4>3, LinearReply
    <3>4. CASE LegCompletesWithSteers(r)
      <4>1. \A q \in Runs : pc'[q] \in SteerPcs => q = r /\ request'[r] = Len(rows')
        BY <1>0, <2>0, <2>1, <3>4 DEF LegCompletesWithSteers, WorkPcs, TypeInv, RowInv
      <4>2. head' \in {head, Len(rows')} /\ UNCHANGED send /\ SaveReply(r, "completed")
        BY <3>4 DEF LegCompletesWithSteers
      <4> HIDE DEF SteerPcs
      <4> QED BY <3>2, <4>1, <4>2, LinearReply
    <3>5. CASE BackoffAborted(r)
      <4>1. \A q \in Runs : pc'[q] \notin SteerPcs
        BY <1>0, <2>0, <2>1, <3>5 DEF BackoffAborted, WorkPcs
      <4>2. UNCHANGED <<send, request>>
        BY <3>5 DEF BackoffAborted
      <4>3. CASE SaveReply(r, "stopped") /\ head' = Len(rows')
        <5> HIDE DEF SteerPcs
        <5> QED BY <3>2, <4>1, <4>2, <4>3, LinearReply
      <4>4. CASE UNCHANGED <<rows, head>>
        BY <4>1, <4>2, <4>4, LinearQuiet DEF LinearInv
      <4> QED BY <3>5, <4>3, <4>4 DEF BackoffAborted
    <3>6. CASE RequestContextHandoff(r) \/ LegRetries(r) \/ NextLeg(r)
      <4>1. UNCHANGED <<rows, head, request, send>> /\ \A q \in Runs : pc'[q] \in SteerPcs => pc[q] \in SteerPcs
        BY <1>0, <3>6 DEF RequestContextHandoff, LegRetries, NextLeg
      <4> QED BY <4>1, LinearQuiet DEF LinearInv
    <3> QED BY <2>1, <3>3, <3>4, <3>5, <3>6 DEF LoopStep, HandleSteerPending, HandoffAnswers,
              Release, LegReturns, LoopEnds
  <2>2. ASSUME pc[r] \in SteerPcs, NEW s \in Seq(Requests), s # <<>>, PersistSteers(r, s), UNCHANGED send
        PROVE  LinearInv'
    <3>1. \A q \in Runs : pc'[q] \notin SteerPcs
      BY <1>0, <2>0, <2>2 DEF PersistSteers, WorkPcs
    <3>2. OfKind("user") \subseteq Path(request[r]) /\ request[r] \in 0 .. Len(rows)
      BY <1>0, <2>2 DEF LinearInv
    <3>3. SaveRequests(s, request[r]) /\ \A m \in Msgs : send'[m] # "preparing"
      BY <2>2 DEF PersistSteers, LinearInv
    <3> HIDE DEF SteerPcs
    <3> QED BY <2>2, <3>1, <3>2, <3>3, LinearSaved
  <2>3. ASSUME pc[r] \in SteerPcs, CancelSteerPending(r), UNCHANGED send
        PROVE  LinearInv'
    <3>1. UNCHANGED <<rows, head, request>> /\ \A q \in Runs : pc'[q] \in SteerPcs => pc[q] \in SteerPcs
      BY <1>0, <2>3 DEF CancelSteerPending
    <3> QED BY <2>3, <3>1, LinearQuiet DEF LinearInv
  <2>4. steers[r] \in Seq(Requests) /\ WithoutContinuation(steers[r]) \in Seq(Requests)
    BY PairsAreSound, SoundAreRequests, WithoutContinuationType DEF TypeInv, BoxInv
  <2>5. CASE HandleSteerPending(r)
    <3>1. CASE steers[r] # <<>> /\ PersistSteers(r, steers[r])
      BY <2>2, <2>4, <2>5, <3>1 DEF HandleSteerPending
    <3>2. CASE CancelSteerPending(r)
      BY <2>3, <2>5, <3>2 DEF HandleSteerPending
    <3>3. CASE Goto(r, "handoff") /\ UNCHANGED <<rows, head, request>>
      <4>1. \A q \in Runs : pc'[q] \in SteerPcs => pc[q] \in SteerPcs
        BY <1>0, <2>5, <3>3 DEF HandleSteerPending
      <4> QED BY <2>5, <3>3, <4>1, LinearQuiet DEF HandleSteerPending, LinearInv
    <3> QED BY <2>5, <3>1, <3>2, <3>3 DEF HandleSteerPending
  <2>6. CASE HandoffAnswers(r)
    <3>1. CASE CancelSteerPending(r)
      BY <2>3, <2>6, <3>1 DEF HandoffAnswers
    <3>2. CASE \E s \in Seq(Requests) : s # <<>> /\ PersistSteers(r, s)
      BY <2>2, <2>6, <3>2 DEF HandoffAnswers
    <3> QED BY <2>4, <2>6, <3>1, <3>2 DEF HandoffAnswers
  <2>7. CASE NextLeg(r) \/ Release(r) \/ LegReturns(r)
    <3>1. UNCHANGED <<rows, head, request, send>> /\ \A q \in Runs : pc'[q] \in SteerPcs => pc[q] \in SteerPcs
      BY <1>0, <2>7 DEF NextLeg, Release, LegReturns
    <3> QED BY <3>1, LinearQuiet DEF LinearInv
  <2>8. CASE LoopEnds(r)
    <3>0. \A m \in Msgs : send'[m] # "preparing"
      BY <2>8 DEF LoopEnds, End, LinearInv
    <3>1. CASE owner \in {r, NoRun} /\ draft # <<>>
      <4>1. draft \in Seq(Requests) /\ SaveRequests(draft, head)
        BY <2>8, <3>1, SoundAreRequests DEF LoopEnds, TypeInv, BoxInv
      <4>2. \A q \in Runs : pc[q] \notin SteerPcs
        BY <1>1, <2>8, <3>1, NamesAssumption DEF LoopEnds, WorkPcs
      <4>3. \A q \in Runs : pc'[q] \notin SteerPcs
        BY <1>0, <2>8, <3>1, <4>2 DEF LoopEnds, Launch, Fresh
      <4> HIDE DEF SteerPcs
      <4> QED BY <1>0, <3>0, <3>1, <4>1, <4>3, LinearSaved DEF LinearInv
    <3>2. CASE ~(owner \in {r, NoRun} /\ draft # <<>>)
      <4>1. UNCHANGED <<rows, head, request>> /\ \A q \in Runs : pc'[q] \in SteerPcs => pc[q] \in SteerPcs
        BY <1>0, <2>8, <3>2 DEF LoopEnds
      <4> QED BY <3>0, <4>1, LinearQuiet
    <3> QED BY <3>1, <3>2
  <2> QED BY <1>6, <2>1, <2>5, <2>6, <2>7, <2>8 DEF LoopStep, RequestContextHandoff, LegCompletes,
        LegCompletesWithSteers, LegFails, ObserveAbort, LegRetries, BackoffAborted
<1> QED BY <1>2, <1>3, <1>4, <1>5, <1>6 DEF Next

\* Stuttering keeps it.
LEMMA LinearStutter ==
  ASSUME LinearInv, UNCHANGED vars
  PROVE  LinearInv'
  BY LinearQuiet DEF vars, LinearInv

\* Every message saved is on the path the model is shown, as long as the user
\* asks for no branch and no message waits for its files: replies, chains of
\* steers and drafts that are started later never fork the thread.
THEOREM Linear == ASSUME Straight PROVE Spec => []UserMessagesOnPath
<1>1. Init => LinearInv
  BY LinearInit
<1>2. TypeInv /\ HeadInv /\ LinearInv /\ [Next]_vars => LinearInv'
  BY LinearStep, LinearStutter
<1>3. LinearInv => UserMessagesOnPath
  BY DEF LinearInv, UserMessagesOnPath
<1> QED BY <1>1, <1>2, <1>3, TypeInvariant, HeadIsRequest, PTL DEF Spec

--------------------------------------------------------------------------------
(*****************************************************************************)
(* The thread implements the inbox of MODULE MessageInbox, once for what     *)
(* the user sends and once for what the system sends. Boxes are the steers   *)
(* of the runs and the draft, each read as the sequence of its messages of   *)
(* one visibility; rows are what has been said. Each operation on requests   *)
(* is shown to do to these sequences what a step of the inbox does, and      *)
(* then each step of the thread to be a step of the inbox or none. First,    *)
(* the messages of one class in a sequence of requests.                      *)
(*****************************************************************************)
\* Requests and rows have a body of items
LEMMA Bodies ==
  /\ \A q \in Requests : q.body \in Seq(Items)
  /\ \A q \in Rows : q.body \in Seq(Items)
  BY DEF Requests, Rows

\* What has a body of items
Bodied(X) == \A q \in X : q.body \in Seq(Items)

\* The texts of the requests, one by one
Parts(s, C) == [i \in DOMAIN s |-> Kept(s[i].body, C)]

\* A sequence of sequences as long as the requests
LEMMA PartsType ==
  ASSUME NEW X, Bodied(X), NEW s \in Seq(X), NEW C
  PROVE  /\ Parts(s, C) \in Seq(Seq(Items)) /\ Len(Parts(s, C)) = Len(s)
         /\ \A i \in 1 .. Len(s) : Parts(s, C)[i] = Kept(s[i].body, C)
<1> DEFINE p == Parts(s, C)
           Y == Seq(Items)
           n == Len(s)
<1>1. n \in Nat /\ DOMAIN s = 1 .. n /\ \A i \in 1 .. n : s[i] \in X
  OBVIOUS
<1>2. p = [i \in 1 .. n |-> Kept(s[i].body, C)]
  BY <1>1, Zenon DEF Parts
<1>3. \A i \in 1 .. n : Kept(s[i].body, C) \in Y
  BY <1>1, KeptType DEF Bodied
<1> HIDE DEF Y, n
<1>4. p \in [1 .. n -> Y] /\ \A i \in 1 .. n : p[i] = Kept(s[i].body, C)
  <2> HIDE DEF p
  <2> QED BY <1>2, <1>3, Zenon
<1> HIDE DEF p
<1>5. p \in Seq(Y) /\ Len(p) = n
  BY <1>1, <1>4
<1> QED BY <1>4, <1>5, Zenon DEF p, Y, n

\* Texts joins them.
LEMMA TextsAre == \A s, C : Texts(s, C) = FlattenSeq(Parts(s, C))
  BY DEF Texts, Parts

\* Texts is a sequence of items.
LEMMA TextsType ==
  ASSUME NEW X, Bodied(X), NEW s \in Seq(X), NEW C
  PROVE  Texts(s, C) \in Seq(Items)
  BY PartsType, TextsAre, FlattenType

\* No request says nothing.
LEMMA TextsEmpty == \A C : Texts(<<>>, C) = <<>>
<1> SUFFICES ASSUME NEW C PROVE Texts(<<>>, C) = <<>>
  OBVIOUS
<1>1. Parts(<<>>, C) = <<>>
  BY DEF Parts
<1>2. FlattenSeq(<<>>) = <<>>
  BY DEF FlattenSeq
<1> QED BY <1>1, <1>2, TextsAre, Zenon

\* One request says its body.
LEMMA TextsOne ==
  ASSUME NEW q, q.body \in Seq(Items), NEW C
  PROVE  Texts(<<q>>, C) = Kept(q.body, C)
<1> DEFINE s == <<q>>
           k == Kept(q.body, C)
           p == Parts(s, C)
<1>1. DOMAIN s = {1} /\ s[1] = q
  OBVIOUS
<1> HIDE DEF s
<1>2. p = [i \in DOMAIN s |-> p[i]] /\ p[1] = k
  BY <1>1 DEF Parts
<1> HIDE DEF p
<1>3. p = <<k>>
  <2>1. p = <<p[1]>>
    BY <1>1, <1>2, MapOne, Zenon
  <2> QED BY <1>2, <2>1, Zenon
<1>4. k \in Seq(Items)
  BY KeptType
<1> HIDE DEF k
<1>5. FlattenSeq(<<k>>) = k
  BY <1>4, FlattenOne
<1> QED BY <1>3, <1>5, TextsAre, Zenon DEF p, s, k

\* Requests in a row say what they say one after the other.
LEMMA TextsConcat ==
  ASSUME NEW X, Bodied(X), NEW s \in Seq(X), NEW t \in Seq(X), NEW C
  PROVE  Texts(s \o t, C) = Texts(s, C) \o Texts(t, C)
<1> DEFINE u == s \o t
           p == Parts(s, C)
           q == Parts(t, C)
           r == Parts(u, C)
           Y == Seq(Items)
<1>1. /\ u \in Seq(X) /\ Len(s) \in Nat /\ Len(t) \in Nat /\ Len(u) = Len(s) + Len(t)
      /\ \A i \in 1 .. Len(s) + Len(t) : u[i] = IF i <= Len(s) THEN s[i] ELSE t[i - Len(s)]
  <2>1. /\ u \in Seq(X) /\ Len(u) = Len(s) + Len(t)
        /\ \A i \in 1 .. Len(s) + Len(t) : u[i] = IF i <= Len(s) THEN s[i] ELSE t[i - Len(s)]
    BY ConcatProperties, Zenon
  <2> QED BY <2>1
<1> HIDE DEF u
<1>2. /\ p \in Seq(Y) /\ Len(p) = Len(s) /\ \A i \in 1 .. Len(s) : p[i] = Kept(s[i].body, C)
      /\ q \in Seq(Y) /\ Len(q) = Len(t) /\ \A i \in 1 .. Len(t) : q[i] = Kept(t[i].body, C)
      /\ r \in Seq(Y) /\ Len(r) = Len(u) /\ \A i \in 1 .. Len(u) : r[i] = Kept(u[i].body, C)
  BY <1>1, PartsType
<1> HIDE DEF p, q, r
<1>3. r = p \o q
  <2> HIDE DEF Y
  <2>1. /\ p \o q \in Seq(Y) /\ Len(p \o q) = Len(p) + Len(q)
        /\ \A i \in 1 .. Len(p) + Len(q) : (p \o q)[i] = IF i <= Len(p) THEN p[i] ELSE q[i - Len(p)]
    <3>1. p \in Seq(Y) /\ q \in Seq(Y)
      BY <1>2
    <3> QED BY <3>1, ConcatProperties, Zenon
  <2> DEFINE v == p \o q
  <2> HIDE DEF v
  <2>2. /\ v \in Seq(Y) /\ Len(v) = Len(s) + Len(t)
        /\ \A i \in 1 .. Len(s) + Len(t) : v[i] = IF i <= Len(s) THEN p[i] ELSE q[i - Len(s)]
    BY <1>2, <2>1, Zenon DEF v
  <2>3. ASSUME NEW i \in 1 .. Len(s) + Len(t) PROVE r[i] = v[i]
    <3>1. CASE i <= Len(s)
      <4>1. i \in 1 .. Len(s) /\ i \in 1 .. Len(u)
        BY <1>1, <3>1
      <4> QED BY <1>1, <1>2, <2>2, <3>1, <4>1
    <3>2. CASE ~(i <= Len(s))
      <4>1. i - Len(s) \in 1 .. Len(t) /\ i \in 1 .. Len(u)
        BY <1>1, <3>2
      <4> QED BY <1>1, <1>2, <2>2, <3>2, <4>1
    <3> QED BY <3>1, <3>2
  <2>4. r = v
    BY <1>1, <1>2, <2>2, <2>3, SeqEqual
  <2> QED BY <2>4 DEF v
<1>4. FlattenSeq(p \o q) = FlattenSeq(p) \o FlattenSeq(q)
  <2>1. p \in Seq(Seq(Items)) /\ q \in Seq(Seq(Items))
    BY <1>2
  <2> QED BY <2>1, FlattenConcat
<1> QED BY <1>3, <1>4, TextsAre, Zenon DEF u, p, q, r

\* A request more is said last.
LEMMA TextsAppend ==
  ASSUME NEW X, Bodied(X), NEW s \in Seq(X), NEW q \in X, NEW C
  PROVE  Texts(Append(s, q), C) = Texts(s, C) \o Kept(q.body, C)
<1> DEFINE last == <<q>>
<1>1. Append(s, q) = s \o last /\ last \in Seq(X)
  OBVIOUS
<1>2. Texts(last, C) = Kept(q.body, C)
  BY TextsOne DEF Bodied
<1> HIDE DEF last
<1>3. Texts(s \o last, C) = Texts(s, C) \o Texts(last, C)
  BY <1>1, TextsConcat
<1> QED BY <1>1, <1>2, <1>3, Zenon

\* The texts of a class are the messages of the class.
LEMMA TextsElements ==
  ASSUME NEW X, Bodied(X), NEW s \in Seq(X), NEW C, C \subseteq Msgs
  PROVE  ToSet(Texts(s, C)) = MessagesOf(s) \cap C
<1> DEFINE P == {t \in Seq(X) : ToSet(Texts(t, C)) = MessagesOf(t) \cap C}
<1>1. <<>> \in P
  <2>1. <<>> \in Seq(X)
    OBVIOUS
  <2>2. ToSet(Texts(<<>>, C)) = {} /\ MessagesOf(<<>>) = {}
    BY TextsEmpty, ToSetEmpty, MessagesEmpty, Zenon
  <2> QED BY <2>1, <2>2
<1>2. ASSUME NEW t \in Seq(X), NEW q \in X, t \in P PROVE Append(t, q) \in P
  <2> DEFINE u == Append(t, q)
  <2>1. u \in Seq(X)
    OBVIOUS
  <2>2. q.body \in Seq(Items) /\ Texts(t, C) \in Seq(Items) /\ Kept(q.body, C) \in Seq(Items)
    BY TextsType, KeptType DEF Bodied
  <2>3. Texts(u, C) = Texts(t, C) \o Kept(q.body, C)
    BY TextsAppend
  <2>4. MessagesOf(u) = MessagesOf(t) \cup MessagesOf(<<q>>)
    BY MessagesAppend
  <2>5. MessagesOf(<<q>>) = ToSet(q.body) \cap Msgs
    BY MessagesOne
  <2>6. ToSet(Texts(t, C) \o Kept(q.body, C)) = ToSet(Texts(t, C)) \cup ToSet(Kept(q.body, C))
    BY <2>2, ToSetConcat
  <2>7. ToSet(Kept(q.body, C)) = ToSet(q.body) \cap C
    BY <2>2, KeptElements
  <2> HIDE DEF u
  <2>8. ToSet(Texts(u, C)) = MessagesOf(u) \cap C
    <3>1. ToSet(Texts(u, C)) = ToSet(Texts(t, C)) \cup ToSet(Kept(q.body, C))
      BY <2>3, <2>6, Zenon
    <3> QED BY <1>2, <2>4, <2>5, <2>7, <3>1
  <2> QED BY <2>1, <2>8 DEF u
<1>3. Seq(X) \subseteq P
  <2> HIDE DEF P
  <2> QED BY <1>1, <1>2, SequenceInduction
<1> QED BY <1>3

\* The messages of one visibility
Class(C, h) == C \subseteq Msgs /\ h \in BOOLEAN /\ \A m \in C : m \in Hidden <=> h

\* All of them have one.
LEMMA BodyTypes ==
  /\ Bodied(Requests) /\ Bodied(SoundRequests) /\ Bodied(Rows)
  BY DEF Bodied, SoundRequests, Requests, Rows

\* A request of the other visibility has no text of the class.
LEMMA OtherSide ==
  ASSUME NEW C, NEW h, Class(C, h), NEW q \in SoundRequests
  PROVE  /\ Kept(q.body, C) \in Seq(Items)
         /\ q.hidden # h => Kept(q.body, C) = <<>>
<1>1. q.body \in Seq(Items) /\ q.hidden \in BOOLEAN
  BY DEF SoundRequests, Requests
<1>2. ASSUME q.hidden # h PROVE ToSet(q.body) \cap C = {}
  BY <1>1, <1>2, MessageIsSound DEF Class
<1> QED BY <1>1, <1>2, KeptType, KeptNone

\* Texts of two requests
LEMMA TextsTwo ==
  ASSUME NEW X, Bodied(X), NEW p \in X, NEW q \in X, NEW C
  PROVE  Texts(<<p, q>>, C) = Kept(p.body, C) \o Kept(q.body, C)
<1> DEFINE a == <<p>>
           b == <<q>>
<1>1. a \in Seq(X) /\ b \in Seq(X)
  OBVIOUS
<1>2. Texts(a, C) = Kept(p.body, C) /\ Texts(b, C) = Kept(q.body, C)
  BY TextsOne DEF Bodied
<1>3. <<p, q>> = a \o b
  BY JoinTwo
<1> HIDE DEF a, b
<1>4. Texts(a \o b, C) = Texts(a, C) \o Texts(b, C)
  BY <1>1, TextsConcat
<1> QED BY <1>2, <1>3, <1>4, Zenon

\* A merged request has the texts of both.
LEMMA MergeTexts ==
  ASSUME NEW a \in SoundRequests, NEW b \in SoundRequests, a.hidden = b.hidden,
         NEW id \in {a.id, b.id}, NEW C
  PROVE  Kept(Merge(a, b, id).body, C) = Kept(a.body, C) \o Kept(b.body, C)
<1>1. Merge(a, b, id).body = a.body \o b.body
  BY MergeSound
<1>2. a.body \in Seq(Items) /\ b.body \in Seq(Items)
  BY BodyTypes DEF Bodied
<1> DEFINE x == a.body
           y == b.body
<1> HIDE DEF x, y
<1>3. Kept(x \o y, C) = Kept(x, C) \o Kept(y, C)
  <2>1. x \in Seq(Items) /\ y \in Seq(Items)
    BY <1>2 DEF x, y
  <2> QED BY <2>1, KeptConcat
<1> QED BY <1>1, <1>3, Zenon DEF x, y

\* A steer joins those of its visibility, after them.
LEMMA WithSteerTexts ==
  ASSUME NEW C, NEW h, Class(C, h), NEW s \in Pairs, NEW n \in SoundRequests
  PROVE  Texts(WithSteer(s, n), C) = Texts(s, C) \o Kept(n.body, C)
<1> DEFINE K(q) == Kept(q.body, C)
<1>1. \A q \in SoundRequests : K(q) \in Seq(Items) /\ (q.hidden # h => K(q) = <<>>)
  BY OtherSide
<1>2. /\ \A p \in SoundRequests : Texts(<<p>>, C) = K(p)
      /\ \A p, q \in SoundRequests : Texts(<<p, q>>, C) = K(p) \o K(q)
      /\ \A p, q \in SoundRequests : p.hidden = q.hidden => K(Merge(p, q, p.id)) = K(p) \o K(q)
  <2>1. \A p \in SoundRequests : Texts(<<p>>, C) = K(p)
    BY TextsOne, BodyTypes DEF Bodied
  <2>2. \A p, q \in SoundRequests : Texts(<<p, q>>, C) = K(p) \o K(q)
    BY TextsTwo, BodyTypes
  <2>3. \A p, q \in SoundRequests : p.hidden = q.hidden => K(Merge(p, q, p.id)) = K(p) \o K(q)
    BY MergeTexts
  <2> QED BY <2>1, <2>2, <2>3, Zenon
<1>3. Texts(<<>>, C) = <<>>
  BY TextsEmpty
<1>4. \A p \in SoundRequests : p.hidden \in BOOLEAN
  BY DEF SoundRequests, Requests
<1>5. h \in BOOLEAN /\ n.hidden \in BOOLEAN
  BY <1>4 DEF Class
<1> HIDE DEF K
<1>6. CASE s = <<>>
  <2>1. <<>> \o K(n) = K(n)
    BY <1>1, Joining
  <2>2. WithSteer(s, n) = <<n>>
    BY <1>6, WithSteerEmpty
  <2> QED BY <1>2, <1>3, <1>6, <2>1, <2>2, Zenon DEF K
<1>7. CASE \E a \in SoundRequests : s = <<a>>
  <2>1. PICK a \in SoundRequests : s = <<a>>
    BY <1>7
  <2>2. CASE a.hidden = n.hidden
    <3> DEFINE q == Merge(a, n, a.id)
    <3>1. WithSteer(s, n) = <<q>> /\ q \in SoundRequests
      BY <2>1, <2>2, WithSteerOne, MergeSound
    <3>2. K(q) = K(a) \o K(n)
      BY <1>2, <2>2
    <3> HIDE DEF q
    <3> QED BY <1>2, <2>1, <3>1, <3>2, Zenon DEF K
  <2>3. CASE a.hidden # n.hidden
    <3>1. a.hidden = TRUE \/ a.hidden = FALSE
      BY <1>4
    <3>2. K(a) = <<>> \/ K(n) = <<>>
      BY <1>1, <1>4, <1>5, <2>3
    <3>3. K(n) \o K(a) = K(a) \o K(n)
      BY <1>1, <3>2, Joining
    <3>4. WithSteer(s, n) \in {<<n, a>>, <<a, n>>}
      <4>1. (n.hidden /\ ~a.hidden) \/ (a.hidden /\ ~n.hidden)
        <5>1. n.hidden = TRUE \/ n.hidden = FALSE
          BY <1>5
        <5>2. CASE a.hidden = TRUE
          BY <2>3, <5>1, <5>2
        <5>3. CASE a.hidden = FALSE
          BY <2>3, <5>1, <5>3
        <5> QED BY <3>1, <5>2, <5>3
      <4>2. WithSteer(<<a>>, n) = <<n, a>> \/ WithSteer(<<a>>, n) = <<a, n>>
        BY <4>1, WithSteerOne
      <4> QED BY <2>1, <4>2, Zenon
    <3>5. Texts(WithSteer(s, n), C) = K(a) \o K(n)
      BY <1>2, <3>3, <3>4
    <3> QED BY <1>2, <2>1, <3>5, Zenon DEF K
  <2> QED BY <2>2, <2>3
<1>8. CASE \E a, b \in SoundRequests : a.hidden /\ ~b.hidden /\ s = <<a, b>>
  <2>1. PICK a \in SoundRequests, b \in SoundRequests : a.hidden /\ ~b.hidden /\ s = <<a, b>>
    BY <1>8
  <2>2. a.hidden = TRUE /\ b.hidden = FALSE
    BY <1>4, <2>1
  <2>3. CASE n.hidden
    <3> DEFINE q == Merge(a, n, a.id)
    <3>1. WithSteer(s, n) = <<q, b>> /\ q \in SoundRequests
      <4>1. a.hidden = n.hidden
        BY <1>5, <2>2, <2>3
      <4>2. q \in SoundRequests
        BY <4>1, MergeSound
      <4> HIDE DEF q
      <4>3. WithSteer(<<a, b>>, n) = <<q, b>>
        BY <2>1, <2>3, WithSteerTwo DEF q
      <4> QED BY <2>1, <4>2, <4>3, Zenon
    <3>2. K(q) = K(a) \o K(n)
      BY <1>2, <2>2, <2>3
    <3>3. K(b) = <<>> \/ K(n) = <<>>
      BY <1>1, <1>5, <2>2, <2>3
    <3>4. K(n) \o K(b) = K(b) \o K(n) /\ (K(a) \o K(b)) \o K(n) = K(a) \o (K(b) \o K(n))
          /\ (K(a) \o K(n)) \o K(b) = K(a) \o (K(n) \o K(b))
      <4>1. K(a) \in Seq(Items) /\ K(b) \in Seq(Items) /\ K(n) \in Seq(Items)
        BY <1>1
      <4>2. K(n) \o K(b) = K(b) \o K(n)
        BY ONLY <3>3, <4>1, Joining
      <4>3. (K(a) \o K(b)) \o K(n) = K(a) \o (K(b) \o K(n))
        BY ONLY <4>1, Joining
      <4>4. (K(a) \o K(n)) \o K(b) = K(a) \o (K(n) \o K(b))
        BY ONLY <4>1, Joining
      <4> QED BY <4>2, <4>3, <4>4, Zenon
    <3> HIDE DEF q
    <3> QED BY <1>2, <2>1, <3>1, <3>2, <3>4, Zenon DEF K
  <2>4. CASE ~n.hidden
    <3> DEFINE q == Merge(b, n, b.id)
    <3>1. WithSteer(s, n) = <<a, q>> /\ q \in SoundRequests
      <4>1. b.hidden = n.hidden
        BY <1>5, <2>2, <2>4
      <4>2. q \in SoundRequests
        BY <4>1, MergeSound
      <4> HIDE DEF q
      <4>3. WithSteer(<<a, b>>, n) = <<a, q>>
        BY <2>1, <2>4, WithSteerTwo DEF q
      <4> QED BY <2>1, <4>2, <4>3, Zenon
    <3>2. K(q) = K(b) \o K(n)
      BY <1>2, <1>5, <2>2, <2>4
    <3>3. (K(a) \o K(b)) \o K(n) = K(a) \o (K(b) \o K(n))
      BY <1>1, Joining
    <3> HIDE DEF q
    <3> QED BY <1>2, <2>1, <3>1, <3>2, <3>3, Zenon DEF K
  <2> QED BY <2>3, <2>4
<1> QED BY <1>6, <1>7, <1>8, PairCases

\* So does a queued message those of the draft.
LEMMA WithFollowUpTexts ==
  ASSUME NEW C, NEW h, Class(C, h), NEW s \in Seq(SoundRequests), NEW n \in SoundRequests
  PROVE  Texts(WithFollowUp(s, n), C) = Texts(s, C) \o Kept(n.body, C)
<1> DEFINE K(q) == Kept(q.body, C)
           f == Front(s)
           l == Last(s)
<1>1. \A q \in SoundRequests : K(q) \in Seq(Items) /\ (q.hidden # h => K(q) = <<>>)
  BY OtherSide
<1>2. n.hidden \in BOOLEAN /\ h \in BOOLEAN
  BY DEF SoundRequests, Requests, Class
<1>3. CASE s = <<>>
  <2>1. WithFollowUp(s, n) = <<n>>
    BY <1>3 DEF WithFollowUp
  <2>2. Texts(<<n>>, C) = K(n) /\ Texts(<<>>, C) = <<>>
    BY TextsOne, TextsEmpty, BodyTypes DEF Bodied
  <2> HIDE DEF K
  <2>3. <<>> \o K(n) = K(n)
    BY <1>1, Joining
  <2> QED BY <1>3, <2>1, <2>2, <2>3, Zenon DEF K
<1>4. CASE s # <<>>
  <2>1. f \in Seq(SoundRequests) /\ l \in SoundRequests /\ s = Append(f, l)
    BY <1>4, FrontLast
  <2>2. /\ l.hidden = n.hidden => WithFollowUp(s, n) = Append(f, Merged(l, n))
        /\ l.hidden # n.hidden => WithFollowUp(s, n) = f \o <<n, l>> \/ WithFollowUp(s, n) = Append(s, n)
    BY <1>4 DEF WithFollowUp
  <2>3. l.hidden \in BOOLEAN
    BY <2>1 DEF SoundRequests, Requests
  <2> HIDE DEF f, l
  <2>4. Texts(s, C) = Texts(f, C) \o K(l) /\ Texts(f, C) \in Seq(Items)
    BY <2>1, TextsAppend, TextsType, BodyTypes, Zenon
  <2>5. CASE l.hidden = n.hidden
    <3> DEFINE q == Merged(l, n)
    <3>1. q \in SoundRequests /\ K(q) = K(l) \o K(n)
      <4>1. Merge(l, n, n.id) \in SoundRequests
        BY <2>1, <2>5, MergeSound
      <4>2. Kept(Merge(l, n, n.id).body, C) = Kept(l.body, C) \o Kept(n.body, C)
        BY <2>1, <2>5, MergeTexts
      <4> QED BY <4>1, <4>2, Zenon DEF Merged
    <3> HIDE DEF q
    <3>2. Texts(Append(f, q), C) = Texts(f, C) \o K(q)
      BY <2>1, <3>1, TextsAppend, BodyTypes, Zenon
    <3> HIDE DEF K
    <3>3. (Texts(f, C) \o K(l)) \o K(n) = Texts(f, C) \o (K(l) \o K(n))
      BY <1>1, <2>1, <2>4, Joining
    <3> QED BY <2>2, <2>4, <2>5, <3>1, <3>2, <3>3, Zenon DEF q, K
  <2>6. CASE l.hidden # n.hidden /\ WithFollowUp(s, n) = f \o <<n, l>>
    <3> DEFINE t == <<n, l>>
    <3>1. t \in Seq(SoundRequests)
      BY <2>1
    <3>2. Texts(t, C) = K(n) \o K(l)
      BY <2>1, TextsTwo, BodyTypes
    <3> HIDE DEF t
    <3>3. Texts(f \o t, C) = Texts(f, C) \o Texts(t, C)
      <4>1. f \in Seq(SoundRequests) /\ Bodied(SoundRequests)
        BY <2>1, BodyTypes
      <4> QED BY <3>1, <4>1, TextsConcat
    <3> HIDE DEF K
    <3>4. K(n) = <<>> \/ K(l) = <<>>
      BY <1>1, <1>2, <2>1, <2>3, <2>6
    <3>5. K(n) \o K(l) = K(l) \o K(n)
          /\ (Texts(f, C) \o K(l)) \o K(n) = Texts(f, C) \o (K(l) \o K(n))
      <4>1. K(n) \in Seq(Items) /\ K(l) \in Seq(Items)
        BY <1>1, <2>1
      <4>2. K(n) \o K(l) = K(l) \o K(n)
        BY <3>4, <4>1, Joining
      <4>3. (Texts(f, C) \o K(l)) \o K(n) = Texts(f, C) \o (K(l) \o K(n))
        BY <2>4, <4>1, Joining
      <4> QED BY <4>2, <4>3, Zenon
    <3> QED BY <2>4, <2>6, <3>2, <3>3, <3>5, Zenon DEF t, K
  <2>7. CASE WithFollowUp(s, n) = Append(s, n)
    BY <2>7, TextsAppend, BodyTypes, Zenon
  <2> QED BY <2>2, <2>5, <2>6, <2>7
<1> QED BY <1>3, <1>4

\* Pending steers go before what is queued or behind it.
LEMMA WithSteersQueuedTexts ==
  ASSUME NEW C, NEW s \in Seq(SoundRequests), NEW t \in Seq(SoundRequests)
  PROVE  Texts(WithSteersQueued(s, t), C) \in
           {Texts(s, C) \o Texts(t, C), Texts(t, C) \o Texts(s, C)}
<1>1. \/ s = <<>> /\ WithSteersQueued(s, t) = t
      \/ WithSteersQueued(s, t) = s \o t
      \/ WithSteersQueued(s, t) = t \o s
  BY DEF WithSteersQueued
<1>2. Texts(s \o t, C) = Texts(s, C) \o Texts(t, C) /\ Texts(t \o s, C) = Texts(t, C) \o Texts(s, C)
  <2>1. Bodied(SoundRequests)
    BY BodyTypes
  <2>2. Texts(s \o t, C) = Texts(s, C) \o Texts(t, C)
    BY <2>1, TextsConcat
  <2>3. Texts(t \o s, C) = Texts(t, C) \o Texts(s, C)
    BY <2>1, TextsConcat
  <2> QED BY <2>2, <2>3, Zenon
<1>3. CASE s = <<>> /\ WithSteersQueued(s, t) = t
  <2>1. Texts(s, C) = <<>> /\ Texts(t, C) \in Seq(Items)
    BY <1>3, TextsEmpty, TextsType, BodyTypes, Zenon
  <2>2. Texts(t, C) \o <<>> = Texts(t, C)
    BY <2>1, Joining
  <2> QED BY <1>3, <2>1, <2>2
<1> QED BY <1>1, <1>2, <1>3

\* The rows of requests say what the requests say.
LEMMA ChainedTexts ==
  ASSUME NEW C, NEW s, NEW parent
  PROVE  Texts(Chained(s, parent), C) = Texts(s, C)
<1> DEFINE c == Chained(s, parent)
<1>1. DOMAIN c = DOMAIN s /\ \A i \in DOMAIN s : c[i].body = s[i].body
  BY DEF Chained
<1> HIDE DEF c
<1>2. Parts(c, C) = Parts(s, C)
  BY <1>1 DEF Parts
<1>3. Texts(c, C) = Texts(s, C)
  BY <1>2, TextsAre, Zenon
<1> QED BY <1>3 DEF c

\* Requests without a body can go.
LEMMA DroppingEmpty ==
  ASSUME NEW X, Bodied(X), NEW s \in Seq(X), NEW N, \A q \in X : q \notin N => q.body = <<>>, NEW C
  PROVE  Texts(Kept(s, N), C) = Texts(s, C)
<1> DEFINE P == {t \in Seq(X) : Texts(Kept(t, N), C) = Texts(t, C)}
<1>1. <<>> \in P
  <2>1. <<>> \in Seq(X)
    OBVIOUS
  <2>2. Texts(Kept(<<>>, N), C) = Texts(<<>>, C)
    BY KeptEmpty, Zenon
  <2> QED BY <2>1, <2>2
<1>2. ASSUME NEW t \in Seq(X), NEW q \in X, t \in P PROVE Append(t, q) \in P
  <2> DEFINE u == Append(t, q)
             k == Kept(t, N)
  <2>1. u \in Seq(X)
    OBVIOUS
  <2>2. k \in Seq(X) /\ Texts(k, C) = Texts(t, C)
    BY <1>2, KeptType
  <2>3. /\ q \in N => Kept(u, N) = Append(k, q)
        /\ q \notin N => Kept(u, N) = k
    BY KeptAppend
  <2>4. Texts(u, C) = Texts(t, C) \o Kept(q.body, C)
    BY TextsAppend
  <2> HIDE DEF u, k
  <2>5. Texts(Append(k, q), C) = Texts(k, C) \o Kept(q.body, C)
    BY <2>2, TextsAppend
  <2>6. Texts(Kept(u, N), C) = Texts(u, C)
    <3>1. CASE q \in N
      BY <2>2, <2>3, <2>4, <2>5, <3>1, Zenon
    <3>2. CASE q \notin N
      <4>1. Kept(q.body, C) = <<>>
        BY <3>2, KeptEmpty
      <4>2. Texts(t, C) \in Seq(Items)
        BY TextsType
      <4>3. Texts(t, C) \o <<>> = Texts(t, C)
        BY <4>2, Joining
      <4> QED BY <2>2, <2>3, <2>4, <3>2, <4>1, <4>3, Zenon
    <3> QED BY <3>1, <3>2
  <2> QED BY <2>1, <2>6 DEF u
<1>3. Seq(X) \subseteq P
  <2> HIDE DEF P
  <2> QED BY <1>1, <1>2, SequenceInduction
<1> QED BY <1>3

\* Taking the continuation line out changes no text.
LEMMA WithoutContinuationTexts ==
  ASSUME NEW C, C \subseteq Msgs, NEW s \in Seq(Requests)
  PROVE  Texts(WithoutContinuation(s), C) = Texts(s, C)
<1> DEFINE t == [i \in DOMAIN s |-> [s[i] EXCEPT !.body = Kept(@, Msgs)]]
           X == ToSet(t)
           N == {input \in X : input.body # <<>>}
<1>1. t \in Seq(Requests) /\ WithoutContinuation(s) = Kept(t, N)
  BY TrimmedType DEF WithoutContinuation
<1>2. \A i \in DOMAIN s : s[i] \in Requests
  OBVIOUS
<1>3. DOMAIN t = DOMAIN s /\ \A i \in DOMAIN s : t[i].body = Kept(s[i].body, Msgs)
  BY <1>2 DEF Requests
<1>4. \A i \in DOMAIN s : Kept(t[i].body, C) = Kept(s[i].body, C)
  <2> SUFFICES ASSUME NEW i \in DOMAIN s PROVE Kept(t[i].body, C) = Kept(s[i].body, C)
    OBVIOUS
  <2>1. s[i].body \in Seq(Items)
    BY <1>2 DEF Requests
  <2> DEFINE b == s[i].body
  <2> HIDE DEF b
  <2>2. Kept(Kept(b, Msgs), C) = Kept(b, C)
    <3>1. b \in Seq(Items)
      BY <2>1 DEF b
    <3> QED BY <3>1, KeptTwice
  <2> QED BY <1>3, <2>2, Zenon DEF b
<1> HIDE DEF t
<1>5. Texts(t, C) = Texts(s, C)
  <2>1. Parts(t, C) = Parts(s, C)
    BY <1>3, <1>4 DEF Parts
  <2> QED BY <2>1, TextsAre, Zenon
<1>6. t \in Seq(X) /\ Bodied(X)
  <2>1. \A i \in DOMAIN t : t[i] \in Requests
    BY <1>1
  <2>2. Bodied(X)
    BY <2>1, BodyTypes DEF ToSet, Bodied
  <2>3. Len(t) \in Nat /\ t \in [1 .. Len(t) -> Requests] /\ DOMAIN t = 1 .. Len(t)
    BY <1>1
  <2>4. \A i \in 1 .. Len(t) : t[i] \in X
    BY <2>3 DEF ToSet
  <2> HIDE DEF X
  <2>5. t \in Seq(X)
    BY <2>3, <2>4
  <2> QED BY <2>2, <2>5
<1>7. \A q \in X : q \notin N => q.body = <<>>
  OBVIOUS
<1> HIDE DEF X, N
<1>8. Texts(Kept(t, N), C) = Texts(t, C)
  BY <1>6, <1>7, DroppingEmpty
<1> QED BY <1>1, <1>5, <1>8, Zenon

\* Without messages of the class there is no text.
LEMMA TextsNone ==
  ASSUME NEW C, C \subseteq Msgs, NEW X, Bodied(X), NEW s \in Seq(X), MessagesOf(s) \cap C = {}
  PROVE  Texts(s, C) = <<>>
<1>1. Texts(s, C) \in Seq(Items)
  BY TextsType
<1>2. ToSet(Texts(s, C)) = {}
  BY TextsElements
<1> DEFINE t == Texts(s, C)
<1> HIDE DEF t
<1>3. t \in Seq(Items) /\ DOMAIN t = {}
  BY <1>1, <1>2 DEF ToSet, t
<1>4. t = <<>>
  BY <1>3
<1> QED BY <1>4 DEF t

\* The text of a message alone
LEMMA NewTexts ==
  ASSUME NEW C, NEW m \in Items
  PROVE  /\ m \in C => Kept(NewRequest(m).body, C) = <<m>>
         /\ m \notin C => Kept(NewRequest(m).body, C) = <<>>
<1>1. NewRequest(m).body = <<m>>
  BY NewSound
<1>2. Kept(<<m>>, C) = IF m \in C THEN <<m>> ELSE <<>>
  BY KeptOne
<1> QED BY <1>1, <1>2, Zenon


--------------------------------------------------------------------------------
(*****************************************************************************)
(* The steps of the inbox.                                                   *)
(*****************************************************************************)
\* The inbox of a class, and of what the user can take back
Inbox(C, R) == INSTANCE MessageInbox WITH
  Msgs <- C, Boxes <- Runs \cup {Queue}, Fragile <- Runs, Retractable <- R,
  box <- BoxesOf(C), said <- Texts(rows, C), gone <- Gone(C)

\* A class for the inbox: the user can take its messages back if it is visible.
InboxClass(C, h, R) == Class(C, h) /\ (h = FALSE => C \subseteq R)

\* A step of the inbox or none
Moves(C, R) == Inbox(C, R)!Next \/ UNCHANGED <<BoxesOf(C), Texts(rows, C), Gone(C)>>

\* A message that was not sent is in no box.
LEMMA Unknown ==
  ASSUME QueueInv, NEW C, NEW h, Class(C, h), NEW R, NEW m \in C, send[m] \in {"new", "preparing"}
  PROVE  m \notin Inbox(C, R)!Known
<1>1. /\ draft \in Seq(SoundRequests) /\ \A r \in Runs : steers[r] \in Seq(SoundRequests)
      /\ rows \in Seq(Rows) /\ C \subseteq Msgs
      /\ Bodied(SoundRequests) /\ Bodied(Rows)
  BY PairsAreSound, BodyTypes DEF QueueInv, TypeInv, BoxInv, RowInv, Ordered, Class
<1>2. m \notin ToSet(Texts(rows, C)) /\ m \notin ToSet(Texts(draft, C))
  <2>1. ToSet(Texts(rows, C)) = MessagesOf(rows) \cap C
    BY <1>1, TextsElements
  <2>2. ToSet(Texts(draft, C)) = MessagesOf(draft) \cap C
    BY <1>1, TextsElements
  <2> QED BY <2>1, <2>2 DEF QueueInv, WaitInv
<1>3. \A r \in Runs : m \notin ToSet(Texts(steers[r], C))
  <2> SUFFICES ASSUME NEW r \in Runs PROVE m \notin ToSet(Texts(steers[r], C))
    OBVIOUS
  <2>1. ToSet(Texts(steers[r], C)) = MessagesOf(steers[r]) \cap C
    BY <1>1, TextsElements
  <2> QED BY <2>1 DEF QueueInv, WaitInv
<1>4. \A b \in Runs \cup {Queue} : m \notin ToSet(BoxesOf(C)[b])
  BY <1>2, <1>3 DEF BoxesOf
<1>5. m \notin Gone(C)
  BY DEF Gone
<1> QED BY <1>2, <1>4, <1>5 DEF Inbox!Known, Inbox!Waiting, Inbox!Elements, ToSet

\* Sending a message neither withdraws nor loses one.
LEMMA SentStays ==
  ASSUME QueueInv, NEW m \in Msgs, send[m] \in {"new", "preparing"}, NEW C, C \subseteq Msgs,
         NEW status \in {"preparing", "accepted"}, send' = [send EXCEPT ![m] = status]
  PROVE  Gone(C)' = Gone(C)
<1>1. send \in [Msgs -> {"new", "preparing", "accepted", "withdrawn", "lost"}]
  BY DEF QueueInv, TypeInv, ControlInv
<1> QED BY <1>1 DEF Gone

\* What is saved is said.
LEMMA SavedTexts ==
  ASSUME QueueInv, NEW C, NEW s \in Seq(Requests), NEW parent \in 0 .. Len(rows),
         SaveRequests(s, parent)
  PROVE  Texts(rows, C)' = Texts(rows, C) \o Texts(s, C)
<1>1. rows \in Seq(Rows) /\ Bodied(Rows) /\ parent \in Nat
  BY BodyTypes, RowFacts DEF QueueInv, TypeInv, RowInv, Ordered
<1>2. Chained(s, parent) \in Seq(Rows)
  BY <1>1, ChainedType
<1> DEFINE c == Chained(s, parent)
<1>3. Texts(c, C) = Texts(s, C)
  BY ChainedTexts
<1>4. rows' = rows \o c
  BY DEF SaveRequests
<1> HIDE DEF c
<1>5. Texts(rows \o c, C) = Texts(rows, C) \o Texts(c, C)
  <2>1. c \in Seq(Rows)
    BY <1>2 DEF c
  <2> QED BY <1>1, <2>1, TextsConcat
<1> QED BY <1>3, <1>4, <1>5, Zenon

\* Replies say nothing.
LEMMA ReplyTexts ==
  ASSUME QueueInv, NEW C, NEW r \in Runs, NEW kind \in {"completed", "stopped", "failed"},
         SaveReply(r, kind)
  PROVE  Texts(rows, C)' = Texts(rows, C)
<1>1. rows \in Seq(Rows) /\ Bodied(Rows) /\ Len(rows) \in Nat
  BY BodyTypes, RowFacts DEF QueueInv, TypeInv, RowInv, Ordered
<1> DEFINE q == Reply(r, kind)
<1>2. q \in Rows /\ q.body = <<>>
  <2>1. <<>> \in Seq(Items) /\ request[r] \in Nat
    BY <1>1 DEF QueueInv, TypeInv, RowInv
  <2> QED BY <2>1 DEF Reply, Rows
<1>3. rows' = Append(rows, q)
  BY DEF SaveReply
<1> HIDE DEF q
<1>4. Texts(Append(rows, q), C) = Texts(rows, C) \o Kept(q.body, C)
  BY <1>1, <1>2, TextsAppend
<1>5. Kept(q.body, C) = <<>>
  BY <1>2, KeptEmpty
<1>6. Texts(rows, C) \o <<>> = Texts(rows, C)
  <2>1. Texts(rows, C) \in Seq(Items)
    BY <1>1, TextsType
  <2> QED BY <2>1, Joining
<1> QED BY <1>3, <1>4, <1>5, <1>6, Zenon

--------------------------------------------------------------------------------
\* Sending a message says it or puts it into a box.
LEMMA AcceptMoves ==
  ASSUME QueueInv, NEW C, NEW h, NEW R, InboxClass(C, h, R),
         NEW m \in Msgs, send[m] \in {"new", "preparing"},
         NEW parent \in 0 .. Len(rows), Accept(m, parent)
  PROVE  Moves(C, R)
<1> DEFINE n == NewRequest(m)
           k == Kept(n.body, C)
           one == <<n>>
<1>1. Class(C, h) /\ C \subseteq Msgs /\ m \in Items
  BY DEF InboxClass, Class, Items
<1>2. n \in SoundRequests /\ (m \in C => k = <<m>>) /\ (m \notin C => k = <<>>)
  BY <1>1, NewSound, NewTexts
<1>3. Gone(C)' = Gone(C)
  BY <1>1, SentStays DEF Accept
<1>4. m \in C => m \notin Inbox(C, R)!Known
  BY <1>1, Unknown
<1>5. /\ owner \in Runs \cup {NoRun} /\ steers \in [Runs -> Pairs] /\ draft \in Seq(SoundRequests)
      /\ rows \in Seq(Rows)
  BY DEF QueueInv, TypeInv, ControlInv, BoxInv, RowInv, Ordered
<1>6. \A x \in Seq(Items) : x \o <<>> = x /\ x \o <<m>> = Append(x, m)
  OBVIOUS
<1>7. /\ Texts(rows, C) \in Seq(Items) /\ Texts(draft, C) \in Seq(Items)
      /\ owner \in Runs => Texts(steers[owner], C) \in Seq(Items)
  BY <1>5, TextsType, BodyTypes, PairsAreSound
<1> HIDE DEF n, k
<1>8. CASE StartFreshRun(m, parent)
  <2>1. BoxesOf(C)' = BoxesOf(C)
    BY <1>8 DEF StartFreshRun, BoxesOf
  <2>2. one \in Seq(Requests)
    <3>1. one \in Seq(SoundRequests)
      BY <1>2
    <3> QED BY <3>1, SoundAreRequests
  <2>3. SaveRequests(one, parent)
    BY <1>8 DEF StartFreshRun, n
  <2>4. Texts(one, C) = k
    <3>1. n.body \in Seq(Items)
      BY <1>2, BodyTypes DEF Bodied
    <3> QED BY <3>1, TextsOne DEF k
  <2> HIDE DEF one
  <2>5. Texts(rows, C)' = Texts(rows, C) \o k
    BY <2>2, <2>3, <2>4, SavedTexts
  <2>6. CASE m \in C
    <3>1. Texts(rows, C)' = Append(Texts(rows, C), m)
      BY <1>2, <1>6, <1>7, <2>5, <2>6
    <3> QED BY <1>3, <1>4, <2>1, <2>6, <3>1 DEF Moves, Inbox!Next, Inbox!Say
  <2>7. CASE m \notin C
    <3>1. Texts(rows, C)' = Texts(rows, C)
      BY <1>2, <1>6, <1>7, <2>5, <2>7
    <3> QED BY <1>3, <2>1, <3>1 DEF Moves
  <2> QED BY <2>6, <2>7
<1>9. ASSUME NEW b \in Runs \cup {Queue}, UNCHANGED rows,
             BoxesOf(C)' = [BoxesOf(C) EXCEPT ![b] = BoxesOf(C)[b] \o k],
             BoxesOf(C)[b] \in Seq(Items)
      PROVE  Moves(C, R)
  <2>1. Texts(rows, C)' = Texts(rows, C)
    BY <1>9
  <2>2. CASE m \in C
    <3>1. BoxesOf(C)' = [BoxesOf(C) EXCEPT ![b] = Append(BoxesOf(C)[b], m)]
      BY <1>2, <1>6, <1>9, <2>2
    <3> QED BY <1>3, <1>4, <1>9, <2>1, <2>2, <3>1 DEF Moves, Inbox!Next, Inbox!Put
  <2>3. CASE m \notin C
    <3>1. BoxesOf(C)[b] \o k = BoxesOf(C)[b]
      BY <1>2, <1>6, <1>9, <2>3
    <3>2. BoxesOf(C)' = BoxesOf(C)
      BY <1>9, <3>1 DEF BoxesOf
    <3> QED BY <1>3, <2>1, <3>2 DEF Moves
  <2> QED BY <2>2, <2>3
<1>10. CASE AddSteer(m) /\ owner \in Runs
  <2>1. Texts(WithSteer(steers[owner], n), C) = Texts(steers[owner], C) \o k
    BY <1>1, <1>2, <1>5, <1>10, WithSteerTexts DEF k
  <2>2. steers' = [steers EXCEPT ![owner] = WithSteer(steers[owner], n)] /\ UNCHANGED <<rows, draft>>
    BY <1>10 DEF AddSteer, n
  <2>3. /\ BoxesOf(C)' = [BoxesOf(C) EXCEPT ![owner] = BoxesOf(C)[owner] \o k]
        /\ BoxesOf(C)[owner] \in Seq(Items)
    BY <1>5, <1>7, <1>10, <2>1, <2>2, NamesAssumption DEF BoxesOf
  <2> QED BY <1>9, <1>10, <2>2, <2>3
<1>11. CASE QueueFollowUp(m)
  <2>1. Texts(WithFollowUp(draft, n), C) = Texts(draft, C) \o k
    BY <1>1, <1>2, <1>5, WithFollowUpTexts DEF k
  <2>2. draft' = WithFollowUp(draft, n) /\ UNCHANGED <<rows, steers>>
    BY <1>11 DEF QueueFollowUp, n
  <2>3. /\ BoxesOf(C)' = [BoxesOf(C) EXCEPT ![Queue] = BoxesOf(C)[Queue] \o k]
        /\ BoxesOf(C)[Queue] \in Seq(Items)
    BY <1>5, <1>7, <2>1, <2>2, NamesAssumption DEF BoxesOf
  <2> QED BY <1>9, <2>2, <2>3
<1> QED BY <1>5, <1>8, <1>10, <1>11 DEF Accept, SendToActiveRun

\* The steers withdrawn are the visible ones, and all of them.
LEMMA WithdrawMoves ==
  ASSUME QueueInv, NEW C, NEW h, NEW R, InboxClass(C, h, R), WithdrawPendingSteer
  PROVE  Moves(C, R)
<1> DEFINE s == steers[owner]
           hid == OfVisibility(s, TRUE)
           vis == OfVisibility(s, FALSE)
<1>1. owner \in Runs /\ steers \in [Runs -> Pairs] /\ s \in Pairs
  BY DEF WithdrawPendingSteer, QueueInv, TypeInv, ControlInv, BoxInv
<1>2. /\ hid \in Seq(SoundRequests) /\ vis \in Seq(SoundRequests) /\ hid \o vis = s
      /\ MessagesOf(hid) \subseteq Hidden /\ MessagesOf(vis) \cap Hidden = {}
      /\ MessagesOf(vis) \subseteq Msgs
      /\ Bodied(SoundRequests)
  BY <1>1, PairSplits, PairApart, PairsAreSound, BodyTypes, MessagesAreMsgs
<1>3. /\ steers' = [steers EXCEPT ![owner] = hid] /\ UNCHANGED <<rows, draft>>
      /\ send' = [m \in Msgs |-> IF m \in MessagesOf(vis) THEN "withdrawn" ELSE send[m]]
  BY DEF WithdrawPendingSteer, End
<1>4. C \subseteq Msgs /\ h \in BOOLEAN /\ \A m \in C : m \in Hidden <=> h
  BY DEF InboxClass, Class
<1>5. Texts(rows, C)' = Texts(rows, C)
  BY <1>3
<1>6. Gone(C)' = Gone(C) \cup (MessagesOf(vis) \cap C)
  BY <1>3, <1>4 DEF Gone
<1> HIDE DEF hid, vis
<1>7. Texts(s, C) = Texts(hid, C) \o Texts(vis, C)
  <2>1. Texts(hid \o vis, C) = Texts(hid, C) \o Texts(vis, C)
    <3>1. hid \in Seq(SoundRequests) /\ vis \in Seq(SoundRequests) /\ Bodied(SoundRequests)
      BY <1>2
    <3> QED BY <3>1, TextsConcat
  <2> QED BY <1>2, <2>1, Zenon
<1>8. Texts(hid, C) \in Seq(Items) /\ Texts(vis, C) \in Seq(Items)
  BY <1>2, TextsType
<1>9. CASE h
  <2>1. MessagesOf(vis) \cap C = {}
    BY <1>2, <1>4, <1>9
  <2>2. Texts(vis, C) = <<>>
    BY <1>2, <1>4, <2>1, TextsNone
  <2>3. Texts(hid, C) \o <<>> = Texts(hid, C)
    BY <1>8, Joining
  <2>4. Texts(hid, C) = Texts(s, C)
    BY <1>7, <2>2, <2>3, Zenon
  <2>5. BoxesOf(C)' = BoxesOf(C)
    BY <1>1, <1>3, <2>4, NamesAssumption DEF BoxesOf
  <2>6. Gone(C)' = Gone(C)
    BY <1>6, <2>1
  <2> QED BY <1>5, <2>5, <2>6 DEF Moves
<1>10. CASE ~h
  <2>1. MessagesOf(hid) \cap C = {}
    BY <1>2, <1>4, <1>10
  <2>2. Texts(hid, C) = <<>>
    BY <1>2, <1>4, <2>1, TextsNone
  <2>3. <<>> \o Texts(vis, C) = Texts(vis, C)
    BY <1>8, Joining
  <2>4. Texts(vis, C) = Texts(s, C)
    BY <1>7, <2>2, <2>3, Zenon
  <2>5. ToSet(Texts(s, C)) = MessagesOf(vis) \cap C
    BY <1>2, <1>4, <2>4, TextsElements
  <2> DEFINE x == BoxesOf(C)[owner]
  <2>6. x = Texts(s, C)
    BY <1>1, NamesAssumption DEF BoxesOf
  <2>7. BoxesOf(C)' = [BoxesOf(C) EXCEPT ![owner] = <<>>]
    BY <1>1, <1>3, <2>2, NamesAssumption DEF BoxesOf
  <2>8. x \in Seq(Items)
    BY <1>8, <2>4, <2>6
  <2> HIDE DEF x
  <2>9. /\ 0 \in 0 .. Len(x) /\ SubSeq(x, 1, 0) = <<>> /\ SubSeq(x, 0 + 1, Len(x)) = x
    BY <2>8
  <2>10. Inbox(C, R)!Elements(SubSeq(x, 0 + 1, Len(x))) = MessagesOf(vis) \cap C
    BY <2>5, <2>6, <2>9 DEF Inbox!Elements, ToSet
  <2>11. C \subseteq R
    BY <1>4, <1>10 DEF InboxClass
  <2>12. Inbox(C, R)!TakeBack(owner)
    <3>1. /\ 0 \in 0 .. Len(BoxesOf(C)[owner])
          /\ LET back == Inbox(C, R)!Elements(SubSeq(BoxesOf(C)[owner], 0 + 1, Len(BoxesOf(C)[owner]))) IN
             /\ back \subseteq R
             /\ BoxesOf(C)' = [BoxesOf(C) EXCEPT ![owner] = SubSeq(@, 1, 0)]
             /\ Gone(C)' = Gone(C) \cup back
      BY <1>6, <2>7, <2>9, <2>10, <2>11 DEF x
    <3> QED BY <1>5, <3>1, Zenon DEF Inbox!TakeBack
  <2> QED BY <1>1, <2>12 DEF Moves, Inbox!Next
<1> QED BY <1>9, <1>10

\* What a deletion takes back is what was merged last.
LEMMA DeleteMoves ==
  ASSUME QueueInv, NEW C, NEW h, NEW R, InboxClass(C, h, R), DeleteQueuedFollowUp
  PROVE  Moves(C, R)
<1> DEFINE f == Front(draft)
           l == Last(draft)
           k == Kept(l.body, C)
<1>1. UNCHANGED <<rows, steers>> /\ draft \in Seq(SoundRequests)
  BY DEF DeleteQueuedFollowUp, QueueInv, TypeInv, BoxInv
<1>2. Texts(rows, C)' = Texts(rows, C)
  BY <1>1
<1>3. C \subseteq Msgs /\ h \in BOOLEAN /\ \A m \in C : m \in Hidden <=> h
  BY DEF InboxClass, Class
<1>4. CASE UNCHANGED <<draft, send>>
  BY <1>1, <1>2, <1>4 DEF Moves, BoxesOf, Gone
<1>5. CASE ~UNCHANGED <<draft, send>>
  <2>1. /\ draft # <<>> /\ draft' = f /\ click # <<>> /\ l.id = click[1].id
        /\ send' = [m \in Msgs |-> IF m \in MessagesOf(draft) \ MessagesOf(f) THEN "withdrawn" ELSE send[m]]
    BY <1>5 DEF DeleteQueuedFollowUp, AfterDelete, End
  <2>2. /\ f \in Seq(SoundRequests) /\ l \in SoundRequests /\ draft = Append(f, l)
    BY <1>1, <2>1, FrontLast
  <2>3. /\ MessagesOf(draft) = MessagesOf(f) \cup (ToSet(l.body) \cap Msgs)
        /\ MessagesOf(f) \cap ToSet(l.body) = {}
        /\ MessagesOf(f) \subseteq Msgs
    BY <1>1, <2>1, LastApart, MessagesAreMsgs DEF QueueInv, WaitInv
  <2>4. ~l.hidden /\ l.hidden \in BOOLEAN
    <3>1. l.id \notin Hidden
      BY <2>1 DEF QueueInv, ClickInv
    <3>2. l.id \in ToSet(l.body) /\ l.hidden \in BOOLEAN
      BY <2>2 DEF SoundRequests, Requests
    <3> QED BY <2>2, <3>1, <3>2, MessageIsSound
  <2>5. /\ Texts(f, C) \in Seq(Items) /\ k \in Seq(Items)
        /\ h => k = <<>>
        /\ ToSet(k) = ToSet(l.body) \cap C
    <3>1. Texts(f, C) \in Seq(Items)
      BY <2>2, TextsType, BodyTypes
    <3>2. k \in Seq(Items) /\ (h => k = <<>>)
      BY <2>2, <2>4, OtherSide DEF InboxClass
    <3>3. l.body \in Seq(Items)
      BY <2>2, BodyTypes DEF Bodied
    <3>4. ToSet(k) = ToSet(l.body) \cap C
      BY <3>3, KeptElements
    <3> QED BY <3>1, <3>2, <3>4
  <2>6. Texts(draft, C) = Texts(f, C) \o k
    BY <2>2, TextsAppend, BodyTypes, Zenon
  <2>7. Gone(C)' = Gone(C) \cup ToSet(k)
    BY <1>3, <2>1, <2>3, <2>5 DEF Gone
  <2> HIDE DEF f, k
  <2>8. BoxesOf(C)' = [BoxesOf(C) EXCEPT ![Queue] = Texts(f, C)]
    BY <1>1, <2>1, NamesAssumption DEF BoxesOf
  <2> DEFINE x == BoxesOf(C)[Queue]
  <2>9. x = Texts(f, C) \o k
    BY <2>6 DEF BoxesOf
  <2>10. CASE h
    <3>1. x = Texts(f, C)
      BY <2>5, <2>9, <1>3, <2>10, Joining
    <3>2. BoxesOf(C)' = BoxesOf(C)
      BY <2>8, <3>1 DEF BoxesOf
    <3>3. Gone(C)' = Gone(C)
      BY <2>5, <2>7, <2>10, ToSetEmpty
    <3> QED BY <1>2, <3>2, <3>3 DEF Moves
  <2>11. CASE ~h
    <3> DEFINE n == Len(Texts(f, C))
    <3> HIDE DEF x
    <3>1. n \in 0 .. Len(x) /\ SubSeq(x, 1, n) = Texts(f, C) /\ ToSet(SubSeq(x, n + 1, Len(x))) = ToSet(k)
      <4>1. /\ n \in 0 .. Len(Texts(f, C) \o k)
            /\ SubSeq(Texts(f, C) \o k, 1, n) = Texts(f, C)
            /\ ToSet(SubSeq(Texts(f, C) \o k, n + 1, Len(Texts(f, C) \o k))) = ToSet(k)
        BY <2>5, CutJoined
      <4> QED BY <2>9, <4>1, Zenon
    <3> HIDE DEF n
    <3>2. ToSet(k) \subseteq R
      BY <2>5, <2>11, <1>3 DEF InboxClass
    <3>3. Inbox(C, R)!Elements(SubSeq(x, n + 1, Len(x))) = ToSet(k)
      BY <3>1 DEF Inbox!Elements, ToSet
    <3>4. Inbox(C, R)!TakeBack(Queue)
      <4>1. /\ n \in 0 .. Len(BoxesOf(C)[Queue])
            /\ LET back == Inbox(C, R)!Elements(SubSeq(BoxesOf(C)[Queue], n + 1, Len(BoxesOf(C)[Queue]))) IN
               /\ back \subseteq R
               /\ BoxesOf(C)' = [BoxesOf(C) EXCEPT ![Queue] = SubSeq(@, 1, n)]
               /\ Gone(C)' = Gone(C) \cup back
        BY <2>7, <2>8, <3>1, <3>2, <3>3 DEF x
      <4> QED BY <1>2, <4>1, Zenon DEF Inbox!TakeBack
    <3> QED BY <3>4 DEF Moves, Inbox!Next
  <2> QED BY <2>10, <2>11
<1> QED BY <1>4, <1>5

\* A step that moves no message and saves no request
LEMMA QuietMoves ==
  ASSUME NEW C, NEW R, UNCHANGED <<steers, draft, send>>, Texts(rows, C)' = Texts(rows, C)
  PROVE  Moves(C, R)
  BY DEF Moves, BoxesOf, Gone

\* The steers of a run are saved, all of them or all but the continuation line.
LEMMA PersistMoves ==
  ASSUME QueueInv, NEW C, NEW R, NEW r \in Runs, NEW s \in Seq(Requests),
         Texts(s, C) = Texts(steers[r], C), PersistSteers(r, s), UNCHANGED <<draft, send>>
  PROVE  Moves(C, R)
<1>1. steers \in [Runs -> Pairs] /\ request[r] \in 0 .. Len(rows)
  BY DEF QueueInv, TypeInv, BoxInv, RowInv
<1>2. Texts(rows, C)' = Texts(rows, C) \o BoxesOf(C)[r]
  <2>1. Texts(rows, C)' = Texts(rows, C) \o Texts(s, C)
    BY <1>1, SavedTexts DEF PersistSteers
  <2>2. BoxesOf(C)[r] = Texts(s, C)
    BY NamesAssumption DEF BoxesOf
  <2> QED BY <2>1, <2>2
<1>3. BoxesOf(C)' = [c \in Runs \cup {Queue} |-> IF c \in {} \cup {r} THEN <<>> ELSE BoxesOf(C)[c]]
  BY <1>1, TextsEmpty, NamesAssumption DEF PersistSteers, BoxesOf
<1>4. Gone(C)' = Gone(C) \cup UNION {Inbox(C, R)!Elements(BoxesOf(C)[c]) : c \in {}}
  BY DEF Gone
<1>5. {} \in SUBSET (Runs \ {r})
  OBVIOUS
<1>6. Inbox(C, R)!SayBox(r)
  BY <1>2, <1>3, <1>4, <1>5, Zenon DEF Inbox!SayBox
<1> QED BY <1>6 DEF Moves, Inbox!Next

\* The steers of a run go, and there was nothing of the class in them.
LEMMA CancelMoves ==
  ASSUME QueueInv, NEW C, NEW R, NEW r \in Runs, Texts(steers[r], C) = <<>>,
         CancelSteerPending(r), UNCHANGED <<draft, send>>
  PROVE  Moves(C, R)
<1>1. steers \in [Runs -> Pairs]
  BY DEF QueueInv, TypeInv, BoxInv
<1>2. BoxesOf(C)' = BoxesOf(C)
  BY <1>1, TextsEmpty, NamesAssumption DEF CancelSteerPending, BoxesOf
<1> QED BY <1>2 DEF CancelSteerPending, Moves, Gone

\* The loop after a leg that left steers says them, or looks on.
LEMMA SteerLegMoves ==
  ASSUME QueueInv, NEW C, NEW h, NEW R, InboxClass(C, h, R),
         NEW r \in Runs, HandleSteerPending(r) \/ HandoffAnswers(r)
  PROVE  Moves(C, R)
<1> DEFINE left == WithoutContinuation(steers[r])
<1>1. steers[r] \in Seq(Requests) /\ left \in Seq(Requests)
  BY PairsAreSound, SoundAreRequests, WithoutContinuationType DEF QueueInv, TypeInv, BoxInv
<1>2. Texts(left, C) = Texts(steers[r], C)
  BY <1>1, WithoutContinuationTexts DEF InboxClass, Class
<1>3. Texts(<<>>, C) = <<>>
  BY TextsEmpty
<1> HIDE DEF left
<1>4. CASE HandleSteerPending(r)
  <2>1. UNCHANGED <<draft, send>>
    BY <1>4 DEF HandleSteerPending
  <2>2. CASE PersistSteers(r, steers[r])
    BY <1>1, <2>1, <2>2, PersistMoves
  <2>3. CASE CancelSteerPending(r) /\ steers[r] = <<>>
    BY <1>3, <2>1, <2>3, CancelMoves
  <2>4. CASE UNCHANGED <<rows, steers>>
    BY <2>1, <2>4, QuietMoves
  <2> QED BY <1>4, <2>2, <2>3, <2>4 DEF HandleSteerPending
<1>5. CASE HandoffAnswers(r)
  <2>1. UNCHANGED <<draft, send>>
    BY <1>5 DEF HandoffAnswers
  <2>2. CASE CancelSteerPending(r) /\ (steers[r] = <<>> \/ left = <<>>)
    <3>1. Texts(steers[r], C) = <<>>
      BY <1>2, <1>3, <2>2
    <3> QED BY <2>1, <2>2, <3>1, CancelMoves
  <2>3. CASE PersistSteers(r, steers[r])
    BY <1>1, <2>1, <2>3, PersistMoves
  <2>4. CASE PersistSteers(r, left)
    BY <1>1, <1>2, <2>1, <2>4, PersistMoves
  <2> QED BY <1>5, <2>2, <2>3, <2>4 DEF HandoffAnswers, left
<1> QED BY <1>4, <1>5

\* Steers that are queued are poured into the draft's box.
LEMMA ReturnMoves ==
  ASSUME QueueInv, NEW C, NEW R, NEW r \in Runs, LegReturns(r)
  PROVE  Moves(C, R)
<1> DEFINE w == WithSteersQueued(draft, steers[r])
<1>1. /\ UNCHANGED <<rows, send>>
      /\ UNCHANGED <<draft, steers>> \/ (draft' = w /\ steers' = [steers EXCEPT ![r] = <<>>])
  BY DEF LegReturns
<1>2. CASE UNCHANGED <<draft, steers>>
  BY <1>1, <1>2, QuietMoves
<1>3. CASE draft' = w /\ steers' = [steers EXCEPT ![r] = <<>>]
  <2>1. steers \in [Runs -> Pairs] /\ draft \in Seq(SoundRequests) /\ steers[r] \in Seq(SoundRequests)
    BY PairsAreSound DEF QueueInv, TypeInv, BoxInv
  <2>2. Texts(w, C) \in {Texts(steers[r], C) \o Texts(draft, C), Texts(draft, C) \o Texts(steers[r], C)}
    BY <2>1, WithSteersQueuedTexts
  <2> HIDE DEF w
  <2>3. BoxesOf(C)[r] = Texts(steers[r], C) /\ BoxesOf(C)[Queue] = Texts(draft, C) /\ r # Queue
    BY NamesAssumption DEF BoxesOf
  <2>4. BoxesOf(C)' = [BoxesOf(C) EXCEPT ![r] = <<>>, ![Queue] = Texts(w, C)]
    BY <1>3, <2>1, TextsEmpty, NamesAssumption DEF BoxesOf
  <2>5. Texts(rows, C)' = Texts(rows, C) /\ Gone(C)' = Gone(C)
    BY <1>1 DEF Gone
  <2>6. Inbox(C, R)!Pour(r, Queue)
    BY <2>2, <2>3, <2>4, <2>5 DEF Inbox!Pour
  <2> QED BY <2>6 DEF Moves, Inbox!Next
<1> QED BY <1>1, <1>2, <1>3

\* The draft is said, or stays; what the run had not looked at is lost.
LEMMA EndMoves ==
  ASSUME QueueInv, NEW C, NEW h, NEW R, InboxClass(C, h, R), NEW r \in Runs, LoopEnds(r)
  PROVE  Moves(C, R)
<1> DEFINE x == BoxesOf(C)[r]
<1>1. /\ send' = [m \in Msgs |-> IF m \in MessagesOf(steers[r]) THEN "lost" ELSE send[m]]
      /\ steers' = [steers EXCEPT ![r] = <<>>]
  BY DEF LoopEnds, End
<1>2. /\ steers \in [Runs -> Pairs] /\ steers[r] \in Seq(SoundRequests)
      /\ draft \in Seq(SoundRequests) /\ Bodied(SoundRequests)
      /\ head \in 0 .. Len(rows) /\ C \subseteq Msgs
  BY PairsAreSound, BodyTypes DEF QueueInv, TypeInv, BoxInv, RowInv, InboxClass, Class
<1>3. x = Texts(steers[r], C) /\ r # Queue
  BY NamesAssumption DEF BoxesOf
<1>4. Gone(C)' = Gone(C) \cup Inbox(C, R)!Elements(x)
  <2>1. ToSet(x) = MessagesOf(steers[r]) \cap C
    BY <1>2, <1>3, TextsElements
  <2> HIDE DEF x
  <2>2. Inbox(C, R)!Elements(x) = MessagesOf(steers[r]) \cap C
    BY <2>1 DEF Inbox!Elements, ToSet
  <2> QED BY <1>1, <1>2, <2>2 DEF Gone
<1>5. CASE UNCHANGED <<rows, draft>>
  <2>1. BoxesOf(C)' = [BoxesOf(C) EXCEPT ![r] = <<>>]
    BY <1>1, <1>2, <1>5, TextsEmpty, NamesAssumption DEF BoxesOf
  <2>2. Texts(rows, C)' = Texts(rows, C)
    BY <1>5
  <2>3. Inbox(C, R)!Lose(r)
    BY <1>4, <2>1, <2>2 DEF Inbox!Lose
  <2> QED BY <2>3 DEF Moves, Inbox!Next
<1>6. CASE SaveRequests(draft, head) /\ draft' = <<>>
  <2>1. draft \in Seq(Requests)
    BY <1>2, SoundAreRequests
  <2>2. Texts(rows, C)' = Texts(rows, C) \o BoxesOf(C)[Queue]
    <3>1. Texts(rows, C)' = Texts(rows, C) \o Texts(draft, C)
      BY <1>2, <1>6, <2>1, SavedTexts
    <3>2. BoxesOf(C)[Queue] = Texts(draft, C)
      BY DEF BoxesOf
    <3> QED BY <3>1, <3>2
  <2>3. BoxesOf(C)' = [c \in Runs \cup {Queue} |-> IF c \in {r} \cup {Queue} THEN <<>> ELSE BoxesOf(C)[c]]
    BY <1>1, <1>2, <1>6, TextsEmpty, NamesAssumption DEF BoxesOf
  <2>4. UNION {Inbox(C, R)!Elements(BoxesOf(C)[c]) : c \in {r}} = Inbox(C, R)!Elements(x)
    <3> HIDE DEF Inbox!Elements
    <3> QED OBVIOUS
  <2>5. {r} \in SUBSET (Runs \ {Queue})
    BY <1>3
  <2>6. Gone(C)' = Gone(C) \cup UNION {Inbox(C, R)!Elements(BoxesOf(C)[c]) : c \in {r}}
    BY <1>4, <2>4
  <2>7. Inbox(C, R)!SayBox(Queue)
    BY <2>2, <2>3, <2>5, <2>6, Zenon DEF Inbox!SayBox
  <2> QED BY <2>7 DEF Moves, Inbox!Next
<1> QED BY <1>5, <1>6 DEF LoopEnds

\* The steps of a loop
LEMMA LoopMoves ==
  ASSUME QueueInv, NEW C, NEW h, NEW R, InboxClass(C, h, R), NEW r \in Runs, LoopStep(r)
  PROVE  Moves(C, R)
<1>1. CASE RequestContextHandoff(r)
  <2> DEFINE n == NewRequest(Continuation)
             w == WithSteer(steers[r], n)
  <2>1. /\ steers' = [steers EXCEPT ![r] = w] /\ UNCHANGED <<rows, draft, send>>
        /\ steers \in [Runs -> Pairs]
    BY <1>1 DEF RequestContextHandoff, QueueInv, TypeInv, BoxInv
  <2>2. n \in SoundRequests /\ Kept(n.body, C) = <<>> /\ Class(C, h)
    BY NewSound, NewTexts, NamesAssumption DEF Items, InboxClass, Class
  <2>3. Texts(w, C) = Texts(steers[r], C) \o Kept(n.body, C)
    BY <2>1, <2>2, WithSteerTexts
  <2>4. Texts(steers[r], C) \in Seq(Items)
    BY <2>1, PairsAreSound, TextsType, BodyTypes
  <2>5. Texts(w, C) = Texts(steers[r], C)
    <3>1. Texts(steers[r], C) \o <<>> = Texts(steers[r], C)
      BY <2>4, Joining
    <3> QED BY <2>2, <2>3, <3>1, Zenon
  <2> HIDE DEF w
  <2>6. BoxesOf(C)' = BoxesOf(C)
    BY <2>1, <2>5, NamesAssumption DEF BoxesOf
  <2> QED BY <2>1, <2>6 DEF Moves, Gone
<1>2. CASE LegCompletes(r) \/ LegCompletesWithSteers(r) \/ LegFails(r) \/ ObserveAbort(r)
  <2>1. UNCHANGED <<steers, draft, send>>
    BY <1>2 DEF LegCompletes, LegCompletesWithSteers, LegFails, ObserveAbort
  <2>2. Texts(rows, C)' = Texts(rows, C)
    BY <1>2, ReplyTexts DEF LegCompletes, LegCompletesWithSteers, LegFails, ObserveAbort
  <2> QED BY <2>1, <2>2, QuietMoves
<1>3. CASE BackoffAborted(r)
  <2>1. UNCHANGED <<steers, draft, send>>
    BY <1>3 DEF BackoffAborted
  <2>2. Texts(rows, C)' = Texts(rows, C)
    BY <1>3, ReplyTexts DEF BackoffAborted
  <2> QED BY <2>1, <2>2, QuietMoves
<1>4. CASE LegRetries(r) \/ NextLeg(r) \/ Release(r)
  BY <1>4, QuietMoves DEF LegRetries, NextLeg, Release
<1> QED BY <1>1, <1>2, <1>3, <1>4, SteerLegMoves, ReturnMoves, EndMoves DEF LoopStep

\* Every step of the thread is a step of the inbox or none.
LEMMA MovesStep ==
  ASSUME QueueInv, NEW C, NEW h, NEW R, InboxClass(C, h, R), [Next]_vars
  PROVE  Moves(C, R)
<1>1. ASSUME NEW m \in Msgs, SendChat(m) \/ SendPrepared(m) PROVE Moves(C, R)
  <2>1. head \in 0 .. Len(rows) /\ seen[m] \in 0 .. Len(rows)
    BY DEF QueueInv, TypeInv, RowInv
  <2> QED BY <1>1, <2>1, AcceptMoves DEF SendChat, SendPrepared
<1>2. ASSUME NEW m \in Msgs, SendChatWithFiles(m) PROVE Moves(C, R)
  <2>1. Gone(C)' = Gone(C)
    BY <1>2, SentStays DEF SendChatWithFiles, InboxClass, Class
  <2> QED BY <1>2, <2>1 DEF SendChatWithFiles, Moves, BoxesOf
<1>3. CASE CancelRun \/ ClickDelete \/ RetryMessage \/ SelectReplyBranch \/ UNCHANGED vars
  <2>1. UNCHANGED <<rows, steers, draft, send>>
    BY <1>3 DEF CancelRun, ClickDelete, RetryMessage, SelectReplyBranch, vars
  <2>2. Texts(rows, C)' = Texts(rows, C)
    BY <2>1
  <2> QED BY <2>1, <2>2, QuietMoves
<1> QED BY <1>1, <1>2, <1>3, WithdrawMoves, DeleteMoves, LoopMoves DEF Next

\* The inbox is empty initially.
LEMMA InboxInit ==
  ASSUME Init, NEW C, NEW R, C \subseteq Msgs
  PROVE  Inbox(C, R)!Init
<1>1. Texts(rows, C) = <<>>
  BY TextsEmpty DEF Init
<1>2. BoxesOf(C) = [b \in Runs \cup {Queue} |-> <<>>]
  BY TextsEmpty DEF Init, BoxesOf
<1>3. Gone(C) = {}
  BY DEF Init, Gone
<1> QED BY <1>1, <1>2, <1>3 DEF Inbox!Init

--------------------------------------------------------------------------------
(*****************************************************************************)
(* The two inboxes.                                                          *)
(*****************************************************************************)
\* The visible messages are a class.
LEMMA VisibleClass == InboxClass(Visible, FALSE, Visible) /\ Visible \subseteq Msgs
  BY NamesAssumption, SubsetAssumption DEF InboxClass, Class, Visible, Hidden

\* So are the hidden ones.
LEMMA HiddenClass == InboxClass(HiddenMsgs, TRUE, {}) /\ HiddenMsgs \subseteq Msgs
  BY SubsetAssumption DEF InboxClass, Class, Hidden

\* Every step is one of the inbox of the user's messages, or none.
LEMMA VisibleStep ==
  QueueInv /\ [Next]_vars => [VisibleInbox!Next]_<<BoxesOf(Visible), Texts(rows, Visible), Gone(Visible)>>
<1> SUFFICES ASSUME QueueInv, [Next]_vars
             PROVE  [VisibleInbox!Next]_<<BoxesOf(Visible), Texts(rows, Visible), Gone(Visible)>>
  OBVIOUS
<1>1. Moves(Visible, Visible)
  BY VisibleClass, MovesStep
<1>2. Inbox(Visible, Visible)!Next => VisibleInbox!Next
  BY Zenon DEF VisibleInbox!Next, VisibleInbox!Say, Inbox!Next, Inbox!Say, VisibleInbox!Put, Inbox!Put,
   VisibleInbox!SayBox, Inbox!SayBox, VisibleInbox!TakeBack, Inbox!TakeBack, VisibleInbox!Lose, Inbox!Lose, VisibleInbox!Pour, Inbox!Pour,
   VisibleInbox!Known, Inbox!Known, VisibleInbox!Waiting, Inbox!Waiting, VisibleInbox!Elements, Inbox!Elements
<1> QED BY <1>1, <1>2 DEF Moves

\* Initially that inbox is empty.
LEMMA VisibleInit == Init => VisibleInbox!Init
<1>1. ASSUME Init PROVE Inbox(Visible, Visible)!Init
  BY <1>1, VisibleClass, InboxInit
<1> QED BY <1>1 DEF Inbox!Init, VisibleInbox!Init

\* What the user sends is said in the order it was sent, each message once,
\* through all merging, queueing, promotion and chaining: the thread implements
\* an inbox from which only the user takes messages back.
THEOREM VisibleRefinement == Spec => VisibleIsInbox
<1> QED BY VisibleInit, VisibleStep, QueueInvariant, PTL
        DEF Spec, VisibleIsInbox, VisibleInbox!Spec, VisibleInbox!inboxVars

\* Every step is one of the inbox of the system's messages, or none.
LEMMA HiddenStep ==
  QueueInv /\ [Next]_vars => [HiddenInbox!Next]_<<BoxesOf(HiddenMsgs), Texts(rows, HiddenMsgs), Gone(HiddenMsgs)>>
<1> SUFFICES ASSUME QueueInv, [Next]_vars
             PROVE  [HiddenInbox!Next]_<<BoxesOf(HiddenMsgs), Texts(rows, HiddenMsgs), Gone(HiddenMsgs)>>
  OBVIOUS
<1>1. Moves(HiddenMsgs, {})
  BY HiddenClass, MovesStep
<1>2. Inbox(HiddenMsgs, {})!Next => HiddenInbox!Next
  BY Zenon DEF HiddenInbox!Next, HiddenInbox!Say, Inbox!Next, Inbox!Say, HiddenInbox!Put, Inbox!Put,
   HiddenInbox!SayBox, Inbox!SayBox, HiddenInbox!TakeBack, Inbox!TakeBack, HiddenInbox!Lose, Inbox!Lose, HiddenInbox!Pour, Inbox!Pour,
   HiddenInbox!Known, Inbox!Known, HiddenInbox!Waiting, Inbox!Waiting, HiddenInbox!Elements, Inbox!Elements
<1> QED BY <1>1, <1>2 DEF Moves

\* Initially that inbox is empty.
LEMMA HiddenInit == Init => HiddenInbox!Init
<1>1. ASSUME Init PROVE Inbox(HiddenMsgs, {})!Init
  BY <1>1, HiddenClass, InboxInit
<1> QED BY <1>1 DEF Inbox!Init, HiddenInbox!Init

\* What the system sends likewise: it implements an inbox nobody takes messages
\* back from, so the user's deletions never take a hidden message along.
THEOREM HiddenRefinement == Spec => HiddenIsInbox
<1> QED BY HiddenInit, HiddenStep, QueueInvariant, PTL
        DEF Spec, HiddenIsInbox, HiddenInbox!Spec, HiddenInbox!inboxVars
================================================================================
