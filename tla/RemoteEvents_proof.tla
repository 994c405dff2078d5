-------------------------- MODULE RemoteEvents_proof --------------------------
(***************************************************************************)
(* Proofs about the event hub, its state file and the phone, for any number*)
(* of threads, any limits of the ring and of the journal and any bounds:   *)
(* types and limits, that the phone's cursor stays behind the head of its  *)
(* epoch, and that every push is above the cursor it meets.                *)
(*                                                                         *)
(* The hub's functions are folded over queues, so what they preserve is    *)
(* stated as a set of hubs they do not leave (Reach).                      *)
(***************************************************************************)
EXTENDS RemoteEvents, SequenceLemmas, FiniteSetTheorems

--------------------------------------------------------------------------------
(* The inductive invariant.                                                  *)

\* The fields of the hub, the phone, the link and the file have their types.
Hubs ==
  [up : BOOLEAN, epoch : Nat, seq : Nat, ring : Seq(Entries), ringFloor : Nat,
   journal : [Threads -> JournalEntries], journalFloor : Nat, pending : Seq(Threads),
   inFlight : SUBSET Threads, asked : Seq(Requests), last : [Threads -> Values],
   held : [Threads -> Nat], visible : [Threads -> {"unknown", "yes", "no"}],
   outgoing : Seq(Entries), slipped : SUBSET Threads]
Cursors == [epoch : Nat, seq : Nat]
Fetched == [value : Values, here : BOOLEAN]
Replies == [epoch : Nat, seq : Nat, resumed : BOOLEAN]
Links ==
  [mode : {"none", "idle", "resuming", "replaying", "live"}, through : Nat,
   queued : Seq(Entries), pushes : Seq(Entries), reply : Seq(Replies), ahead : BOOLEAN,
   from : Cursors, fetched : [Threads -> Fetched]]
Phones == [cursor : Cursors, list : [Threads -> Values], stale : BOOLEAN]
Files ==
  [clean : BOOLEAN, epoch : Nat, seq : Nat, journal : [Threads -> JournalEntries],
   journalFloor : Nat]

\* Numbers go up along s
Rising(s) == \A i, j \in 1 .. Len(s) : i < j => s[i].seq < s[j].seq

\* The numbers of s are above low and not above high
Between(s, low, high) == \A i \in 1 .. Len(s) : low < s[i].seq /\ s[i].seq <= high

\* The threads the journal knows
Recorded(journal) == {t \in Threads : journal[t] # NoEntry}

\* No entry of the journal is above seq, and no two have one number.
JournalNumbers(journal, seq) ==
  /\ \A t \in Threads : journal[t].seq <= seq /\ (journal[t] # NoEntry => journal[t].seq # 0)
  /\ \A t, u \in Recorded(journal) : journal[t].seq = journal[u].seq => t = u

\* The journal has at most JournalLimit threads, each with its own number.
JournalSound(journal, seq) ==
  /\ IsFiniteSet(Recorded(journal)) /\ Cardinality(Recorded(journal)) <= JournalLimit
  /\ JournalNumbers(journal, seq)

\* The ring holds at most BufferLimit events, with rising numbers above its floor
\* and up to the head.
RingSound(ring, floor, seq) ==
  /\ Len(ring) <= BufferLimit
  /\ floor <= seq
  /\ Rising(ring) /\ Between(ring, floor, seq)

\* The ring has no event of a deferral.
Apart(journal, ring) ==
  \A t \in Threads, i \in 1 .. Len(ring) :
    journal[t].kind = "deferred" => ring[i].seq # journal[t].seq

\* What a hub can tell a phone is in order; the events it is about to tell are too.
HubSound(h) ==
  /\ h \in Hubs
  /\ JournalSound(h.journal, h.seq) /\ h.journalFloor <= h.seq
  /\ RingSound(h.ring, h.ringFloor, h.seq)
  /\ Apart(h.journal, h.ring)
  /\ Rising(h.outgoing)
  /\ IsFiniteSet(h.inFlight)

\* What the hub's functions make of a hub at number s of epoch e that holds no
\* more than b removals of a thread
Reach(s, e, b) ==
  {h \in Hubs : /\ HubSound(h) /\ h.up /\ h.epoch = e /\ s <= h.seq
                /\ Between(h.outgoing, s, h.seq)
                /\ \A t \in Threads : h.held[t] <= b}

--------------------------------------------------------------------------------
(* The journal.                                                              *)

\* The least element of a set of naturals
LEMMA LeastNatural ==
  ASSUME NEW S \in SUBSET Nat, S # {}
  PROVE  \E x \in S : \A y \in S : x <= y
<1>1. IsWellFoundedOn(OpToRel(<, Nat), Nat)
  BY NatLessThanWellFounded
<1>2. PICK x \in S : \A y \in S : ~ (<<y, x>> \in OpToRel(<, Nat))
  BY <1>1, WFMin
<1>3. \A y \in S : ~ (y < x)
  BY <1>2 DEF OpToRel
<1> QED BY <1>3

\* A journal that knows a thread has an entry that was updated first.
LEMMA OldestIsRecorded ==
  ASSUME NEW j \in [Threads -> JournalEntries], Recorded(j) # {}
  PROVE  Oldest(j) \in Recorded(j) /\ \A u \in Recorded(j) : j[Oldest(j)].seq <= j[u].seq
<1> DEFINE S == {j[t].seq : t \in Recorded(j)}
<1>1. S \in SUBSET Nat /\ S # {}
  BY DEF Recorded, JournalEntries, Seqs
<1>2. PICK x \in S : \A y \in S : x <= y
  BY <1>1, LeastNatural
<1>3. \E t \in Threads :
        /\ j[t] # NoEntry
        /\ \A u \in Threads : j[u] # NoEntry => j[t].seq <= j[u].seq
  BY <1>2 DEF Recorded
<1> QED BY <1>3 DEF Oldest, Recorded

\* k is j with the entry e of thread t, the latest: it is too long by one at most,
\* and its numbers are in order.
JournalWith(k, j, t, e) ==
  /\ k \in [Threads -> JournalEntries] /\ k[t] = e
  /\ \A u \in Threads \ {t} : k[u] = j[u]
  /\ IsFiniteSet(Recorded(k)) /\ Cardinality(Recorded(k)) <= JournalLimit + 1
  /\ JournalNumbers(k, e.seq)

\* The effect of a new entry on a journal
LEMMA JournalGrows ==
  ASSUME NEW j \in [Threads -> JournalEntries], NEW n \in Nat, NEW m \in Nat, n < m,
         JournalSound(j, n), NEW t \in Threads, NEW kind \in {"summary", "deferred", "removed"},
         NEW k, k = [j EXCEPT ![t] = [seq |-> m, kind |-> kind]]
  PROVE  JournalWith(k, j, t, [seq |-> m, kind |-> kind])
<1>1. /\ k \in [Threads -> JournalEntries] /\ k[t] = [seq |-> m, kind |-> kind]
      /\ \A u \in Threads \ {t} : k[u] = j[u]
  BY DEF JournalEntries, Seqs
<1>2. k[t] # NoEntry /\ k[t].seq = m /\ m # 0
  BY <1>1 DEF NoEntry
<1>3. Recorded(k) = Recorded(j) \cup {t}
  BY <1>1, <1>2 DEF Recorded
<1>4. IsFiniteSet(Recorded(k)) /\ Cardinality(Recorded(k)) <= JournalLimit + 1
  <2>1. IsFiniteSet(Recorded(j)) /\ Cardinality(Recorded(j)) <= JournalLimit /\ JournalLimit \in Nat
    BY LimitsAssumption DEF JournalSound
  <2>2. /\ IsFiniteSet(Recorded(j) \cup {t})
        /\ Cardinality(Recorded(j) \cup {t}) =
             IF t \in Recorded(j) THEN Cardinality(Recorded(j)) ELSE Cardinality(Recorded(j)) + 1
    BY <2>1, FS_AddElement
  <2>3. Cardinality(Recorded(j)) \in Nat
    BY <2>1, FS_CardinalityType
  <2> DEFINE c == Cardinality(Recorded(j))
             d == Cardinality(Recorded(k))
  <2>4. d = c \/ d = c + 1
    BY <1>3, <2>2, Zenon
  <2>5. c \in Nat /\ c <= JournalLimit
    BY <2>1, <2>3
  <2> HIDE DEF c, d
  <2>6. d <= JournalLimit + 1
    BY <2>1, <2>4, <2>5
  <2>7. IsFiniteSet(Recorded(k))
    BY <1>3, <2>2, Zenon
  <2> QED BY <2>6, <2>7 DEF d
<1>5. \A u \in Threads : j[u].seq \in Nat /\ j[u].seq <= n
  BY DEF JournalSound, JournalNumbers, JournalEntries, Seqs
<1>6. \A u \in Threads : k[u].seq <= m /\ (k[u] # NoEntry => k[u].seq # 0)
  BY <1>1, <1>2, <1>5 DEF JournalSound, JournalNumbers
<1>7. ASSUME NEW u \in Recorded(k), NEW w \in Recorded(k), k[u].seq = k[w].seq PROVE u = w
  <2>1. \A x \in Recorded(k) : x = t \/ (x # t /\ x \in Recorded(j) /\ k[x] = j[x] /\ k[x].seq <= n)
    BY <1>1, <1>3, <1>5 DEF Recorded
  <2>2. u # t /\ w # t => u = w
    BY <1>7, <2>1 DEF JournalSound, JournalNumbers
  <2>3. u = t <=> w = t
    BY <1>2, <1>5, <1>7, <2>1 DEF Recorded
  <2> QED BY <2>2, <2>3
<1>8. JournalNumbers(k, m)
  BY <1>6, <1>7 DEF JournalNumbers
<1> QED BY <1>1, <1>4, <1>8 DEF JournalWith

\* An entry less leaves the numbers in order.
LEMMA JournalShrinks ==
  ASSUME NEW k \in [Threads -> JournalEntries], NEW m \in Nat, NEW o \in Recorded(k),
         IsFiniteSet(Recorded(k)), Cardinality(Recorded(k)) <= JournalLimit + 1,
         JournalNumbers(k, m), NEW l, l = [k EXCEPT ![o] = NoEntry]
  PROVE  l \in [Threads -> JournalEntries] /\ JournalSound(l, m)
<1>1. /\ o \in Threads /\ l \in [Threads -> JournalEntries] /\ l[o] = NoEntry
      /\ \A u \in Threads \ {o} : l[u] = k[u]
  BY DEF JournalEntries, Seqs, NoEntry, Recorded
<1>2. Recorded(l) = Recorded(k) \ {o}
  BY <1>1 DEF Recorded
<1>3. IsFiniteSet(Recorded(l)) /\ Cardinality(Recorded(l)) <= JournalLimit
  <2>1. /\ IsFiniteSet(Recorded(k) \ {o})
        /\ Cardinality(Recorded(k) \ {o}) = Cardinality(Recorded(k)) - 1
        /\ Cardinality(Recorded(k)) \in Nat
    BY FS_RemoveElement, FS_CardinalityType
  <2> DEFINE c == Cardinality(Recorded(k))
             d == Cardinality(Recorded(l))
  <2>2. d = c - 1 /\ c \in Nat /\ c <= JournalLimit + 1
    BY <1>2, <2>1, Zenon
  <2> HIDE DEF c, d
  <2>3. d <= JournalLimit
    BY <2>2, LimitsAssumption
  <2>4. IsFiniteSet(Recorded(l))
    BY <1>2, <2>1, Zenon
  <2> QED BY <2>3, <2>4 DEF d
<1>4. NoEntry.seq = 0
  BY DEF NoEntry
<1>5. JournalNumbers(l, m)
  BY <1>1, <1>2, <1>4 DEF JournalNumbers, Recorded
<1> QED BY <1>1, <1>3, <1>5 DEF JournalSound

--------------------------------------------------------------------------------
(* The hub's functions.                                                      *)

\* The journal k is j with some entries gone or replaced by e.
JournalFrom(k, j, e) == \A u \in Threads : k[u] \in {j[u], NoEntry, e}

\* The elements of r are of q.
Within(r, q) == \A i \in 1 .. Len(r) : \E j \in 1 .. Len(q) : r[i] = q[j]

\* What updateJournal leaves alone
JournalOnly(g, h) ==
  /\ g.up = h.up /\ g.epoch = h.epoch /\ g.seq = h.seq
  /\ g.ring = h.ring /\ g.ringFloor = h.ringFloor
  /\ g.pending = h.pending /\ g.inFlight = h.inFlight /\ g.asked = h.asked
  /\ g.last = h.last /\ g.held = h.held /\ g.visible = h.visible /\ g.outgoing = h.outgoing

\* g is h with the new entry j of thread t in the journal: another entry leaves its
\* number to the floor, and slips if it was a deferral the ring is not past.
Takes(g, h, t, j) ==
  /\ g.journal[t] = j /\ h.journalFloor <= g.journalFloor
  /\ \A u \in Threads \ {t} :
       \/ g.journal[u] = h.journal[u]
       \/ /\ g.journal[u] = NoEntry /\ h.journal[u].seq <= g.journalFloor
          /\ h.journal[u].kind = "deferred" => h.journal[u].seq <= g.ringFloor \/ u \in g.slipped
  /\ h.slipped \ {t} \subseteq g.slipped

\* So it is with the next number, and with the events E of thread t in the ring and
\* to be told.
Moves(g, h, t, j, E) ==
  /\ Takes(g, h, t, j)
  /\ g.seq = h.seq + 1 /\ g.epoch = h.epoch
  /\ h.ringFloor <= g.ringFloor /\ g.ringFloor <= h.seq
  /\ ToSet(g.ring) = {e \in ToSet(h.ring) \cup E : e.seq > g.ringFloor}
  /\ ToSet(g.outgoing) = ToSet(h.outgoing) \cup E
  /\ g.pending = h.pending /\ g.inFlight = h.inFlight /\ g.asked = h.asked
  /\ g.held = h.held /\ g.visible = h.visible
  /\ \A u \in Threads \ {t} : g.last[u] = h.last[u]

\* Slip changes the history alone.
LEMMA SlipEffect ==
  ASSUME NEW h \in Hubs, NEW T \in SUBSET Threads
  PROVE  /\ Slip(h, T) \in Hubs /\ JournalOnly(Slip(h, T), h)
         /\ Slip(h, T).journal = h.journal /\ Slip(h, T).journalFloor = h.journalFloor
         /\ Slip(h, T).slipped = h.slipped \cup T
BY DEF Slip, Hubs, JournalOnly

\* updateJournal: one entry more and, at the limit, one of another thread less; the
\* journal stays sound, and nothing else changes.
LEMMA RecordEffect ==
  ASSUME NEW h \in Hubs, NEW n \in Nat, n < h.seq,
         JournalSound(h.journal, n), h.journalFloor <= h.seq,
         NEW t \in Threads, NEW kind \in {"summary", "deferred", "removed"},
         NEW g, g = Record(h, t, kind)
  PROVE  /\ g \in Hubs /\ JournalOnly(g, h)
         /\ JournalSound(g.journal, g.seq) /\ g.journalFloor <= g.seq
         /\ JournalFrom(g.journal, h.journal, [seq |-> h.seq, kind |-> kind])
         /\ Takes(g, h, t, [seq |-> h.seq, kind |-> kind]) /\ h.slipped \subseteq g.slipped
<1> DEFINE k == [h.journal EXCEPT ![t] = [seq |-> h.seq, kind |-> kind]]
           r == [h EXCEPT !.journal = k]
<1>1. h.journal \in [Threads -> JournalEntries] /\ h.seq \in Nat /\ h.journalFloor \in Nat
  BY DEF Hubs
<1>2. /\ k \in [Threads -> JournalEntries] /\ k[t] = [seq |-> h.seq, kind |-> kind]
      /\ \A u \in Threads \ {t} : k[u] = h.journal[u]
      /\ IsFiniteSet(Recorded(k)) /\ Cardinality(Recorded(k)) <= JournalLimit + 1
      /\ JournalNumbers(k, h.seq)
  <2>1. k = [h.journal EXCEPT ![t] = [seq |-> h.seq, kind |-> kind]]
    OBVIOUS
  <2> DEFINE j == h.journal
             m == h.seq
  <2>2. JournalSound(j, n) /\ j \in [Threads -> JournalEntries] /\ m \in Nat /\ n < m
        /\ k = [j EXCEPT ![t] = [seq |-> m, kind |-> kind]]
    BY <1>1, <2>1
  <2> HIDE DEF k, j, m
  <2>3. JournalWith(k, j, t, [seq |-> m, kind |-> kind])
    BY <2>2, JournalGrows
  <2> QED BY <2>3 DEF JournalWith, j, m
<1>3. g = Evict(r)
  <2>1. [h EXCEPT !.journal[t] = [seq |-> h.seq, kind |-> kind]] = r
    BY DEF Hubs
  <2> QED BY <2>1, Zenon DEF Record
<1> HIDE DEF k
<1>4. r \in Hubs /\ JournalOnly(r, h) /\ r.journal = k /\ r.journalFloor = h.journalFloor
      /\ r.slipped = h.slipped
  BY <1>2 DEF Hubs, JournalOnly
<1> HIDE DEF r
<1>5. CASE Cardinality(Recorded(k)) <= JournalLimit
  <2>1. g = r
    BY <1>3, <1>4, <1>5 DEF Evict, Recorded
  <2>2. JournalSound(k, h.seq)
    BY <1>2, <1>5 DEF JournalSound
  <2>3. Takes(r, h, t, [seq |-> h.seq, kind |-> kind])
    BY <1>1, <1>2, <1>4 DEF Takes
  <2> QED BY <1>2, <1>4, <2>1, <2>2, <2>3 DEF JournalOnly, JournalFrom
<1>6. CASE ~ (Cardinality(Recorded(k)) <= JournalLimit)
  <2> DEFINE o == Oldest(k)
             l == [k EXCEPT ![o] = NoEntry]
             slips == IF k[o].kind = "deferred" /\ k[o].seq > r.ringFloor THEN {o} ELSE {}
             floor == IF r.journalFloor < k[o].seq THEN k[o].seq ELSE r.journalFloor
             e == [r EXCEPT !.journal = l, !.journalFloor = floor]
  <2>1. Recorded(k) # {}
    <3>1. Cardinality(Recorded(k)) = 0 /\ JournalLimit \in Nat => FALSE
      BY <1>6
    <3>2. Recorded(k) = {} => Cardinality(Recorded(k)) = 0
      BY FS_EmptySet, Zenon
    <3> QED BY <3>1, <3>2, LimitsAssumption
  <2>2. o \in Recorded(k) /\ o \in Threads /\ slips \in SUBSET Threads
    BY <1>2, <2>1, OldestIsRecorded DEF Recorded
  <2>9. o # t
    <3> SUFFICES ASSUME o = t PROVE FALSE
      OBVIOUS
    <3>1. \A u \in Recorded(k) : k[t].seq <= k[u].seq
      BY <1>2, <2>1, OldestIsRecorded
    <3>2. ASSUME NEW u \in Recorded(k), u # t PROVE FALSE
      <4>1. u \in Threads /\ k[u] = h.journal[u] /\ k[t].seq = h.seq
        BY <1>2, <3>2 DEF Recorded
      <4>2. k[u].seq \in Nat /\ k[u].seq <= n
        BY <1>1, <4>1 DEF JournalSound, JournalNumbers, JournalEntries, Seqs
      <4> HIDE DEF o
      <4> QED BY <1>1, <3>1, <3>2, <4>1, <4>2
    <3>3. Recorded(k) = {t}
      BY <2>1, <3>2, Zenon
    <3>4. Cardinality({t}) = 1
      BY FS_Singleton
    <3> QED BY <1>6, <3>3, <3>4, LimitsAssumption
  <2>3. g = Slip(e, slips)
    <3>1. g = Slip([r EXCEPT !.journal[o] = NoEntry, !.journalFloor = floor], slips)
      BY <1>3, <1>4, <1>6 DEF Evict, Recorded
    <3>2. [r EXCEPT !.journal[o] = NoEntry, !.journalFloor = floor] = e
      BY <1>4 DEF Hubs
    <3> QED BY <3>1, <3>2, Zenon
  <2> HIDE DEF slips
  <2>4. l \in [Threads -> JournalEntries] /\ JournalSound(l, h.seq)
    <3> HIDE DEF o
    <3> QED BY <1>1, <1>2, <2>2, JournalShrinks
  <2>5. floor \in Nat /\ floor <= h.seq
    <3>1. k[o].seq \in Nat /\ k[o].seq <= h.seq
      BY <1>2, <2>2 DEF JournalNumbers, JournalEntries, Seqs
    <3> QED BY <1>1, <1>4, <3>1
  <2>6. /\ \A u \in Threads : l[u] = k[u] \/ l[u] = NoEntry
        /\ l[t] = k[t] /\ l[o] = NoEntry /\ \A u \in Threads \ {o} : l[u] = k[u]
    BY <1>2, <2>2, <2>9
  <2>10. /\ r.journalFloor <= floor /\ k[o].seq <= floor /\ k[o] = h.journal[o]
         /\ k[o].kind = "deferred" => k[o].seq <= r.ringFloor \/ o \in slips
    <3>1. k[o].seq \in Nat /\ r.journalFloor \in Nat /\ r.ringFloor \in Nat
      BY <1>2, <1>4, <2>2 DEF JournalEntries, Seqs, Hubs
    <3>2. k[o] = h.journal[o]
      BY <1>2, <2>2, <2>9
    <3> HIDE DEF o
    <3> QED BY <3>1, <3>2 DEF slips
  <2> HIDE DEF l, floor
  <2>7. e \in Hubs /\ JournalOnly(e, r) /\ e.journal = l /\ e.journalFloor = floor
        /\ e.slipped = r.slipped
    BY <1>4, <2>4, <2>5 DEF Hubs, JournalOnly
  <2> HIDE DEF e
  <2>8. /\ g \in Hubs /\ JournalOnly(g, e)
        /\ g.journal = l /\ g.journalFloor = floor /\ g.slipped = r.slipped \cup slips
    BY <2>2, <2>3, <2>7, SlipEffect
  <2> HIDE DEF o
  <2>11. Takes(g, h, t, [seq |-> h.seq, kind |-> kind])
    <3>1. g.ringFloor = r.ringFloor /\ r.journalFloor = h.journalFloor /\ r.slipped = h.slipped
      BY <1>4, <2>7, <2>8 DEF JournalOnly
    <3> QED BY <1>2, <2>2, <2>6, <2>8, <2>10, <3>1 DEF Takes
  <2> QED BY <1>2, <1>4, <2>4, <2>5, <2>6, <2>7, <2>8, <2>11 DEF JournalOnly, JournalFrom
<1> QED BY <1>5, <1>6

\* Events in a sequence have numbers.
LEMMA EntryNumbers ==
  ASSUME NEW q \in Seq(Entries)
  PROVE  \A i \in 1 .. Len(q) : q[i] \in Entries /\ q[i].seq \in Nat
<1>1. \A i \in 1 .. Len(q) : q[i] \in Entries
  OBVIOUS
<1>2. \A x \in Entries : x.seq \in Nat
  BY DEF Entries, Seqs
<1> QED BY <1>1, <1>2

\* A sequence with rising numbers goes on with a higher one.
LEMMA RisingAppend ==
  ASSUME NEW q \in Seq(Entries), NEW low \in Nat, NEW n \in Nat, Rising(q), Between(q, low, n),
         NEW m \in Nat, n < m, low <= n, NEW e \in Entries, e.seq = m
  PROVE  /\ Append(q, e) \in Seq(Entries) /\ Len(Append(q, e)) = Len(q) + 1
         /\ Rising(Append(q, e)) /\ Between(Append(q, e), low, m)
         /\ \A i \in 1 .. Len(Append(q, e)) :
              Append(q, e)[i] = IF i <= Len(q) THEN q[i] ELSE e
<1> DEFINE r == Append(q, e)
<1>1. /\ r \in Seq(Entries) /\ Len(r) = Len(q) + 1 /\ Len(q) \in Nat
      /\ \A i \in 1 .. Len(r) : r[i] = IF i <= Len(q) THEN q[i] ELSE e
  OBVIOUS
<1> HIDE DEF r
<1>2. \A i \in 1 .. Len(q) : q[i].seq \in Nat /\ low < q[i].seq /\ q[i].seq <= n
  <2>1. \A i \in 1 .. Len(q) : q[i] \in Entries
    OBVIOUS
  <2>2. \A x \in Entries : x.seq \in Nat
    BY DEF Entries, Seqs
  <2> QED BY <2>1, <2>2 DEF Between
<1>3. Between(r, low, m)
  BY <1>1, <1>2 DEF Between
<1>4. Rising(r)
  <2> SUFFICES ASSUME NEW i \in 1 .. Len(r), NEW j \in 1 .. Len(r), i < j
               PROVE  r[i].seq < r[j].seq
    BY DEF Rising
  <2>1. i \in 1 .. Len(q) /\ r[i] = q[i]
    BY <1>1
  <2>2. CASE j \in 1 .. Len(q)
    BY <1>1, <2>1, <2>2 DEF Rising
  <2>3. CASE j \notin 1 .. Len(q)
    <3>1. r[j] = e
      BY <1>1, <2>3
    <3> QED BY <1>2, <2>1, <3>1
  <2> QED BY <2>2, <2>3
<1> QED BY <1>1, <1>3, <1>4 DEF r

\* What is left of it when it is cut
LEMMA RingTrims ==
  ASSUME NEW q \in Seq(Entries), NEW low \in Nat, NEW n \in Nat, Rising(q), Between(q, low, n),
         Len(q) > BufferLimit, NEW drop, drop = Len(q) - BufferLimit,
         NEW r, r = SubSeq(q, drop + 1, Len(q))
  PROVE  /\ r \in Seq(Entries) /\ q[drop].seq \in Nat /\ RingSound(r, q[drop].seq, n)
         /\ Within(r, q) /\ ToSet(r) = {e \in ToSet(q) : e.seq > q[drop].seq}
         /\ low < q[drop].seq /\ q[drop].seq < q[Len(q)].seq
<1>1. drop \in 1 .. Len(q) /\ BufferLimit \in Nat /\ Len(q) \in Nat
  BY LimitsAssumption
<1>2. /\ r \in Seq(Entries) /\ Len(r) = BufferLimit
      /\ \A i \in 1 .. Len(r) : r[i] = q[i + drop]
  <2>1. /\ drop + 1 \in 1 .. Len(q) + 1 /\ Len(q) \in (drop + 1) - 1 .. Len(q)
        /\ Len(q) - (drop + 1) + 1 = BufferLimit
    BY <1>1
  <2>2. /\ r \in Seq(Entries) /\ Len(r) = Len(q) - (drop + 1) + 1
        /\ \A i \in 1 .. Len(q) - (drop + 1) + 1 : r[i] = q[(drop + 1) + i - 1]
    <3>1. drop \in Nat /\ drop + 1 \in Int /\ Len(q) \in Int /\ drop + 1 <= Len(q)
      BY <1>1, LimitsAssumption
    <3>2. \A i \in 1 .. Len(q) : q[i] \in Entries
      OBVIOUS
    <3>3. \A i \in drop + 1 .. Len(q) : i \in 1 .. Len(q)
      BY ONLY <3>1
    <3> QED BY <3>1, <3>2, <3>3, SubSeqProperties
  <2>3. \A i \in 1 .. BufferLimit : (drop + 1) + i - 1 = i + drop
    BY <1>1
  <2> QED BY <2>1, <2>2, <2>3
<1>3. \A i \in 1 .. Len(r) : i + drop \in 1 .. Len(q) /\ drop < i + drop
  BY <1>1, <1>2
<1>4. \A i \in 1 .. Len(q) : q[i].seq \in Nat /\ low < q[i].seq /\ q[i].seq <= n
  <2>1. \A i \in 1 .. Len(q) : q[i] \in Entries
    OBVIOUS
  <2>2. \A x \in Entries : x.seq \in Nat
    BY DEF Entries, Seqs
  <2> QED BY <2>1, <2>2 DEF Between
<1>5. Rising(r)
  <2> SUFFICES ASSUME NEW i \in 1 .. Len(r), NEW j \in 1 .. Len(r), i < j
               PROVE  r[i].seq < r[j].seq
    BY DEF Rising
  <2>1. i + drop < j + drop
    BY <1>1
  <2> QED BY <1>2, <1>3, <2>1 DEF Rising
<1>6. Between(r, q[drop].seq, n)
  BY <1>1, <1>2, <1>3, <1>4 DEF Between, Rising
<1>7. Within(r, q)
  BY <1>2, <1>3 DEF Within
<1>8. q[drop].seq \in Nat /\ q[drop].seq <= n /\ Len(r) <= BufferLimit
  BY <1>1, <1>2, <1>4
<1>9. RingSound(r, q[drop].seq, n)
  BY <1>5, <1>6, <1>8 DEF RingSound
<1>10. low < q[drop].seq /\ q[drop].seq < q[Len(q)].seq
  <2>1. drop < Len(q) /\ Len(q) \in 1 .. Len(q)
    BY <1>1, LimitsAssumption
  <2> QED BY <1>1, <1>4, <2>1 DEF Rising
<1>11. ToSet(r) = {e \in ToSet(q) : e.seq > q[drop].seq}
  <2>1. ASSUME NEW e \in ToSet(r) PROVE e \in ToSet(q) /\ e.seq > q[drop].seq
    <3>1. PICK i \in 1 .. Len(r) : e = r[i]
      BY <1>2 DEF ToSet
    <3>2. e = q[i + drop] /\ i + drop \in 1 .. Len(q)
      BY <1>2, <1>3, <3>1
    <3>3. q[drop].seq < e.seq
      BY <1>6, <3>1 DEF Between
    <3> QED BY <1>4, <1>8, <3>2, <3>3 DEF ToSet
  <2>2. ASSUME NEW e \in ToSet(q), e.seq > q[drop].seq PROVE e \in ToSet(r)
    <3>1. PICK i \in 1 .. Len(q) : e = q[i]
      BY DEF ToSet
    <3>2. drop < i
      <4>1. i < drop => q[i].seq < q[drop].seq
        BY <1>1 DEF Rising
      <4> QED BY <1>1, <1>4, <2>2, <3>1, <4>1
    <3>3. i - drop \in 1 .. Len(r) /\ (i - drop) + drop = i
      BY <1>1, <1>2, <3>1, <3>2
    <3>4. r[i - drop] = e
      BY <1>2, <3>1, <3>3
    <3> QED BY <1>2, <3>3, <3>4 DEF ToSet
  <2> QED BY <2>1, <2>2
<1> QED BY <1>2, <1>7, <1>8, <1>9, <1>10, <1>11

\* The event with number n, and the entry of the journal that goes with it
News(n, t, v) == [seq |-> n, thread |-> t, value |-> v]
Told(n, v) == [seq |-> n, kind |-> IF v = Unlisted THEN "removed" ELSE "summary"]

\* append gives the next number to one event, which goes to the ring, to the
\* journal and out.
LEMMA Append1Effect ==
  ASSUME NEW s, NEW ep, NEW b, s \in Nat, NEW h \in Reach(s, ep, b),
         NEW t \in Threads, NEW v \in Values
  PROVE  /\ Append1(h, t, v) \in Reach(s, ep, b)
         /\ Moves(Append1(h, t, v), h, t, Told(h.seq + 1, v), {News(h.seq + 1, t, v)})
         /\ Append1(h, t, v).last[t] = v /\ t \notin Append1(h, t, v).slipped
<1> DEFINE n == h.seq
           entry == [seq |-> n + 1, thread |-> t, value |-> v]
           long == Append(h.ring, entry)
           a == [h EXCEPT !.seq = n + 1, !.ring = long]
           kept == Trim(a)
           kind == IF v = Unlisted THEN "removed" ELSE "summary"
           r == Record(kept, t, kind)
           g == [r EXCEPT !.outgoing = Append(@, entry), !.last[t] = v, !.slipped = @ \ {t}]
<1>1. /\ h \in Hubs /\ HubSound(h) /\ h.up /\ h.epoch = ep /\ s <= h.seq
      /\ Between(h.outgoing, s, h.seq) /\ \A u \in Threads : h.held[u] <= b
  BY DEF Reach
<1>2. /\ n \in Nat /\ n + 1 \in Nat /\ n < n + 1 /\ h.ring \in Seq(Entries) /\ h.ringFloor \in Nat
      /\ h.outgoing \in Seq(Entries) /\ entry \in Entries /\ entry.seq = n + 1
      /\ h.journalFloor \in Nat /\ kind \in {"summary", "deferred", "removed"} /\ kind # "deferred"
  BY <1>1 DEF Hubs, Entries, Seqs
<1>3. Append1(h, t, v) = g
  BY <1>1 DEF Append1, Hubs
<1> HIDE DEF n, entry, kind
<1>4. /\ long \in Seq(Entries) /\ Rising(long) /\ Between(long, h.ringFloor, n + 1)
      /\ \A i \in 1 .. Len(long) : \/ long[i] = entry
                                  \/ \E j \in 1 .. Len(h.ring) : long[i] = h.ring[j]
  <2>1. Rising(h.ring) /\ Between(h.ring, h.ringFloor, n) /\ h.ringFloor <= n
    BY <1>1 DEF HubSound, RingSound, n
  <2>2. /\ long \in Seq(Entries) /\ Len(long) = Len(h.ring) + 1
        /\ Rising(long) /\ Between(long, h.ringFloor, n + 1)
        /\ \A i \in 1 .. Len(long) : long[i] = IF i <= Len(h.ring) THEN h.ring[i] ELSE entry
    BY <1>2, <2>1, RisingAppend
  <2> HIDE DEF long
  <2> QED BY <1>2, <2>2
<1>13. ToSet(long) = ToSet(h.ring) \cup {entry} /\ Len(long) \in Nat /\ long[Len(long)].seq = n + 1
  <2> DEFINE q == h.ring
  <2>1. q \in Seq(Entries)
    BY <1>2
  <2> HIDE DEF q
  <2>2. ToSet(Append(q, entry)) = ToSet(q) \cup {entry}
    BY <2>1, ToSetAppend
  <2>3. Append(q, entry)[Len(Append(q, entry))] = entry
    BY <2>1
  <2> QED BY <1>2, <1>4, <2>2, <2>3 DEF q
<1> HIDE DEF long
<1>5. a \in Hubs /\ a.seq = n + 1 /\ a.ring = long /\ a.journal = h.journal
      /\ a.journalFloor = h.journalFloor /\ a.ringFloor = h.ringFloor
      /\ a.up = h.up /\ a.epoch = h.epoch /\ a.outgoing = h.outgoing /\ a.held = h.held
      /\ a.inFlight = h.inFlight /\ a.pending = h.pending /\ a.asked = h.asked /\ a.last = h.last
      /\ a.visible = h.visible /\ a.slipped = h.slipped
  BY <1>1, <1>2, <1>4 DEF Hubs
<1> HIDE DEF a
<1>6. /\ kept \in Hubs /\ kept.seq = n + 1 /\ kept.journal = h.journal
      /\ kept.journalFloor = h.journalFloor
      /\ kept.up = h.up /\ kept.epoch = h.epoch /\ kept.outgoing = h.outgoing /\ kept.held = h.held
      /\ kept.inFlight = h.inFlight
      /\ kept.pending = h.pending /\ kept.asked = h.asked /\ kept.last = h.last
      /\ kept.visible = h.visible /\ kept.slipped = h.slipped
      /\ RingSound(kept.ring, kept.ringFloor, n + 1)
      /\ Within(kept.ring, long)
      /\ h.ringFloor <= kept.ringFloor /\ kept.ringFloor <= n
      /\ ToSet(kept.ring) = {e \in ToSet(h.ring) \cup {entry} : e.seq > kept.ringFloor}
  <2>1. CASE Len(long) <= BufferLimit
    <3>1. kept = a
      BY <1>5, <2>1 DEF Trim
    <3>2. RingSound(long, h.ringFloor, n + 1)
      BY <1>1, <1>2, <1>4, <2>1 DEF RingSound, HubSound, n
    <3>3. \A e \in ToSet(long) : e.seq > h.ringFloor
      <4>1. \A i \in 1 .. Len(long) : long[i].seq \in Nat
        BY <1>4, EntryNumbers
      <4> QED BY <1>2, <1>4, <4>1 DEF ToSet, Between
    <3>4. h.ringFloor <= n
      BY <1>1 DEF HubSound, RingSound, n
    <3>5. /\ kept \in Hubs /\ kept.ring = long /\ kept.ringFloor = h.ringFloor
          /\ Within(kept.ring, long) /\ h.ringFloor <= h.ringFloor
      BY <1>2, <1>5, <3>1 DEF Within
    <3>6. ToSet(kept.ring) = {e \in ToSet(h.ring) \cup {entry} : e.seq > kept.ringFloor}
      BY <1>13, <3>3, <3>5
    <3> QED BY <1>5, <3>1, <3>2, <3>4, <3>5, <3>6
  <2>2. CASE ~ (Len(long) <= BufferLimit)
    <3> DEFINE drop == Len(long) - BufferLimit
               rest == SubSeq(long, drop + 1, Len(long))
               floor == long[drop].seq
    <3>1. kept = [a EXCEPT !.ring = rest, !.ringFloor = floor]
      BY <1>5, <2>2 DEF Trim
    <3>2. Len(long) > BufferLimit
      BY <1>4, <2>2, LimitsAssumption
    <3>3. /\ rest \in Seq(Entries) /\ floor \in Nat /\ RingSound(rest, floor, n + 1)
          /\ Within(rest, long) /\ ToSet(rest) = {e \in ToSet(long) : e.seq > floor}
          /\ h.ringFloor < floor /\ floor < n + 1
      BY <1>2, <1>4, <1>13, <3>2, RingTrims
    <3> HIDE DEF rest, floor
    <3>5. /\ kept \in Hubs /\ kept.seq = n + 1 /\ kept.journal = h.journal
          /\ kept.journalFloor = h.journalFloor
          /\ kept.up = h.up /\ kept.epoch = h.epoch /\ kept.outgoing = h.outgoing
          /\ kept.held = h.held /\ kept.inFlight = h.inFlight
          /\ kept.ring = rest /\ kept.ringFloor = floor
          /\ kept.pending = h.pending /\ kept.asked = h.asked /\ kept.last = h.last
          /\ kept.visible = h.visible /\ kept.slipped = h.slipped
      BY <1>5, <3>1, <3>3 DEF Hubs
    <3> HIDE DEF kept
    <3>6. h.ringFloor <= floor /\ floor <= n
      BY <1>2, <3>3
    <3> QED BY <1>13, <3>3, <3>5, <3>6
  <2> QED BY <2>1, <2>2
<1> HIDE DEF kept
<1>7. /\ r \in Hubs /\ JournalOnly(r, kept)
      /\ JournalSound(r.journal, r.seq) /\ r.journalFloor <= r.seq
      /\ JournalFrom(r.journal, kept.journal, [seq |-> kept.seq, kind |-> kind])
      /\ Takes(r, kept, t, [seq |-> kept.seq, kind |-> kind])
  <2>1. JournalSound(kept.journal, n) /\ n < kept.seq /\ kept.journalFloor <= kept.seq
    BY <1>1, <1>2, <1>6 DEF HubSound, n
  <2>2. r = Record(kept, t, kind) /\ n \in Nat /\ kept \in Hubs
    BY <1>6, <1>2
  <2> HIDE DEF r
  <2> QED BY <1>2, <2>1, <2>2, RecordEffect
<1> HIDE DEF r
<1>8. /\ Append(h.outgoing, entry) \in Seq(Entries) /\ Rising(Append(h.outgoing, entry))
      /\ Between(Append(h.outgoing, entry), s, n + 1)
      /\ ToSet(Append(h.outgoing, entry)) = ToSet(h.outgoing) \cup {entry}
  <2>1. Rising(h.outgoing) /\ Between(h.outgoing, s, n) /\ s <= n
    BY <1>1 DEF HubSound, n
  <2>2. ToSet(Append(h.outgoing, entry)) = ToSet(h.outgoing) \cup {entry}
    BY <1>2, ToSetAppend
  <2> QED BY <1>2, <2>1, <2>2, RisingAppend
<1>9. /\ g \in Hubs /\ g.up = h.up /\ g.epoch = h.epoch /\ g.seq = n + 1 /\ g.held = h.held
      /\ g.outgoing = Append(h.outgoing, entry) /\ g.ring = kept.ring /\ g.ringFloor = kept.ringFloor
      /\ g.journal = r.journal /\ g.journalFloor = r.journalFloor /\ g.inFlight = h.inFlight
      /\ g.pending = h.pending /\ g.asked = h.asked /\ g.visible = h.visible
      /\ g.last = [h.last EXCEPT ![t] = v] /\ g.slipped = r.slipped \ {t}
  BY <1>6, <1>7, <1>8 DEF Hubs, JournalOnly
<1> HIDE DEF g
<1>10. Apart(g.journal, g.ring)
  <2> SUFFICES ASSUME NEW u \in Threads, NEW i \in 1 .. Len(g.ring), g.journal[u].kind = "deferred"
               PROVE  g.ring[i].seq # g.journal[u].seq
    BY DEF Apart
  <2>1. g.journal[u] = h.journal[u] /\ h.journal[u].kind = "deferred"
    <3>1. NoEntry.kind # "deferred" /\ [seq |-> kept.seq, kind |-> kind].kind # "deferred"
      BY <1>2 DEF NoEntry
    <3>2. \/ g.journal[u] = h.journal[u] \/ g.journal[u] = NoEntry
          \/ g.journal[u] = [seq |-> kept.seq, kind |-> kind]
      BY <1>6, <1>7, <1>9 DEF JournalFrom
    <3> QED BY <3>1, <3>2
  <2>2. h.journal[u].seq \in Nat /\ h.journal[u].seq <= n
    BY <1>1 DEF HubSound, JournalSound, JournalNumbers, Hubs, JournalEntries, Seqs, n
  <2>3. PICK j \in 1 .. Len(long) : g.ring[i] = long[j]
    BY <1>6, <1>9 DEF Within
  <2>4. CASE long[j] = entry
    BY <1>2, <2>1, <2>2, <2>3, <2>4
  <2>5. CASE \E l \in 1 .. Len(h.ring) : long[j] = h.ring[l]
    BY <1>1, <2>1, <2>3, <2>5 DEF HubSound, Apart
  <2> QED BY <1>4, <2>4, <2>5
<1>11. HubSound(g)
  BY <1>1, <1>6, <1>7, <1>8, <1>9, <1>10 DEF HubSound, JournalOnly
<1>12. s <= g.seq /\ Between(g.outgoing, s, g.seq) /\ \A u \in Threads : g.held[u] <= b
  BY <1>1, <1>2, <1>8, <1>9 DEF n
<1>14. g.last[t] = v /\ (\A u \in Threads \ {t} : g.last[u] = h.last[u]) /\ t \notin g.slipped
  BY <1>1, <1>9 DEF Hubs
<1>15. Takes(g, h, t, Told(n + 1, v))
  <2>1. [seq |-> kept.seq, kind |-> kind] = Told(n + 1, v)
    BY <1>6 DEF Told, kind
  <2>2. r.ringFloor = g.ringFloor
    BY <1>7, <1>9 DEF JournalOnly
  <2> QED BY <1>6, <1>7, <1>9, <2>1, <2>2 DEF Takes
<1>16. entry = News(n + 1, t, v) /\ n = h.seq
  BY DEF entry, n, News
<1>17. Moves(g, h, t, Told(n + 1, v), {entry})
  <2>1. g.seq = h.seq + 1 /\ g.ringFloor <= h.seq /\ h.ringFloor <= g.ringFloor
    BY <1>6, <1>9, <1>16
  <2>2. ToSet(g.ring) = {e \in ToSet(h.ring) \cup {entry} : e.seq > g.ringFloor}
    BY <1>6, <1>9
  <2>3. ToSet(g.outgoing) = ToSet(h.outgoing) \cup {entry}
    BY <1>8, <1>9
  <2> QED BY <1>9, <1>14, <1>15, <2>1, <2>2, <2>3 DEF Moves
<1> QED BY <1>1, <1>3, <1>9, <1>11, <1>12, <1>14, <1>16, <1>17 DEF Reach

\* So it does not leave the set.
LEMMA Append1Stays ==
  ASSUME NEW s, NEW ep, NEW b, s \in Nat, NEW h \in Reach(s, ep, b),
         NEW t \in Threads, NEW v \in Values
  PROVE  Append1(h, t, v) \in Reach(s, ep, b)
BY Append1Effect

\* What a hub has told and can tell again is the same in both.
SameEvents(g, h) ==
  /\ g.up = h.up /\ g.epoch = h.epoch /\ g.seq = h.seq
  /\ g.ring = h.ring /\ g.ringFloor = h.ringFloor
  /\ g.journal = h.journal /\ g.journalFloor = h.journalFloor /\ g.outgoing = h.outgoing

\* A hub with other requests, lookups or held removals is as sound as before.
LEMMA EditStays ==
  ASSUME NEW s, NEW ep, NEW b, NEW c, NEW h \in Reach(s, ep, b),
         NEW g \in Hubs, SameEvents(g, h), IsFiniteSet(g.inFlight),
         \A t \in Threads : g.held[t] <= c
  PROVE  g \in Reach(s, ep, c)
BY DEF Reach, SameEvents, HubSound

\* Slip does not leave the set.
LEMMA SlipStays ==
  ASSUME NEW s, NEW ep, NEW b, NEW h \in Reach(s, ep, b), NEW T \in SUBSET Threads
  PROVE  Slip(h, T) \in Reach(s, ep, b)
<1>1. h \in Hubs /\ IsFiniteSet(h.inFlight) /\ \A u \in Threads : h.held[u] <= b
  BY DEF Reach, HubSound
<1>2. /\ Slip(h, T) \in Hubs /\ SameEvents(Slip(h, T), h)
      /\ Slip(h, T).inFlight = h.inFlight /\ Slip(h, T).held = h.held
  BY <1>1, SlipEffect DEF JournalOnly, SameEvents
<1> QED BY <1>1, <1>2, EditStays

\* deferSummary gives the next number to an entry of the journal alone.
LEMMA DeferEffect ==
  ASSUME NEW s, NEW ep, NEW b, s \in Nat, NEW h \in Reach(s, ep, b), NEW t \in Threads
  PROVE  /\ Defer(h, t) \in Reach(s, ep, b)
         /\ Moves(Defer(h, t), h, t, [seq |-> h.seq + 1, kind |-> "deferred"], {})
         /\ Defer(h, t).last[t] = None
         /\ (\/ link.mode \in {"replaying", "live"}
             \/ h.journal[t].kind = "removed" /\ inbox[t] = Unlisted
             \/ t \in h.slipped) => t \in Defer(h, t).slipped
<1> DEFINE n == h.seq
           a == [h EXCEPT !.seq = @ + 1, !.last[t] = None]
           r == Record(a, t, "deferred")
           slips == IF \/ link.mode \in {"replaying", "live"}
                       \/ h.journal[t].kind = "removed" /\ inbox[t] = Unlisted
                      THEN {t} ELSE {}
           g == Slip(r, slips)
<1>1. /\ h \in Hubs /\ HubSound(h) /\ h.up /\ h.epoch = ep /\ s <= h.seq
      /\ Between(h.outgoing, s, h.seq) /\ \A u \in Threads : h.held[u] <= b
  BY DEF Reach
<1>2. n \in Nat /\ n + 1 \in Nat /\ n < n + 1 /\ slips \in SUBSET Threads
  BY <1>1 DEF Hubs
<1>3. Defer(h, t) = g
  BY DEF Defer
<1> HIDE DEF slips
<1>4. /\ a \in Hubs /\ a.seq = n + 1 /\ a.journal = h.journal /\ a.journalFloor = h.journalFloor
      /\ a.ring = h.ring /\ a.ringFloor = h.ringFloor
      /\ a.up = h.up /\ a.epoch = h.epoch /\ a.outgoing = h.outgoing /\ a.held = h.held
      /\ a.inFlight = h.inFlight /\ a.pending = h.pending /\ a.asked = h.asked
      /\ a.visible = h.visible /\ a.slipped = h.slipped /\ a.last = [h.last EXCEPT ![t] = None]
  BY <1>1, <1>2 DEF Hubs, Values, None, Unlisted
<1> HIDE DEF a
<1>5. /\ r \in Hubs /\ JournalOnly(r, a) /\ JournalSound(r.journal, r.seq) /\ r.journalFloor <= r.seq
      /\ JournalFrom(r.journal, a.journal, [seq |-> a.seq, kind |-> "deferred"])
      /\ Takes(r, a, t, [seq |-> a.seq, kind |-> "deferred"]) /\ a.slipped \subseteq r.slipped
  <2>1. JournalSound(a.journal, n) /\ n < a.seq /\ a.journalFloor <= a.seq
    <3>1. h.journalFloor \in Nat /\ h.journalFloor <= n /\ JournalSound(h.journal, n)
      BY <1>1 DEF HubSound, Hubs
    <3> QED BY <1>2, <1>4, <3>1
  <2>2. r = Record(a, t, "deferred") /\ n \in Nat /\ "deferred" \in {"summary", "deferred", "removed"}
    BY <1>2
  <2> HIDE DEF r, n
  <2> QED BY <1>4, <2>1, <2>2, RecordEffect
<1> HIDE DEF r
<1>6. /\ g \in Hubs /\ JournalOnly(g, r) /\ g.journal = r.journal /\ g.journalFloor = r.journalFloor
      /\ g.slipped = r.slipped \cup slips
  BY <1>2, <1>5, SlipEffect
<1> HIDE DEF g, n
<1>7. RingSound(g.ring, g.ringFloor, n + 1) /\ \A i \in 1 .. Len(g.ring) : g.ring[i].seq <= n
  <2>1. h.ring \in Seq(Entries) /\ Len(h.ring) \in Nat /\ h.ringFloor \in Nat
    BY <1>1 DEF Hubs
  <2>2. \A x \in Entries : x.seq \in Nat
    BY DEF Entries, Seqs
  <2>3. \A i \in 1 .. Len(h.ring) : h.ring[i].seq \in Nat
    BY <2>1, <2>2
  <2>4. RingSound(h.ring, h.ringFloor, n)
    BY <1>1 DEF HubSound, n
  <2>5. Between(h.ring, h.ringFloor, n + 1) /\ h.ringFloor <= n + 1
    BY <1>2, <2>1, <2>3, <2>4 DEF RingSound, Between
  <2>6. g.ring = h.ring /\ g.ringFloor = h.ringFloor
    BY <1>4, <1>5, <1>6 DEF JournalOnly
  <2> QED BY <2>4, <2>5, <2>6 DEF RingSound, Between
<1>8. Apart(g.journal, g.ring)
  <2> SUFFICES ASSUME NEW u \in Threads, NEW i \in 1 .. Len(g.ring), g.journal[u].kind = "deferred"
               PROVE  g.ring[i].seq # g.journal[u].seq
    BY DEF Apart
  <2>1. g.journal[u] \in {h.journal[u], NoEntry, [seq |-> n + 1, kind |-> "deferred"]}
    BY <1>4, <1>5, <1>6 DEF JournalFrom
  <2>2. CASE g.journal[u] = h.journal[u]
    BY <1>1, <1>4, <1>5, <1>6, <2>2 DEF HubSound, Apart, JournalOnly
  <2>3. CASE g.journal[u] = [seq |-> n + 1, kind |-> "deferred"]
    <3>1. g.ring[i] \in Entries
      BY <1>6 DEF Hubs
    <3>2. g.ring[i].seq <= n /\ g.ring[i].seq \in Nat
      BY <1>7, <3>1 DEF Entries, Seqs
    <3> QED BY <1>2, <2>3, <3>2
  <2>4. NoEntry.kind # "deferred"
    BY DEF NoEntry
  <2> QED BY <2>1, <2>2, <2>3, <2>4
<1>9. /\ g.up = h.up /\ g.epoch = h.epoch /\ g.seq = n + 1 /\ g.held = h.held
      /\ g.outgoing = h.outgoing /\ g.inFlight = h.inFlight
  BY <1>4, <1>5, <1>6 DEF JournalOnly
<1>10. HubSound(g)
  BY <1>1, <1>5, <1>6, <1>7, <1>8, <1>9 DEF HubSound, JournalOnly
<1>11. s <= g.seq /\ Between(g.outgoing, s, g.seq)
  <2>1. h.outgoing \in Seq(Entries) /\ \A x \in Entries : x.seq \in Nat
    BY <1>1 DEF Hubs, Entries, Seqs
  <2>2. \A i \in 1 .. Len(h.outgoing) : h.outgoing[i].seq \in Nat
    BY <2>1
  <2> QED BY <1>1, <1>2, <1>9, <2>2 DEF Between, n
<1>12. g.last[t] = None /\ (\A u \in Threads \ {t} : g.last[u] = h.last[u])
  BY <1>1, <1>4, <1>5, <1>6 DEF JournalOnly, Hubs
<1>13. Takes(g, h, t, [seq |-> n + 1, kind |-> "deferred"])
  <2>1. r.ringFloor = g.ringFloor
    BY <1>6 DEF JournalOnly
  <2> QED BY <1>4, <1>5, <1>6, <2>1 DEF Takes
<1>14. Moves(g, h, t, [seq |-> n + 1, kind |-> "deferred"], {})
  <2>1. g.ring = h.ring /\ g.ringFloor = h.ringFloor /\ h.ringFloor \in Nat /\ h.ringFloor <= n
        /\ g.pending = h.pending /\ g.asked = h.asked /\ g.visible = h.visible
    BY <1>1, <1>4, <1>5, <1>6 DEF JournalOnly, HubSound, RingSound, Hubs, n
  <2>2. \A e \in ToSet(h.ring) : e.seq > h.ringFloor
    <3>1. h.ring \in Seq(Entries) /\ Between(h.ring, h.ringFloor, n)
      BY <1>1 DEF HubSound, RingSound, Hubs, n
    <3>2. \A i \in 1 .. Len(h.ring) : h.ring[i].seq \in Nat /\ h.ringFloor < h.ring[i].seq
      BY <3>1, EntryNumbers DEF Between
    <3> QED BY <2>1, <3>1, <3>2 DEF ToSet
  <2> QED BY <1>9, <1>12, <1>13, <2>1, <2>2 DEF Moves, n
<1>15. (\/ link.mode \in {"replaying", "live"}
        \/ h.journal[t].kind = "removed" /\ inbox[t] = Unlisted
        \/ t \in h.slipped) => t \in g.slipped
  BY <1>4, <1>5, <1>6 DEF slips
<1> QED BY <1>1, <1>3, <1>6, <1>9, <1>10, <1>11, <1>12, <1>14, <1>15 DEF Reach, n

\* So it does not leave the set.
LEMMA DeferStays ==
  ASSUME NEW s, NEW ep, NEW b, s \in Nat, NEW h \in Reach(s, ep, b), NEW t \in Threads
  PROVE  Defer(h, t) \in Reach(s, ep, b)
BY DeferEffect

\* refreshSummary asks for the summary or defers it.
LEMMA RefreshStays ==
  ASSUME NEW s, NEW ep, NEW b, s \in Nat, NEW h \in Reach(s, ep, b), NEW t \in Threads
  PROVE  Refresh(h, t) \in Reach(s, ep, b)
<1>1. h \in Hubs /\ IsFiniteSet(h.inFlight) /\ h.inFlight \subseteq Threads
      /\ \A u \in Threads : h.held[u] <= b
  BY DEF Reach, HubSound, Hubs
<1>2. CASE link.mode = "none"
  <2> DEFINE g == [h EXCEPT !.inFlight = @ \ {t}]
  <2>1. g \in Hubs /\ SameEvents(g, h) /\ g.inFlight = h.inFlight \ {t} /\ g.held = h.held
    BY <1>1 DEF Hubs, SameEvents
  <2>2. IsFiniteSet(g.inFlight)
    BY <1>1, <2>1, FS_RemoveElement
  <2>3. Refresh(h, t) = Defer(g, t)
    BY <1>2 DEF Refresh
  <2> HIDE DEF g
  <2>4. g \in Reach(s, ep, b)
    BY <1>1, <2>1, <2>2, EditStays
  <2> QED BY <2>3, <2>4, DeferStays
<1>3. CASE link.mode # "none"
  <2> DEFINE g == [h EXCEPT !.inFlight = @ \cup {t},
                            !.asked = Append(@, [kind |-> "summary", thread |-> t])]
  <2>1. Append(h.asked, [kind |-> "summary", thread |-> t]) \in Seq(Requests)
    BY <1>1 DEF Hubs, Requests
  <2>2. g \in Hubs /\ SameEvents(g, h) /\ g.inFlight = h.inFlight \cup {t} /\ g.held = h.held
    BY <1>1, <2>1 DEF Hubs, SameEvents
  <2>3. IsFiniteSet(g.inFlight)
    BY <1>1, <2>2, FS_AddElement
  <2>4. Refresh(h, t) = g
    BY <1>3 DEF Refresh
  <2> HIDE DEF g
  <2> QED BY <1>1, <2>2, <2>3, <2>4, EditStays
<1> QED BY <1>2, <1>3

\* A fold with Refresh stays in T if each one does, and goes through the sets
\* P[0], P[1], ... if each one goes from one to the next.  (The proof system
\* cannot take the operator as a parameter: the same for Defer and Append1.)
LEMMA FoldRefreshBy ==
  ASSUME NEW T, NEW base \in T, NEW s \in Seq(Threads),
         \A h \in T, t \in Threads : Refresh(h, t) \in T,
         NEW P, base \in P[0],
         \A n \in 1 .. Len(s), h \in T : h \in P[n - 1] => Refresh(h, s[n]) \in P[n]
  PROVE  FoldLeft(Refresh, base, s) \in T \cap P[Len(s)]
<1> DEFINE N == Len(s)
           step == [n \in 1 .. N |-> [h \in T |-> Refresh(h, s[n])]]
           Is(h) == h = [x \in SUBSET (1 .. N) |->
                            IF x = {} THEN base ELSE Refresh(h[x \ {Max(x)}], s[Max(x)])]
           g == CHOOSE h : Is(h)
<1>1. N \in Nat /\ DOMAIN s = 1 .. N /\ \A n \in 1 .. N : s[n] \in Threads
  OBVIOUS
<1> HIDE DEF N
<1>2. step \in [1 .. N -> [T -> T]] /\ \A n \in 1 .. N, h \in T : step[n][h] = Refresh(h, s[n])
  BY <1>1
<1> HIDE DEF step
<1>3. PICK f \in [SUBSET (1 .. N) -> T] : Folds(f, N, base, step)
  BY <1>1, <1>2, FoldExists
<1>4. Is(f)
  <2>1. ASSUME NEW x \in SUBSET (1 .. N)
        PROVE  f[x] = IF x = {} THEN base ELSE Refresh(f[x \ {Max(x)}], s[Max(x)])
    <3>1. f[x] = IF x = {} THEN base ELSE step[Max(x)][f[x \ {Max(x)}]]
      BY <1>3, Zenon DEF Folds
    <3>2. CASE x # {}
      <4>1. Max(x) \in 1 .. N /\ f[x \ {Max(x)}] \in T
        BY <1>1, <3>2, FoldTakes
      <4> QED BY <1>2, <3>1, <3>2, <4>1
    <3> QED BY <3>1, <3>2
  <2> QED BY <2>1
<1>5. Is(g)
  <2> HIDE DEF Is
  <2> QED BY <1>4
<1>6. FoldLeft(Refresh, base, s) = g[1 .. N]
  BY <1>1, Zenon DEF FoldLeft, MapThenFoldSet
<1> HIDE DEF g
<1>7. g[{}] = base /\ \A n \in 1 .. N : g[1 .. n] = Refresh(g[1 .. n - 1], s[n])
  <2>1. \A x \in SUBSET (1 .. N) :
           g[x] = IF x = {} THEN base ELSE Refresh(g[x \ {Max(x)}], s[Max(x)])
    BY <1>5
  <2> QED BY <1>1, <2>1, FoldTakes
<1> DEFINE Q == [n \in 0 .. N |-> T \cap P[n]]
<1>8. g[{}] \in Q[0] /\ \A n \in 1 .. N : g[1 .. n - 1] \in Q[n - 1] => g[1 .. n] \in Q[n]
  <2>1. g[{}] \in Q[0]
    BY <1>1, <1>7
  <2>2. ASSUME NEW n \in 1 .. N, g[1 .. n - 1] \in Q[n - 1] PROVE g[1 .. n] \in Q[n]
    <3> DEFINE x == g[1 .. n - 1]
    <3>1. n - 1 \in 0 .. N /\ n \in 0 .. N /\ x \in T /\ x \in P[n - 1]
      BY <1>1, <2>2
    <3>2. g[1 .. n] = Refresh(x, s[n]) /\ s[n] \in Threads
      BY <1>1, <1>7
    <3> HIDE DEF x
    <3> QED BY <3>1, <3>2 DEF N
  <2> QED BY <2>1, <2>2
<1> HIDE DEF Q
<1>9. g[1 .. N] \in Q[N]
  BY <1>1, <1>8, FoldStays
<1> QED BY <1>1, <1>6, <1>9 DEF Q, N

\* In particular it stays in T.
LEMMA FoldRefresh ==
  ASSUME NEW T, NEW base \in T, NEW s \in Seq(Threads),
         \A h \in T, t \in Threads : Refresh(h, t) \in T
  PROVE  FoldLeft(Refresh, base, s) \in T
<1> DEFINE P == [n \in 0 .. Len(s) |-> T]
<1>1. base \in P[0] /\ \A n \in 1 .. Len(s), h \in T : h \in P[n - 1] => Refresh(h, s[n]) \in P[n]
  OBVIOUS
<1> HIDE DEF P
<1> QED BY <1>1, FoldRefreshBy

\* A fold with Defer stays in T if each one does, and goes through the sets
\* P[0], P[1], ... if each one goes from one to the next.
LEMMA FoldDeferBy ==
  ASSUME NEW T, NEW base \in T, NEW s \in Seq(Threads),
         \A h \in T, t \in Threads : Defer(h, t) \in T,
         NEW P, base \in P[0],
         \A n \in 1 .. Len(s), h \in T : h \in P[n - 1] => Defer(h, s[n]) \in P[n]
  PROVE  FoldLeft(Defer, base, s) \in T \cap P[Len(s)]
<1> DEFINE N == Len(s)
           step == [n \in 1 .. N |-> [h \in T |-> Defer(h, s[n])]]
           Is(h) == h = [x \in SUBSET (1 .. N) |->
                            IF x = {} THEN base ELSE Defer(h[x \ {Max(x)}], s[Max(x)])]
           g == CHOOSE h : Is(h)
<1>1. N \in Nat /\ DOMAIN s = 1 .. N /\ \A n \in 1 .. N : s[n] \in Threads
  OBVIOUS
<1> HIDE DEF N
<1>2. step \in [1 .. N -> [T -> T]] /\ \A n \in 1 .. N, h \in T : step[n][h] = Defer(h, s[n])
  BY <1>1
<1> HIDE DEF step
<1>3. PICK f \in [SUBSET (1 .. N) -> T] : Folds(f, N, base, step)
  BY <1>1, <1>2, FoldExists
<1>4. Is(f)
  <2>1. ASSUME NEW x \in SUBSET (1 .. N)
        PROVE  f[x] = IF x = {} THEN base ELSE Defer(f[x \ {Max(x)}], s[Max(x)])
    <3>1. f[x] = IF x = {} THEN base ELSE step[Max(x)][f[x \ {Max(x)}]]
      BY <1>3, Zenon DEF Folds
    <3>2. CASE x # {}
      <4>1. Max(x) \in 1 .. N /\ f[x \ {Max(x)}] \in T
        BY <1>1, <3>2, FoldTakes
      <4> QED BY <1>2, <3>1, <3>2, <4>1
    <3> QED BY <3>1, <3>2
  <2> QED BY <2>1
<1>5. Is(g)
  <2> HIDE DEF Is
  <2> QED BY <1>4
<1>6. FoldLeft(Defer, base, s) = g[1 .. N]
  BY <1>1, Zenon DEF FoldLeft, MapThenFoldSet
<1> HIDE DEF g
<1>7. g[{}] = base /\ \A n \in 1 .. N : g[1 .. n] = Defer(g[1 .. n - 1], s[n])
  <2>1. \A x \in SUBSET (1 .. N) :
           g[x] = IF x = {} THEN base ELSE Defer(g[x \ {Max(x)}], s[Max(x)])
    BY <1>5
  <2> QED BY <1>1, <2>1, FoldTakes
<1> DEFINE Q == [n \in 0 .. N |-> T \cap P[n]]
<1>8. g[{}] \in Q[0] /\ \A n \in 1 .. N : g[1 .. n - 1] \in Q[n - 1] => g[1 .. n] \in Q[n]
  <2>1. g[{}] \in Q[0]
    BY <1>1, <1>7
  <2>2. ASSUME NEW n \in 1 .. N, g[1 .. n - 1] \in Q[n - 1] PROVE g[1 .. n] \in Q[n]
    <3> DEFINE x == g[1 .. n - 1]
    <3>1. n - 1 \in 0 .. N /\ n \in 0 .. N /\ x \in T /\ x \in P[n - 1]
      BY <1>1, <2>2
    <3>2. g[1 .. n] = Defer(x, s[n]) /\ s[n] \in Threads
      BY <1>1, <1>7
    <3> HIDE DEF x
    <3> QED BY <3>1, <3>2 DEF N
  <2> QED BY <2>1, <2>2
<1> HIDE DEF Q
<1>9. g[1 .. N] \in Q[N]
  BY <1>1, <1>8, FoldStays
<1> QED BY <1>1, <1>6, <1>9 DEF Q, N

\* In particular it stays in T.
LEMMA FoldDefer ==
  ASSUME NEW T, NEW base \in T, NEW s \in Seq(Threads),
         \A h \in T, t \in Threads : Defer(h, t) \in T
  PROVE  FoldLeft(Defer, base, s) \in T
<1> DEFINE P == [n \in 0 .. Len(s) |-> T]
<1>1. base \in P[0] /\ \A n \in 1 .. Len(s), h \in T : h \in P[n - 1] => Defer(h, s[n]) \in P[n]
  OBVIOUS
<1> HIDE DEF P
<1> QED BY <1>1, FoldDeferBy

\* A fold with Append1 of removals stays in T if each one does, and goes through the sets
\* P[0], P[1], ... if each one goes from one to the next.
LEMMA FoldAppend1By ==
  ASSUME NEW T, NEW base \in T, NEW s \in Seq(Threads),
         \A h \in T, t \in Threads : Append1(h, t, Unlisted) \in T,
         NEW P, base \in P[0],
         \A n \in 1 .. Len(s), h \in T : h \in P[n - 1] => Append1(h, s[n], Unlisted) \in P[n]
  PROVE  FoldLeft(LAMBDA x, u : Append1(x, u, Unlisted), base, s) \in T \cap P[Len(s)]
<1> DEFINE N == Len(s)
           step == [n \in 1 .. N |-> [h \in T |-> Append1(h, s[n], Unlisted)]]
           Is(h) == h = [x \in SUBSET (1 .. N) |->
                            IF x = {} THEN base ELSE Append1(h[x \ {Max(x)}], s[Max(x)], Unlisted)]
           g == CHOOSE h : Is(h)
<1>1. N \in Nat /\ DOMAIN s = 1 .. N /\ \A n \in 1 .. N : s[n] \in Threads
  OBVIOUS
<1> HIDE DEF N
<1>2. step \in [1 .. N -> [T -> T]] /\ \A n \in 1 .. N, h \in T : step[n][h] = Append1(h, s[n], Unlisted)
  BY <1>1
<1> HIDE DEF step
<1>3. PICK f \in [SUBSET (1 .. N) -> T] : Folds(f, N, base, step)
  BY <1>1, <1>2, FoldExists
<1>4. Is(f)
  <2>1. ASSUME NEW x \in SUBSET (1 .. N)
        PROVE  f[x] = IF x = {} THEN base ELSE Append1(f[x \ {Max(x)}], s[Max(x)], Unlisted)
    <3>1. f[x] = IF x = {} THEN base ELSE step[Max(x)][f[x \ {Max(x)}]]
      BY <1>3, Zenon DEF Folds
    <3>2. CASE x # {}
      <4>1. Max(x) \in 1 .. N /\ f[x \ {Max(x)}] \in T
        BY <1>1, <3>2, FoldTakes
      <4> QED BY <1>2, <3>1, <3>2, <4>1
    <3> QED BY <3>1, <3>2
  <2> QED BY <2>1
<1>5. Is(g)
  <2> HIDE DEF Is
  <2> QED BY <1>4
<1>6. FoldLeft(LAMBDA x, u : Append1(x, u, Unlisted), base, s) = g[1 .. N]
  BY <1>1, Zenon DEF FoldLeft, MapThenFoldSet
<1> HIDE DEF g
<1>7. g[{}] = base /\ \A n \in 1 .. N : g[1 .. n] = Append1(g[1 .. n - 1], s[n], Unlisted)
  <2>1. \A x \in SUBSET (1 .. N) :
           g[x] = IF x = {} THEN base ELSE Append1(g[x \ {Max(x)}], s[Max(x)], Unlisted)
    BY <1>5
  <2> QED BY <1>1, <2>1, FoldTakes
<1> DEFINE Q == [n \in 0 .. N |-> T \cap P[n]]
<1>8. g[{}] \in Q[0] /\ \A n \in 1 .. N : g[1 .. n - 1] \in Q[n - 1] => g[1 .. n] \in Q[n]
  <2>1. g[{}] \in Q[0]
    BY <1>1, <1>7
  <2>2. ASSUME NEW n \in 1 .. N, g[1 .. n - 1] \in Q[n - 1] PROVE g[1 .. n] \in Q[n]
    <3> DEFINE x == g[1 .. n - 1]
    <3>1. n - 1 \in 0 .. N /\ n \in 0 .. N /\ x \in T /\ x \in P[n - 1]
      BY <1>1, <2>2
    <3>2. g[1 .. n] = Append1(x, s[n], Unlisted) /\ s[n] \in Threads
      BY <1>1, <1>7
    <3> HIDE DEF x
    <3> QED BY <3>1, <3>2 DEF N
  <2> QED BY <2>1, <2>2
<1> HIDE DEF Q
<1>9. g[1 .. N] \in Q[N]
  BY <1>1, <1>8, FoldStays
<1>10. g[1 .. N] \in T \cap P[N]
  BY <1>1, <1>9 DEF Q
<1> QED BY <1>6, <1>10, Zenon DEF N

\* In particular it stays in T.
LEMMA FoldAppend1 ==
  ASSUME NEW T, NEW base \in T, NEW s \in Seq(Threads),
         \A h \in T, t \in Threads : Append1(h, t, Unlisted) \in T
  PROVE  FoldLeft(LAMBDA x, u : Append1(x, u, Unlisted), base, s) \in T
<1> DEFINE P == [n \in 0 .. Len(s) |-> T]
<1>1. base \in P[0] /\ \A n \in 1 .. Len(s), h \in T : h \in P[n - 1] => Append1(h, s[n], Unlisted) \in P[n]
  OBVIOUS
<1> HIDE DEF P
<1> QED BY <1>1, FoldAppend1By

\* flushPending refreshes every pending thread.
LEMMA FlushedStays ==
  ASSUME NEW s, NEW ep, NEW b, s \in Nat, NEW h \in Reach(s, ep, b)
  PROVE  Flushed(h) \in Reach(s, ep, b)
<1> DEFINE g == [h EXCEPT !.pending = <<>>]
<1>1. h \in Hubs /\ IsFiniteSet(h.inFlight) /\ h.pending \in Seq(Threads)
      /\ \A u \in Threads : h.held[u] <= b
  BY DEF Reach, HubSound, Hubs
<1>2. g \in Hubs /\ SameEvents(g, h) /\ g.inFlight = h.inFlight /\ g.held = h.held
  <2>1. <<>> \in Seq(Threads)
    OBVIOUS
  <2> QED BY <1>1, <2>1 DEF Hubs, SameEvents
<1> HIDE DEF g
<1>3. g \in Reach(s, ep, b)
  BY <1>1, <1>2, EditStays
<1> DEFINE T == Reach(s, ep, b)
<1>4. \A x \in T, t \in Threads : Refresh(x, t) \in T
  BY RefreshStays
<1> HIDE DEF T
<1>5. FoldLeft(Refresh, g, h.pending) \in T
  BY <1>1, <1>3, <1>4, FoldRefresh DEF T
<1> QED BY <1>5 DEF Flushed, T, g

\* queueSummary changes the pending threads alone.
LEMMA QueuedStays ==
  ASSUME NEW s, NEW ep, NEW b, s \in Nat, NEW h \in Reach(s, ep, b), NEW t \in Threads
  PROVE  Queued(h, t) \in Reach(s, ep, b)
<1> DEFINE g == Queued(h, t)
<1>1. h \in Hubs /\ IsFiniteSet(h.inFlight) /\ \A u \in Threads : h.held[u] <= b
  BY DEF Reach, HubSound
<1>2. g \in Hubs /\ SameEvents(g, h) /\ g.inFlight = h.inFlight /\ g.held = h.held
  <2> DEFINE q == IF t \in ToSet(h.pending) THEN h.pending ELSE Append(h.pending, t)
  <2>1. q \in Seq(Threads)
    BY <1>1 DEF Hubs
  <2>2. g = [h EXCEPT !.pending = q]
    BY DEF Queued
  <2> HIDE DEF q, g
  <2> QED BY <1>1, <2>1, <2>2 DEF Hubs, SameEvents
<1> HIDE DEF g
<1>3. g \in Reach(s, ep, b)
  BY <1>1, <1>2, EditStays
<1> QED BY <1>3 DEF g

\* A removal is appended, held or hidden: at most one more is held.
LEMMA AppendRemovedStays ==
  ASSUME NEW s, NEW ep, NEW b, s \in Nat, b \in Nat, NEW h \in Reach(s, ep, b), NEW t \in Threads
  PROVE  AppendRemoved(h, t) \in Reach(s, ep, b + 1)
<1>1. h \in Hubs /\ IsFiniteSet(h.inFlight)
      /\ \A u \in Threads : h.held[u] \in Nat /\ h.held[u] <= b /\ h.held[u] <= b + 1
  BY DEF Reach, HubSound, Hubs
<1>2. SameEvents(h, h)
  BY DEF SameEvents
<1>3. h \in Reach(s, ep, b + 1)
  BY <1>1, <1>2, EditStays
<1>4. CASE h.held[t] > 0
  <2> DEFINE g == [h EXCEPT !.held[t] = @ + 1]
  <2>1. g \in Hubs /\ SameEvents(g, h) /\ g.inFlight = h.inFlight
        /\ \A u \in Threads : g.held[u] <= b + 1
    <3> DEFINE d == [h.held EXCEPT ![t] = @ + 1]
    <3>1. d \in [Threads -> Nat] /\ \A u \in Threads : d[u] <= b + 1
      BY <1>1 DEF Hubs
    <3>2. g = [h EXCEPT !.held = d]
      BY <1>1 DEF Hubs
    <3> HIDE DEF d, g
    <3> QED BY <1>1, <3>1, <3>2 DEF Hubs, SameEvents
  <2>2. AppendRemoved(h, t) = g
    BY <1>4 DEF AppendRemoved
  <2> HIDE DEF g
  <2> QED BY <1>1, <2>1, <2>2, EditStays
<1>5. CASE ~ (h.held[t] > 0) /\ h.visible[t] = "unknown"
  <2> DEFINE g == [h EXCEPT !.held[t] = 1,
                            !.asked = Append(@, [kind |-> "visible", thread |-> t])]
  <2>1. Append(h.asked, [kind |-> "visible", thread |-> t]) \in Seq(Requests)
    BY <1>1 DEF Hubs, Requests
  <2>2. g \in Hubs /\ SameEvents(g, h) /\ g.inFlight = h.inFlight
        /\ \A u \in Threads : g.held[u] <= b + 1
    <3> DEFINE d == [h.held EXCEPT ![t] = 1]
               q == Append(h.asked, [kind |-> "visible", thread |-> t])
    <3>1. d \in [Threads -> Nat] /\ \A u \in Threads : d[u] <= b + 1
      BY <1>1 DEF Hubs
    <3>2. g = [h EXCEPT !.held = d, !.asked = q]
      BY <1>1 DEF Hubs
    <3>3. q \in Seq(Requests)
      BY <2>1
    <3> HIDE DEF d, q, g
    <3> QED BY <1>1, <3>1, <3>2, <3>3 DEF Hubs, SameEvents
  <2>3. AppendRemoved(h, t) = g
    BY <1>5 DEF AppendRemoved
  <2> HIDE DEF g
  <2> QED BY <1>1, <2>2, <2>3, EditStays
<1>6. CASE ~ (h.held[t] > 0) /\ h.visible[t] = "yes"
  <2>1. AppendRemoved(h, t) = Append1(h, t, Unlisted) /\ Unlisted \in Values
    BY <1>6 DEF AppendRemoved, Values
  <2> QED BY <1>3, <2>1, Append1Stays
<1>7. CASE ~ (h.held[t] > 0) /\ h.visible[t] \notin {"unknown", "yes"}
  <2>1. AppendRemoved(h, t) = Slip(h, {t})
    BY <1>7 DEF AppendRemoved
  <2> QED BY <1>3, <2>1, SlipStays
<1> QED BY <1>4, <1>5, <1>6, <1>7

\* releaseHeld appends the removals it held.
LEMMA AppendHeldStays ==
  ASSUME NEW s, NEW ep, NEW b, s \in Nat, NEW h \in Reach(s, ep, b), NEW t \in Threads, b \in Nat
  PROVE  AppendHeld(h, t) \in Reach(s, ep, b)
<1> DEFINE g == [h EXCEPT !.held[t] = 0, !.visible[t] = "yes"]
           q == [i \in 1 .. h.held[t] |-> t]
           slips == IF inbox[t] # Unlisted /\ t \notin ToSet(h.pending) \cup h.inFlight THEN {t} ELSE {}
<1>1. h \in Hubs /\ IsFiniteSet(h.inFlight) /\ h.held[t] \in Nat
      /\ \A u \in Threads : h.held[u] <= b
  BY DEF Reach, HubSound, Hubs
<1>2. g \in Hubs /\ SameEvents(g, h) /\ g.inFlight = h.inFlight
      /\ \A u \in Threads : g.held[u] <= b
  <2> DEFINE d == [h.held EXCEPT ![t] = 0]
             w == [h.visible EXCEPT ![t] = "yes"]
  <2>1. d \in [Threads -> Nat] /\ \A u \in Threads : d[u] <= b
    BY <1>1 DEF Hubs
  <2>2. w \in [Threads -> {"unknown", "yes", "no"}]
    BY <1>1 DEF Hubs
  <2>3. g = [h EXCEPT !.held = d, !.visible = w]
    BY <1>1 DEF Hubs
  <2> HIDE DEF d, w, g
  <2> QED BY <1>1, <2>1, <2>2, <2>3 DEF Hubs, SameEvents
<1>3. q \in Seq(Threads)
  BY <1>1
<1> HIDE DEF g, q
<1> DEFINE T == Reach(s, ep, b)
<1>4. g \in T
  BY <1>1, <1>2, EditStays
<1>5. \A x \in T, u \in Threads : Append1(x, u, Unlisted) \in T
  <2>1. Unlisted \in Values
    BY DEF Values
  <2> QED BY <2>1, Append1Stays
<1> HIDE DEF T
<1> DEFINE f == FoldLeft(LAMBDA x, u : Append1(x, u, Unlisted), g, q)
<1>6. f \in T
  BY <1>3, <1>4, <1>5, FoldAppend1
<1>7. AppendHeld(h, t) = Slip(f, slips)
  BY Zenon DEF AppendHeld, g, q
<1> HIDE DEF f
<1>8. slips \in SUBSET Threads
  OBVIOUS
<1> HIDE DEF slips
<1> QED BY <1>6, <1>7, <1>8, SlipStays DEF T

--------------------------------------------------------------------------------
(* The replay.                                                               *)

\* A list of the elements of a finite set has all of them.
LEMMA Enumerated ==
  ASSUME NEW S, IsFiniteSet(S), NEW s \in SetToSeqs(S)
  PROVE  s \in Seq(S) /\ ToSet(s) = S
<1> DEFINE n == Cardinality(S)
<1>1. n \in Nat /\ IsFiniteSet(1 .. n) /\ Cardinality(1 .. n) = n
  <2>1. n \in Nat
    BY FS_CardinalityType
  <2> HIDE DEF n
  <2> QED BY <2>1, FS_Interval
<1>2. s \in [1 .. n -> S] /\ \A i, j \in 1 .. n : i # j => s[i] # s[j]
  BY DEF SetToSeqs
<1>3. s \in Surjection(1 .. n, S)
  <2>1. s \in Injection(1 .. n, S)
    BY <1>2 DEF Injection, IsInjective
  <2> QED BY <1>1, <2>1, FS_Injection
<1> HIDE DEF n
<1>4. s \in Seq(S) /\ Len(s) = n
  BY <1>1, <1>2
<1> QED BY <1>3, <1>4 DEF Surjection, ToSet

\* Distinct numbers put a finite set of entries in an order.
LEMMA AscendingRises ==
  ASSUME NEW S \in SUBSET Entries, IsFiniteSet(S),
         \A x, y \in S : x.seq = y.seq => x = y
  PROVE  /\ Ascending(S) \in SetToSeqs(S) /\ Ascending(S) \in Seq(S)
         /\ Rising(Ascending(S))
<1> DEFINE n == Cardinality(S)
           Below(x) == {y \in S : y.seq <= x.seq}
           rank == [x \in S |-> Cardinality(Below(x))]
<1>1. n \in Nat /\ IsFiniteSet(1 .. n) /\ Cardinality(1 .. n) = n
  <2>1. n \in Nat
    BY FS_CardinalityType
  <2> HIDE DEF n
  <2> QED BY <2>1, FS_Interval
<1>2. \A x \in S : x.seq \in Nat
  BY DEF Entries, Seqs
<1>3. ASSUME NEW x \in S
      PROVE  IsFiniteSet(Below(x)) /\ Cardinality(Below(x)) \in 1 .. n
  <2>1. Below(x) \in SUBSET S /\ x \in Below(x)
    BY <1>2
  <2> HIDE DEF Below
  <2>2. IsFiniteSet(Below(x)) /\ Cardinality(Below(x)) <= n
    BY <2>1, FS_Subset
  <2>3. Cardinality(Below(x)) \in Nat /\ Cardinality(Below(x)) # 0
    BY <2>1, <2>2, FS_CardinalityType, FS_EmptySet
  <2> HIDE DEF n
  <2> QED BY <1>1, <2>2, <2>3
<1>4. ASSUME NEW x \in S, NEW y \in S, x.seq <= y.seq
      PROVE  /\ Cardinality(Below(x)) <= Cardinality(Below(y))
             /\ Cardinality(Below(x)) = Cardinality(Below(y)) => x = y
  <2>1. Below(x) \in SUBSET Below(y) /\ y \in Below(y)
    BY <1>2, <1>4
  <2>2. y \in Below(x) => x.seq = y.seq
    BY <1>2, <1>4
  <2>3. IsFiniteSet(Below(y))
    BY <1>3
  <2> HIDE DEF Below
  <2>4. /\ Cardinality(Below(x)) <= Cardinality(Below(y))
        /\ Cardinality(Below(x)) = Cardinality(Below(y)) => Below(x) = Below(y)
    BY <2>1, <2>3, FS_Subset
  <2> QED BY <2>1, <2>2, <2>4
<1> HIDE DEF Below, n
<1>5. rank \in [S -> 1 .. n] /\ \A x \in S : rank[x] = Cardinality(Below(x))
  BY <1>3
<1> HIDE DEF rank
<1>6. rank \in Injection(S, 1 .. n)
  <2> SUFFICES ASSUME NEW x \in S, NEW y \in S, rank[x] = rank[y] PROVE x = y
    BY <1>5 DEF Injection, IsInjective
  <2>1. x.seq <= y.seq \/ y.seq <= x.seq
    BY <1>2
  <2> QED BY <1>4, <1>5, <2>1
<1>7. \A i \in 1 .. n : \E x \in S : rank[x] = i
  <2>1. rank \in Surjection(S, 1 .. n)
    BY <1>1, <1>6, FS_Injection DEF n
  <2> QED BY <2>1 DEF Surjection
<1> DEFINE f == [i \in 1 .. n |-> CHOOSE x \in S : rank[x] = i]
<1>8. f \in [1 .. n -> S] /\ \A i \in 1 .. n : rank[f[i]] = i
  BY <1>7
<1> HIDE DEF f
<1>9. f \in SetToSeqs(S) /\ Len(f) = n
  BY <1>1, <1>8 DEF SetToSeqs, n
<1>10. ASSUME NEW i \in 1 .. n, NEW j \in 1 .. n, i < j PROVE f[i].seq < f[j].seq
  <2>1. f[i] \in S /\ f[j] \in S /\ rank[f[i]] = i /\ rank[f[j]] = j
    BY <1>8
  <2>2. ~ (f[j].seq <= f[i].seq)
    <3>1. f[j].seq <= f[i].seq => j <= i
      BY <1>4, <1>5, <2>1
    <3> QED BY <1>1, <1>10, <3>1
  <2> QED BY <1>2, <2>1, <2>2
<1> DEFINE Good(s) == \A i, j \in 1 .. Len(s) : i < j => s[i].seq < s[j].seq
<1>11. Good(f)
  BY <1>9, <1>10
<1> HIDE DEF Good
<1>12. Ascending(S) \in SetToSeqs(S) /\ Good(Ascending(S))
  <2>1. Ascending(S) = CHOOSE s \in SetToSeqs(S) : Good(s)
    BY DEF Ascending, Good
  <2> QED BY <1>9, <1>11, <2>1
<1>13. Ascending(S) \in Seq(S)
  BY <1>1, <1>12 DEF SetToSeqs, n
<1> QED BY <1>12, <1>13 DEF Good, Rising

\* What is replayed after a cursor has the numbers from there to the head, each
\* once.
LEMMA ReplayRises ==
  ASSUME HubSound(hub), link \in Links, NEW c \in Nat
  PROVE  /\ Replay(c) \in Seq(Entries) /\ Rising(Replay(c)) /\ Between(Replay(c), c, hub.seq)
         /\ ToSet(Replay(c)) = Compacted({e \in ToSet(hub.ring) : e.seq > c} \cup FromJournal(c))
<1> DEFINE R == {e \in ToSet(hub.ring) : e.seq > c}
           A == {[seq |-> hub.journal[t].seq, thread |-> t, value |-> link.fetched[t].value] :
                   t \in {u \in JournalSummaryIds(c) : link.fetched[u].value # Unlisted}}
           B == {[seq |-> hub.journal[t].seq, thread |-> t, value |-> Unlisted] :
                   t \in {u \in Threads : /\ hub.journal[u].kind = "removed"
                                          /\ hub.journal[u].seq > c
                                          /\ hub.journal[u].seq <= hub.ringFloor}}
           S == Compacted(R \cup FromJournal(c))
<1>1. /\ hub.ring \in Seq(Entries) /\ hub.journal \in [Threads -> JournalEntries]
      /\ hub.seq \in Nat /\ hub.ringFloor \in Nat /\ link.fetched \in [Threads -> Fetched]
  BY DEF HubSound, Hubs, Links
<1>2. \A t \in Threads : /\ hub.journal[t].seq \in Nat /\ hub.journal[t].seq <= hub.seq
                         /\ link.fetched[t].value \in Values
  BY <1>1 DEF HubSound, JournalSound, JournalNumbers, JournalEntries, Seqs, Fetched
<1>3. \A e \in R : \E i \in 1 .. Len(hub.ring) : e = hub.ring[i]
  BY <1>1 DEF ToSet
<1>4. /\ Rising(hub.ring) /\ Between(hub.ring, hub.ringFloor, hub.seq)
      /\ Apart(hub.journal, hub.ring)
  BY DEF HubSound, RingSound
<1>5. \A e \in R : /\ e \in Entries /\ e.seq \in Nat /\ c < e.seq /\ e.seq <= hub.seq
                   /\ hub.ringFloor < e.seq
  <2> SUFFICES ASSUME NEW e \in R
               PROVE  /\ e \in Entries /\ e.seq \in Nat /\ c < e.seq /\ e.seq <= hub.seq
                      /\ hub.ringFloor < e.seq
    OBVIOUS
  <2>1. PICK i \in 1 .. Len(hub.ring) : e = hub.ring[i]
    BY <1>3
  <2>2. e \in Entries
    BY <1>1, <2>1
  <2>3. e.seq \in Nat
    BY <2>2 DEF Entries, Seqs
  <2> QED BY <1>4, <2>1, <2>2, <2>3 DEF Between
<1>6. \A e \in A : /\ e.thread \in Threads /\ e.seq = hub.journal[e.thread].seq /\ c < e.seq
                   /\ e = [seq |-> hub.journal[e.thread].seq, thread |-> e.thread,
                           value |-> link.fetched[e.thread].value]
                   /\ \/ hub.journal[e.thread].kind = "deferred"
                      \/ /\ hub.journal[e.thread].kind = "summary"
                         /\ e.seq <= hub.ringFloor
  BY <1>2 DEF JournalSummaryIds
<1>7. \A e \in B : /\ e.thread \in Threads /\ e.seq = hub.journal[e.thread].seq /\ c < e.seq
                   /\ e = [seq |-> hub.journal[e.thread].seq, thread |-> e.thread, value |-> Unlisted]
                   /\ hub.journal[e.thread].kind = "removed"
                   /\ e.seq <= hub.ringFloor
  BY <1>2
<1>8. S \subseteq R \cup A \cup B
  BY DEF Compacted, FromJournal
<1> HIDE DEF R, A, B
<1>9. \A e \in A \cup B : e \in Entries /\ e.seq \in Nat /\ c < e.seq /\ e.seq <= hub.seq
  BY <1>2, <1>6, <1>7 DEF Entries, Seqs, Values
<1>10. ASSUME NEW x \in R \cup A \cup B, NEW y \in R \cup A \cup B, x.seq = y.seq PROVE x = y
  <2>1. ASSUME NEW a \in R, NEW b \in R, a.seq = b.seq PROVE a = b
    <3>1. PICK i \in 1 .. Len(hub.ring) : a = hub.ring[i]
      BY <1>3
    <3>2. PICK j \in 1 .. Len(hub.ring) : b = hub.ring[j]
      BY <1>3
    <3>3. i = j
      <4>1. ~ (i < j) /\ ~ (j < i)
        BY <1>4, <1>5, <2>1, <3>1, <3>2 DEF Rising
      <4> QED BY <4>1
    <3> QED BY <3>1, <3>2, <3>3
  <2>2. ASSUME NEW a \in R, NEW b \in A \cup B PROVE a.seq # b.seq
    <3>1. PICK i \in 1 .. Len(hub.ring) : a = hub.ring[i]
      BY <1>3
    <3>2. CASE b \in A /\ hub.journal[b.thread].kind = "deferred"
      BY <1>4, <1>6, <3>1, <3>2 DEF Apart
    <3>3. CASE b.seq <= hub.ringFloor
      BY <1>1, <1>5, <1>9, <3>3
    <3> QED BY <1>6, <1>7, <3>2, <3>3
  <2>3. ASSUME NEW a \in A \cup B, NEW b \in A \cup B, a.seq = b.seq PROVE a = b
    <3>1. /\ a.thread \in Threads /\ b.thread \in Threads
          /\ hub.journal[a.thread].seq = hub.journal[b.thread].seq
          /\ hub.journal[a.thread].seq # 0
      BY <1>6, <1>7, <1>9, <2>3
    <3>2. a.thread \in Recorded(hub.journal) /\ b.thread \in Recorded(hub.journal)
      BY <3>1 DEF Recorded, NoEntry
    <3>3. a.thread = b.thread
      BY <3>1, <3>2 DEF HubSound, JournalSound, JournalNumbers
    <3> QED BY <1>6, <1>7, <3>3
  <2> QED BY <1>10, <2>1, <2>2, <2>3
<1>11. /\ S \in SUBSET Entries /\ \A x, y \in S : x.seq = y.seq => x = y
       /\ \A x \in S : c < x.seq /\ x.seq <= hub.seq /\ x.seq \in Nat
  BY <1>5, <1>8, <1>9, <1>10
<1>12. Replay(c) = Ascending(S)
  BY DEF Replay, R
<1> HIDE DEF S
<1>13. IsFiniteSet(S)
  <2> DEFINE number == [x \in S |-> x.seq]
  <2>1. number \in Injection(S, 0 .. hub.seq)
    BY <1>1, <1>11 DEF Injection, IsInjective
  <2>2. IsFiniteSet(0 .. hub.seq)
    BY <1>1, FS_Interval
  <2> QED BY <2>1, <2>2, FS_Injection
<1>14. Ascending(S) \in Seq(S) /\ Rising(Ascending(S))
  BY <1>11, <1>13, AscendingRises
<1>15. Ascending(S) \in Seq(Entries) /\ Between(Ascending(S), c, hub.seq)
  BY <1>11, <1>14 DEF Between
<1>16. ToSet(Ascending(S)) = S
  BY <1>11, <1>13, AscendingRises, Enumerated
<1>17. S = Compacted({e \in ToSet(hub.ring) : e.seq > c} \cup FromJournal(c))
  BY DEF S, R
<1> QED BY <1>12, <1>14, <1>15, <1>16, <1>17, Zenon

--------------------------------------------------------------------------------
(* The wire.                                                                 *)

\* What is on the wire has rising numbers up to the head: above the cursor, if the
\* phone is of the epoch, and above the reply, if the phone is to list anew.
WireSound(k, cursor, epoch, seq) ==
  LET wire == k.pushes \o k.queued
  IN  /\ k \in Links
      /\ k.mode \in {"none", "idle", "resuming"} =>
           k.pushes = <<>> /\ k.queued = <<>> /\ k.reply = <<>>
      /\ k.mode = "resuming" => k.from = cursor
      /\ k.mode # "replaying" => k.queued = <<>>
      /\ k.through <= seq
      /\ Rising(wire) /\ Between(wire, 0, seq)
      /\ cursor.epoch = epoch => cursor.seq <= seq /\ Between(wire, cursor.seq, seq)
      /\ Len(k.reply) <= 1
      /\ k.reply # <<>> =>
           /\ k.reply[1].epoch = epoch /\ k.reply[1].seq <= seq
           /\ k.reply[1].resumed \/ Between(wire, k.reply[1].seq, seq)

\* Numbers within limits are within wider ones.
LEMMA BetweenWider ==
  ASSUME NEW q \in Seq(Entries), NEW low \in Nat, NEW high \in Nat, Between(q, low, high),
         NEW l \in Nat, NEW h \in Nat, l <= low, high <= h
  PROVE  Between(q, l, h)
BY EntryNumbers DEF Between

\* Rising numbers go on with higher rising numbers.
LEMMA RisingConcat ==
  ASSUME NEW q \in Seq(Entries), NEW r \in Seq(Entries), NEW low \in Nat, NEW n \in Nat,
         NEW m \in Nat, low <= n, n <= m, Rising(q), Rising(r), Between(q, low, n), Between(r, n, m)
  PROVE  q \o r \in Seq(Entries) /\ Rising(q \o r) /\ Between(q \o r, low, m)
<1> DEFINE w == q \o r
<1>1. /\ w \in Seq(Entries) /\ Len(w) = Len(q) + Len(r) /\ Len(q) \in Nat /\ Len(r) \in Nat
      /\ \A i \in 1 .. Len(w) : w[i] = IF i <= Len(q) THEN q[i] ELSE r[i - Len(q)]
  OBVIOUS
<1> HIDE DEF w
<1>2. /\ \A i \in 1 .. Len(q) : q[i].seq \in Nat /\ low < q[i].seq /\ q[i].seq <= n
      /\ \A i \in 1 .. Len(r) : r[i].seq \in Nat /\ n < r[i].seq /\ r[i].seq <= m
  BY EntryNumbers DEF Between
<1>3. \A i \in 1 .. Len(w) : i <= Len(q) \/ i - Len(q) \in 1 .. Len(r)
  BY <1>1
<1>4. Between(w, low, m)
  <2> SUFFICES ASSUME NEW i \in 1 .. Len(w) PROVE low < w[i].seq /\ w[i].seq <= m
    BY DEF Between
  <2>1. CASE i <= Len(q)
    <3>1. i \in 1 .. Len(q) /\ w[i] = q[i]
      BY <1>1, <2>1
    <3> QED BY <1>2, <3>1
  <2>2. CASE ~ (i <= Len(q))
    <3>1. i - Len(q) \in 1 .. Len(r) /\ w[i] = r[i - Len(q)]
      BY <1>1, <2>2
    <3> QED BY <1>2, <3>1
  <2> QED BY <2>1, <2>2
<1>5. Rising(w)
  <2> SUFFICES ASSUME NEW i \in 1 .. Len(w), NEW j \in 1 .. Len(w), i < j
               PROVE  w[i].seq < w[j].seq
    BY DEF Rising
  <2>1. CASE j <= Len(q)
    <3>1. i \in 1 .. Len(q) /\ j \in 1 .. Len(q) /\ w[i] = q[i] /\ w[j] = q[j]
      BY <1>1, <2>1
    <3> QED BY <3>1 DEF Rising
  <2>2. CASE i <= Len(q) /\ ~ (j <= Len(q))
    <3>1. i \in 1 .. Len(q) /\ j - Len(q) \in 1 .. Len(r)
      BY <1>1, <1>3, <2>2
    <3>2. w[i] = q[i]
      BY <1>1, <2>2
    <3>3. w[j] = r[j - Len(q)]
      <4>1. w[j] = IF j <= Len(q) THEN q[j] ELSE r[j - Len(q)]
        BY <1>1
      <4> QED BY <2>2, <4>1
    <3>4. q[i].seq \in Nat /\ q[i].seq <= n
      BY <1>2, <3>1
    <3>5. r[j - Len(q)].seq \in Nat /\ n < r[j - Len(q)].seq
      BY <1>2, <3>1
    <3> QED BY <3>2, <3>3, <3>4, <3>5
  <2>3. CASE ~ (i <= Len(q))
    <3>1. ~ (j <= Len(q)) /\ i - Len(q) < j - Len(q)
      BY <1>1, <2>3
    <3>2. i - Len(q) \in 1 .. Len(r) /\ j - Len(q) \in 1 .. Len(r)
      BY <1>3, <2>3, <3>1
    <3>3. w[i] = r[i - Len(q)] /\ w[j] = r[j - Len(q)]
      BY <1>1, <2>3, <3>1
    <3> QED BY <3>1, <3>2, <3>3 DEF Rising
  <2> QED BY <1>1, <2>1, <2>2, <2>3
<1> QED BY <1>1, <1>4, <1>5 DEF w

\* A sequence of nothing rises, between any numbers.
LEMMA EmptyWire ==
  ASSUME NEW low, NEW high
  PROVE  Rising(<<>>) /\ Between(<<>>, low, high)
BY DEF Rising, Between

\* The head of the hub moves on.
LEMMA WireLater ==
  ASSUME NEW k, NEW c \in Cursors, NEW e, NEW n \in Nat, NEW m \in Nat, n <= m,
         WireSound(k, c, e, n)
  PROVE  WireSound(k, c, e, m)
<1> DEFINE w == k.pushes \o k.queued
<1>1. /\ k \in Links /\ k.through \in Nat /\ w \in Seq(Entries) /\ k.reply \in Seq(Replies)
      /\ c.seq \in Nat
  BY DEF WireSound, Links, Cursors
<1>2. /\ Rising(w) /\ Between(w, 0, n) /\ (c.epoch = e => c.seq <= n /\ Between(w, c.seq, n))
      /\ k.through <= n
  BY DEF WireSound
<1>3. ASSUME k.reply # <<>>
      PROVE  k.reply[1].seq \in Nat /\ k.reply[1].seq <= n
             /\ (k.reply[1].resumed \/ Between(w, k.reply[1].seq, n))
  <2>1. k.reply[1] \in Replies
    BY <1>1, <1>3
  <2> QED BY <1>3, <2>1 DEF WireSound, Replies
<1> HIDE DEF w
<1>4. Between(w, 0, m) /\ (c.epoch = e => c.seq <= m /\ Between(w, c.seq, m)) /\ k.through <= m
  BY <1>1, <1>2, BetweenWider
<1>5. ASSUME k.reply # <<>>
      PROVE  k.reply[1].seq <= m /\ (k.reply[1].resumed \/ Between(w, k.reply[1].seq, m))
  BY <1>1, <1>3, <1>5, BetweenWider
<1> QED BY <1>1, <1>2, <1>4, <1>5 DEF WireSound, w

\* Higher numbers follow what is on the wire.
LEMMA WireGrows ==
  ASSUME NEW k, NEW c \in Cursors, NEW e, NEW n \in Nat, NEW m \in Nat, n <= m,
         WireSound(k, c, e, n), k.mode \in {"replaying", "live"},
         NEW out \in Seq(Entries), Rising(out), Between(out, n, m),
         NEW l \in Links, l.mode = k.mode, l.mode = "live" => l.queued = <<>>,
         l.reply = k.reply, l.through <= m,
         l.pushes \o l.queued = (k.pushes \o k.queued) \o out
  PROVE  WireSound(l, c, e, m)
<1> DEFINE w == k.pushes \o k.queued
           v == l.pushes \o l.queued
<1>1. /\ k \in Links /\ w \in Seq(Entries) /\ k.reply \in Seq(Replies) /\ c.seq \in Nat
  BY DEF WireSound, Links, Cursors
<1>2. Rising(w) /\ Between(w, 0, n) /\ (c.epoch = e => c.seq <= n /\ Between(w, c.seq, n))
  BY DEF WireSound
<1>3. v = w \o out
  OBVIOUS
<1>4. ASSUME k.reply # <<>>
      PROVE  /\ k.reply[1].epoch = e /\ k.reply[1].seq \in Nat /\ k.reply[1].seq <= n
             /\ (k.reply[1].resumed \/ Between(w, k.reply[1].seq, n))
  <2>1. k.reply[1] \in Replies
    BY <1>1, <1>4
  <2> QED BY <1>4, <2>1 DEF WireSound, Replies
<1>5. Len(k.reply) <= 1 /\ l.mode \notin {"none", "idle", "resuming"}
      /\ (l.mode # "replaying" => l.queued = <<>>)
  BY DEF WireSound
<1> HIDE DEF w, v
<1>6. ASSUME NEW low \in Nat, Between(w, low, n), low <= n PROVE Between(v, low, m) /\ Rising(v)
  BY <1>1, <1>2, <1>3, <1>6, RisingConcat
<1>7. Rising(v) /\ Between(v, 0, m)
  BY <1>2, <1>6
<1>8. c.epoch = e => c.seq <= m /\ Between(v, c.seq, m)
  BY <1>1, <1>2, <1>6
<1>9. ASSUME k.reply # <<>>
      PROVE  k.reply[1].seq <= m /\ (k.reply[1].resumed \/ Between(v, k.reply[1].seq, m))
  BY <1>4, <1>6, <1>9
<1> QED BY <1>4, <1>5, <1>7, <1>8, <1>9 DEF WireSound, v

\* News goes behind what is on the wire, all of it.
LEMMA DeliverSound ==
  ASSUME WireSound(link, phone.cursor, hub.epoch, hub.seq), phone.cursor \in Cursors,
         hub.seq \in Nat, NEW b, NEW h \in Reach(hub.seq, hub.epoch, b)
  PROVE  /\ WireSound(Deliver(h), phone.cursor, h.epoch, h.seq)
         /\ Deliver(h).mode = link.mode
<1> DEFINE n == hub.seq
           m == h.seq
           c == phone.cursor
           out == h.outgoing
           news == {e \in ToSet(out) : e.seq > link.through}
           wanted == Kept(out, news)
           w == link.pushes \o link.queued
<1>1. /\ h \in Hubs /\ h.epoch = hub.epoch /\ n <= m /\ m \in Nat /\ n \in Nat
      /\ out \in Seq(Entries) /\ Rising(out) /\ Between(out, n, m)
  BY DEF Reach, HubSound, Hubs
<1>2. /\ link \in Links /\ link.through \in Nat /\ link.through <= n
      /\ link.pushes \in Seq(Entries) /\ link.queued \in Seq(Entries) /\ w \in Seq(Entries)
      /\ c.seq \in Nat
  BY DEF WireSound, Links, Cursors
<1>3. wanted = out
  <2>1. ToSet(out) \subseteq news
    <3>1. \A i \in 1 .. Len(out) : out[i].seq \in Nat /\ n < out[i].seq
      <4> HIDE DEF out, n, m
      <4>1. \A i \in 1 .. Len(out) : n < out[i].seq
        BY <1>1 DEF Between
      <4>2. \A i \in 1 .. Len(out) : out[i].seq \in Nat
        BY <1>1, EntryNumbers
      <4> QED BY <4>1, <4>2
    <3> SUFFICES ASSUME NEW e \in ToSet(out) PROVE e.seq > link.through
      OBVIOUS
    <3>2. PICK i \in 1 .. Len(out) : e = out[i]
      BY <1>1 DEF ToSet
    <3> HIDE DEF out, n
    <3>3. e.seq \in Nat /\ n < e.seq
      BY <3>1, <3>2
    <3> QED BY <1>1, <1>2, <3>3
  <2> HIDE DEF news, out
  <2> QED BY <1>1, <2>1, KeptAll
<1>4. WireSound(link, c, h.epoch, n) /\ c \in Cursors
  BY <1>1
<1>5. CASE link.mode = "live" /\ out # <<>>
  <2> DEFINE k == [link EXCEPT !.pushes = @ \o out, !.through = out[Len(out)].seq]
  <2>1. Deliver(h) = k
    BY <1>3, <1>5 DEF Deliver
  <2>2. link.queued = <<>> /\ w = link.pushes /\ link.pushes \o out \in Seq(Entries)
    <3>1. link.queued = <<>>
      BY <1>5 DEF WireSound
    <3>2. link.pushes \o <<>> = link.pushes /\ link.pushes \o out \in Seq(Entries)
      BY <1>1, <1>2, Joining
    <3> QED BY <3>1, <3>2
  <2>3. Len(out) \in 1 .. Len(out)
    BY <1>1, <1>5
  <2>4. out[Len(out)].seq \in Nat /\ out[Len(out)].seq <= m
    BY <1>1, <2>3, EntryNumbers DEF Between
  <2>5. /\ k \in Links /\ k.mode = link.mode /\ k.pushes = link.pushes \o out /\ k.queued = <<>>
        /\ k.reply = link.reply /\ k.through <= m
    BY <1>2, <2>2, <2>4 DEF Links
  <2> HIDE DEF k
  <2>6. k.pushes \o k.queued = w \o out
    <3>1. (link.pushes \o out) \o <<>> = link.pushes \o out
      BY <2>2, Joining
    <3> QED BY <2>2, <2>5, <3>1, Zenon
  <2>7. WireSound(k, c, h.epoch, m)
    <3> HIDE DEF c, n, m, out, w
    <3>1. link.mode \in {"replaying", "live"} /\ (link.pushes \o link.queued) = w
      BY <1>5 DEF w
    <3> QED BY <1>1, <1>4, <2>5, <2>6, <3>1, WireGrows
  <2> QED BY <2>1, <2>5, <2>7
<1>6. CASE link.mode = "replaying"
  <2> DEFINE k == [link EXCEPT !.queued = @ \o out]
  <2>1. Deliver(h) = k
    BY <1>3, <1>6 DEF Deliver
  <2>2. /\ k \in Links /\ k.mode = link.mode /\ k.pushes = link.pushes
        /\ k.queued = link.queued \o out /\ k.reply = link.reply /\ k.through = link.through
    <3> DEFINE q == link.queued \o out
    <3>1. q \in Seq(Entries) /\ k = [link EXCEPT !.queued = q]
      BY <1>1, <1>2
    <3>2. q = link.queued \o out
      OBVIOUS
    <3> HIDE DEF q, out, k
    <3> QED BY <1>2, <3>1, <3>2 DEF Links
  <2> HIDE DEF k
  <2>3. k.pushes \o k.queued = w \o out
    <3> DEFINE x == link.pushes
               y == link.queued
    <3>1. x \in Seq(Entries) /\ y \in Seq(Entries) /\ out \in Seq(Entries)
      BY <1>1, <1>2
    <3> HIDE DEF out, x, y
    <3>2. (x \o y) \o out = x \o (y \o out)
      BY ONLY <3>1, ConcatAssociative
    <3> QED BY <2>2, <3>2, Zenon DEF x, y
  <2>4. WireSound(k, c, h.epoch, m)
    <3>1. link.mode \in {"replaying", "live"} /\ (link.pushes \o link.queued) = w /\ k.through <= m
          /\ k.mode # "live"
      BY <1>1, <1>2, <1>6, <2>2
    <3> HIDE DEF c, n, m, out, w
    <3> QED BY <1>1, <1>4, <2>2, <2>3, <3>1, WireGrows
  <2> QED BY <2>1, <2>2, <2>4
<1>7. CASE link.mode # "replaying" /\ ~ (link.mode = "live" /\ out # <<>>)
  <2>1. Deliver(h) = link
    BY <1>3, <1>7 DEF Deliver
  <2>2. WireSound(link, c, h.epoch, m)
    <3> HIDE DEF c, n, m
    <3> QED BY <1>1, <1>4, WireLater
  <2> QED BY <2>1, <2>2
<1> QED BY <1>5, <1>6, <1>7

--------------------------------------------------------------------------------
(* The invariant is inductive.                                               *)

\* The types of what is not the hub or the link
VarsOK ==
  /\ inbox \in [Threads -> Values]
  /\ events \in 0 .. MaxEvents /\ links \in 0 .. MaxLinks /\ starts \in 1 .. MaxStarts
  /\ lost \in SUBSET Threads /\ fresher \in SUBSET Threads
  /\ phone \in Phones /\ saved \in Files

\* The hub is sound and has told everything; its epoch is at most the number of
\* starts, and it holds no more removals of a thread than there were.
HubOK(h, most, removals) ==
  /\ HubSound(h) /\ h.outgoing = <<>>
  /\ h.epoch <= most
  /\ \A t \in Threads : h.held[t] <= removals

\* The part of the hub
HubInv == HubOK(hub, starts, events)

\* The part of the file: while the hub runs it is not clean, and a clean file
\* reaches as far as the phone.  Without it a restored hub could be behind.
FileInv ==
  /\ hub.up => ~ saved.clean
  /\ saved.clean =>
       /\ saved.epoch = hub.epoch
       /\ JournalSound(saved.journal, saved.seq) /\ saved.journalFloor <= saved.seq
       /\ phone.cursor.epoch = saved.epoch => phone.cursor.seq <= saved.seq

\* The part of the wire; no phone is of a later epoch than the hub.
WireInv ==
  /\ phone.cursor.epoch <= hub.epoch
  /\ hub.up => WireSound(link, phone.cursor, hub.epoch, hub.seq)
  /\ ~ hub.up => link = Unlinked

\* The inductive invariant
EventsInv == VarsOK /\ HubInv /\ FileInv /\ WireInv

\* A phone that is not connected has nothing on the wire.
LEMMA UnlinkedSound ==
  ASSUME NEW c, NEW e, NEW n \in Nat, c.epoch = e => c.seq <= n
  PROVE  /\ Unlinked \in Links /\ WireSound(Unlinked, c, e, n)
         /\ Unlinked.pushes = <<>> /\ Unlinked.queued = <<>> /\ Unlinked.mode = "none"
         /\ Unlinked.reply = <<>> /\ Unlinked.through = 0
<1>1. /\ Unlinked.pushes = <<>> /\ Unlinked.queued = <<>> /\ Unlinked.mode = "none"
      /\ Unlinked.reply = <<>> /\ Unlinked.through = 0
  BY DEF Unlinked
<1>2. Unlinked \in Links
  <2>1. /\ <<>> \in Seq(Entries) /\ <<>> \in Seq(Replies) /\ [epoch |-> None, seq |-> 0] \in Cursors
        /\ [t \in Threads |-> NotFetched] \in [Threads -> Fetched]
    BY DEF Cursors, None, NotFetched, Fetched, Values, Unlisted
  <2> QED BY <2>1 DEF Unlinked, Links
<1>3. <<>> \o <<>> = <<>>
  OBVIOUS
<1> QED BY <1>1, <1>2, <1>3, EmptyWire DEF WireSound

\* A hub that starts from nothing is sound.
LEMMA EmptySound ==
  ASSUME NEW e \in Nat
  PROVE  /\ Empty(e) \in Hubs /\ HubSound(Empty(e))
         /\ Empty(e).up = TRUE /\ Empty(e).epoch = e /\ Empty(e).seq = 0 /\ Empty(e).outgoing = <<>>
         /\ Empty(e).held = [t \in Threads |-> 0] /\ Empty(e).inFlight = {}
         /\ Empty(e).ring = <<>> /\ Empty(e).ringFloor = 0
<1> DEFINE j == [t \in Threads |-> NoEntry]
<1>1. /\ Empty(e).up = TRUE /\ Empty(e).epoch = e /\ Empty(e).seq = 0 /\ Empty(e).outgoing = <<>>
      /\ Empty(e).held = [t \in Threads |-> 0] /\ Empty(e).inFlight = {}
      /\ Empty(e).ring = <<>> /\ Empty(e).ringFloor = 0
      /\ Empty(e).journal = j /\ Empty(e).journalFloor = 0
  BY DEF Empty
<1>2. Empty(e) \in Hubs
  <2>1. /\ <<>> \in Seq(Entries) /\ <<>> \in Seq(Threads) /\ <<>> \in Seq(Requests)
        /\ j \in [Threads -> JournalEntries]
        /\ [t \in Threads |-> None] \in [Threads -> Values]
        /\ [t \in Threads |-> 0] \in [Threads -> Nat]
        /\ [t \in Threads |-> "unknown"] \in [Threads -> {"unknown", "yes", "no"}]
    BY DEF None, NoEntry, JournalEntries, Seqs, Values, Unlisted
  <2> QED BY <2>1 DEF Empty, Hubs
<1>3. JournalSound(j, 0)
  <2>1. Recorded(j) = {}
    BY DEF Recorded
  <2>2. IsFiniteSet({}) /\ Cardinality({}) = 0
    BY FS_EmptySet
  <2>3. JournalLimit \in Nat
    BY LimitsAssumption
  <2>4. Cardinality(Recorded(j)) <= JournalLimit /\ IsFiniteSet(Recorded(j))
    BY <2>1, <2>2, <2>3
  <2>5. JournalNumbers(j, 0)
    BY <2>1 DEF JournalNumbers, NoEntry
  <2> QED BY <2>4, <2>5 DEF JournalSound
<1>4. RingSound(<<>>, 0, 0) /\ Apart(j, <<>>) /\ Rising(<<>>)
  BY EmptyWire, LimitsAssumption DEF RingSound, Apart
<1>5. IsFiniteSet({})
  BY FS_EmptySet
<1> HIDE DEF j
<1> QED BY <1>1, <1>2, <1>3, <1>4, <1>5 DEF HubSound

\* The invariant holds at first.
LEMMA Initially == Init => EventsInv
<1> SUFFICES ASSUME Init PROVE EventsInv
  OBVIOUS
<1>1. 1 \in Nat /\ MaxStarts \in Nat \ {0} /\ MaxEvents \in Nat /\ MaxLinks \in Nat
  BY LimitsAssumption
<1>2. /\ hub \in Hubs /\ HubSound(hub) /\ hub.up /\ hub.epoch = 1 /\ hub.seq = 0
      /\ hub.outgoing = <<>> /\ hub.held = [t \in Threads |-> 0]
  BY <1>1, EmptySound DEF Init
<1>3. phone.cursor = [epoch |-> None, seq |-> 0] /\ phone \in Phones
  BY DEF Init, Phones, Cursors, None, Values, Unlisted
<1>4. saved \in Files /\ ~ saved.clean
  BY DEF Init, Files, None, NoEntry, JournalEntries, Seqs
<1>5. VarsOK
  BY <1>1, <1>3, <1>4 DEF Init, VarsOK, Values, Unlisted
<1>6. HubInv
  BY <1>2 DEF HubInv, HubOK, Init
<1>7. WireSound(link, phone.cursor, hub.epoch, hub.seq)
  <2>1. link = Unlinked /\ phone.cursor.seq = 0 /\ hub.seq = 0
    BY <1>2, <1>3 DEF Init
  <2> QED BY <2>1, UnlinkedSound
<1>8. WireInv
  BY <1>2, <1>3, <1>7 DEF WireInv, None
<1> QED BY <1>4, <1>5, <1>6, <1>8 DEF EventsInv, FileInv

\* The hub itself is in the set its functions do not leave.
LEMMA HubReach ==
  ASSUME EventsInv, hub.up, NEW b \in Nat, events <= b
  PROVE  hub \in Reach(hub.seq, hub.epoch, b)
<1>1. /\ hub \in Hubs /\ HubSound(hub) /\ hub.outgoing = <<>> /\ hub.held \in [Threads -> Nat]
      /\ hub.seq \in Nat /\ events \in Nat
      /\ \A t \in Threads : hub.held[t] <= events
  BY LimitsAssumption DEF EventsInv, VarsOK, HubInv, HubOK, HubSound, Hubs
<1>2. \A t \in Threads : hub.held[t] <= b
  BY <1>1
<1> QED BY <1>1, <1>2, EmptyWire DEF Reach

\* What the hub has to say is told.
LEMMA BecomeKeeps ==
  ASSUME EventsInv, hub.up, NEW h, h \in Reach(hub.seq, hub.epoch, events'), Become(h),
         inbox' \in [Threads -> Values], events' \in 0 .. MaxEvents,
         UNCHANGED <<links, starts, saved, phone>>
  PROVE  EventsInv'
<1>1. /\ h \in Hubs /\ HubSound(h) /\ h.up /\ h.epoch = hub.epoch /\ hub.seq <= h.seq
      /\ \A t \in Threads : h.held[t] <= events'
  BY DEF Reach
<1>2. /\ hub' = [h EXCEPT !.outgoing = <<>>, !.slipped = {}]
      /\ link' = Deliver(h)
      /\ lost' = (lost \ {e.thread : e \in ToSet(h.outgoing)}) \cup h.slipped
      /\ fresher' = fresher \ {e.thread : e \in ToSet(h.outgoing)}
  BY DEF Become
<1>3. /\ hub' \in Hubs /\ hub'.up /\ hub'.epoch = hub.epoch /\ hub'.seq = h.seq /\ hub'.outgoing = <<>>
      /\ hub'.held = h.held /\ hub'.journal = h.journal /\ hub'.journalFloor = h.journalFloor
      /\ hub'.ring = h.ring /\ hub'.ringFloor = h.ringFloor /\ hub'.inFlight = h.inFlight
  <2>1. <<>> \in Seq(Entries)
    OBVIOUS
  <2> QED BY <1>1, <1>2, <2>1 DEF Hubs
<1>4. HubInv'
  BY <1>1, <1>3, EmptyWire DEF HubInv, HubOK, HubSound, EventsInv
<1>5. VarsOK'
  <2>1. h.slipped \in SUBSET Threads
    BY <1>1 DEF Hubs
  <2> QED BY <1>2, <2>1 DEF VarsOK, EventsInv
<1>6. FileInv'
  BY <1>3 DEF FileInv, EventsInv
<1>7. WireInv'
  <2>1. WireSound(link, phone.cursor, hub.epoch, hub.seq) /\ phone.cursor \in Cursors /\ hub.seq \in Nat
    BY DEF EventsInv, WireInv, VarsOK, HubInv, HubOK, HubSound, Hubs, Phones
  <2>2. WireSound(Deliver(h), phone.cursor, h.epoch, h.seq)
    BY <2>1, DeliverSound
  <2>3. WireSound(link', phone'.cursor, hub'.epoch, hub'.seq)
    BY <1>1, <1>2, <1>3, <2>2
  <2> QED BY <1>3, <2>3 DEF WireInv, EventsInv
<1> QED BY <1>4, <1>5, <1>6, <1>7 DEF EventsInv

\* A step that changes of the hub only what it has to ask and to look up keeps
\* its part of the invariant.
LEMMA HubKeeps ==
  ASSUME HubInv, NEW g \in Hubs, SameEvents(g, hub), IsFiniteSet(g.inFlight),
         \A t \in Threads : g.held[t] <= events
  PROVE  HubOK(g, starts, events)
BY DEF HubInv, HubOK, HubSound, SameEvents

\* An event of the server keeps the invariant, heard or not.
LEMMA EventKeeps ==
  ASSUME EventsInv, NEW t \in Threads, NEW v \in Values, NEW h,
         hub.up => h \in Reach(hub.seq, hub.epoch, events + 1), Event(t, v, h)
  PROVE  EventsInv'
<1>1. /\ events \in Nat /\ events' = events + 1 /\ events' \in 0 .. MaxEvents
      /\ inbox' = [inbox EXCEPT ![t] = v] /\ inbox' \in [Threads -> Values]
      /\ UNCHANGED <<links, starts, saved, phone>>
  BY LimitsAssumption DEF Event, EventsInv, VarsOK
<1>2. CASE hub.up
  <2>1. Become(h)
    BY <1>2 DEF Event
  <2> QED BY <1>1, <1>2, <2>1, BecomeKeeps
<1>3. CASE ~ hub.up
  <2>1. UNCHANGED <<hub, link, fresher>> /\ lost' \in SUBSET Threads
    BY <1>3 DEF Event, EventsInv, VarsOK
  <2>2. hub.held \in [Threads -> Nat]
    BY DEF EventsInv, HubInv, HubOK, HubSound, Hubs
  <2>3. VarsOK'
    BY <1>1, <2>1 DEF EventsInv, VarsOK
  <2>4. HubInv'
    BY <1>1, <2>1, <2>2 DEF EventsInv, HubInv, HubOK
  <2>5. FileInv' /\ WireInv'
    BY <1>1, <1>3, <2>1 DEF EventsInv, FileInv, WireInv
  <2> QED BY <2>3, <2>4, <2>5 DEF EventsInv
<1> QED BY <1>2, <1>3

\* The events of the server, each with what the hub makes of it
LEMMA ServerKeeps == EventsInv /\ ServerStep => EventsInv'
<1> SUFFICES ASSUME EventsInv, ServerStep PROVE EventsInv'
  OBVIOUS
<1>1. events \in Nat /\ events + 1 \in Nat /\ events <= events + 1 /\ hub.seq \in Nat
  BY LimitsAssumption DEF EventsInv, VarsOK, HubInv, HubOK, HubSound, Hubs
<1>2. hub.up => hub \in Reach(hub.seq, hub.epoch, events) /\ hub \in Reach(hub.seq, hub.epoch, events + 1)
  BY <1>1, HubReach
<1>3. ASSUME NEW t \in Threads, NEW v \in Values, Updated(t, v) PROVE EventsInv'
  <2>1. hub.up => Queued(hub, t) \in Reach(hub.seq, hub.epoch, events + 1)
    BY <1>1, <1>2, QueuedStays
  <2>2. Event(t, v, Queued(hub, t))
    BY <1>3 DEF Updated
  <2> QED BY <2>1, <2>2, EventKeeps
<1>4. ASSUME NEW t \in Threads, NEW v \in Values, Listed(t, v) PROVE EventsInv'
  <2>1. hub.up => Queued(hub, t) \in Reach(hub.seq, hub.epoch, events + 1)
    BY <1>1, <1>2, QueuedStays
  <2>2. Event(t, v, Queued(hub, t))
    BY <1>4 DEF Listed
  <2> QED BY <2>1, <2>2, EventKeeps
<1>5. ASSUME NEW t \in Threads, Archived(t) PROVE EventsInv'
  <2>1. hub.up => Flushed(hub) \in Reach(hub.seq, hub.epoch, events)
    BY <1>1, <1>2, FlushedStays
  <2>2. hub.up => AppendRemoved(Flushed(hub), t) \in Reach(hub.seq, hub.epoch, events + 1)
    BY <1>1, <2>1, AppendRemovedStays
  <2>3. Event(t, Unlisted, AppendRemoved(Flushed(hub), t)) /\ Unlisted \in Values
    BY <1>5 DEF Archived, Values
  <2> QED BY <2>2, <2>3, EventKeeps
<1> QED BY <1>3, <1>4, <1>5 DEF ServerStep

\* A hub step that ends in Become
LEMMA TellingKeeps ==
  ASSUME EventsInv, hub.up, NEW h, h \in Reach(hub.seq, hub.epoch, events), Become(h),
         UNCHANGED <<inbox, events, links, starts, saved, phone>>
  PROVE  EventsInv'
<1>1. inbox' \in [Threads -> Values] /\ events' = events /\ events' \in 0 .. MaxEvents
      /\ UNCHANGED <<links, starts, saved, phone>>
  BY DEF EventsInv, VarsOK
<1>2. h \in Reach(hub.seq, hub.epoch, events')
  BY <1>1
<1> QED BY <1>1, <1>2, BecomeKeeps

\* The hub without the first of its requests
LEMMA Answering ==
  ASSUME EventsInv, NEW kind, Answered(kind)
  PROVE  LET h == [hub EXCEPT !.asked = Tail(@)]
         IN  /\ Head(hub.asked).thread \in Threads
             /\ h \in Reach(hub.seq, hub.epoch, events)
             /\ h \in Hubs /\ SameEvents(h, hub) /\ h.inFlight = hub.inFlight /\ h.held = hub.held
             /\ Tail(hub.asked) \in Seq(Requests)
<1> DEFINE h == [hub EXCEPT !.asked = Tail(@)]
<1>1. /\ hub \in Hubs /\ hub.asked \in Seq(Requests) /\ hub.asked # <<>> /\ hub.up
      /\ hub \in Reach(hub.seq, hub.epoch, events)
  <2>1. events \in Nat
    BY LimitsAssumption DEF EventsInv, VarsOK
  <2>2. hub.up
    BY DEF Answered
  <2>3. hub \in Reach(hub.seq, hub.epoch, events)
    BY <2>1, <2>2, HubReach
  <2> QED BY <2>2, <2>3 DEF Answered, Reach, Hubs
<1>2. Tail(hub.asked) \in Seq(Requests) /\ Head(hub.asked) \in Requests
  BY <1>1
<1>3. Head(hub.asked).thread \in Threads
  BY <1>2 DEF Requests
<1>4. h \in Hubs /\ SameEvents(h, hub) /\ h.inFlight = hub.inFlight /\ h.held = hub.held
  BY <1>1, <1>2 DEF Hubs, SameEvents
<1> HIDE DEF h
<1>5. h \in Reach(hub.seq, hub.epoch, events)
  <2>1. IsFiniteSet(hub.inFlight) /\ \A t \in Threads : hub.held[t] <= events
    BY <1>1 DEF Reach, HubSound
  <2> QED BY <1>1, <1>4, <2>1, EditStays
<1> QED BY <1>2, <1>3, <1>4, <1>5 DEF h

\* The timer of scheduleFlush
LEMMA FlushKeeps == EventsInv /\ Flush => EventsInv'
<1> SUFFICES ASSUME EventsInv, Flush PROVE EventsInv'
  OBVIOUS
<1>1. events \in Nat /\ hub.seq \in Nat /\ hub.up /\ Become(Flushed(hub))
      /\ UNCHANGED <<inbox, events, links, starts, saved, phone>>
  BY LimitsAssumption DEF EventsInv, VarsOK, HubInv, HubOK, HubSound, Hubs, Flush
<1>2. hub \in Reach(hub.seq, hub.epoch, events)
  BY <1>1, HubReach
<1>3. Flushed(hub) \in Reach(hub.seq, hub.epoch, events)
  BY <1>1, <1>2, FlushedStays
<1> QED BY <1>1, <1>3, TellingKeeps

\* The answer to refreshSummary, and its failure
LEMMA SummaryKeeps == EventsInv /\ (SummaryAnswered \/ SummaryFails) => EventsInv'
<1> SUFFICES ASSUME EventsInv, SummaryAnswered \/ SummaryFails PROVE EventsInv'
  OBVIOUS
<1> DEFINE t == Head(hub.asked).thread
           h == [hub EXCEPT !.asked = Tail(@)]
           g == [h EXCEPT !.inFlight = @ \ {t}]
<1>1. /\ Answered("summary") /\ hub.up /\ hub.seq \in Nat
      /\ UNCHANGED <<inbox, events, links, starts, saved, phone>>
  BY DEF SummaryAnswered, SummaryFails, Answered, EventsInv, HubInv, HubOK, HubSound, Hubs
<1>2. /\ t \in Threads /\ h \in Reach(hub.seq, hub.epoch, events)
      /\ h \in Hubs /\ SameEvents(h, hub) /\ h.inFlight = hub.inFlight /\ h.held = hub.held
  BY <1>1, Answering
<1>3. /\ IsFiniteSet(h.inFlight) /\ \A u \in Threads : h.held[u] <= events
  BY <1>2 DEF Reach, HubSound
<1>4. inbox[t] \in Values
  BY <1>2 DEF EventsInv, VarsOK
<1> HIDE DEF t
<1>5. \/ Become(h)
      \/ Become(g)
      \/ Become(Append1(g, t, inbox[t]))
      \/ Become(Defer(g, t))
      \/ /\ hub' = g /\ lost' = lost \cup ({t} \cap fresher) /\ UNCHANGED <<link, fresher>>
  BY DEF SummaryAnswered, SummaryFails, t
<1> HIDE DEF h
<1>6. g \in Hubs /\ SameEvents(g, h) /\ g.inFlight = h.inFlight \ {t} /\ g.held = h.held
  BY <1>2 DEF Hubs, SameEvents
<1> HIDE DEF g
<1>7. IsFiniteSet(g.inFlight)
  BY <1>3, <1>6, FS_RemoveElement
<1>8. g \in Reach(hub.seq, hub.epoch, events)
  BY <1>2, <1>3, <1>6, <1>7, EditStays
<1>9. Append1(g, t, inbox[t]) \in Reach(hub.seq, hub.epoch, events)
  BY <1>1, <1>2, <1>4, <1>8, Append1Stays
<1>10. Defer(g, t) \in Reach(hub.seq, hub.epoch, events)
  BY <1>1, <1>2, <1>8, DeferStays
<1>11. CASE hub' = g /\ lost' = lost \cup ({t} \cap fresher) /\ UNCHANGED <<link, fresher>>
  <2>1. VarsOK'
    BY <1>1, <1>11 DEF EventsInv, VarsOK
  <2>2. SameEvents(g, hub)
    BY <1>2, <1>6 DEF SameEvents
  <2>3. HubOK(g, starts, events)
    BY <1>3, <1>6, <1>7, <2>2, HubKeeps DEF EventsInv
  <2>4. HubInv'
    BY <1>1, <1>11, <2>3 DEF HubInv
  <2>5. FileInv' /\ WireInv'
    BY <1>1, <1>11, <2>2 DEF EventsInv, FileInv, WireInv, SameEvents
  <2> QED BY <2>1, <2>4, <2>5 DEF EventsInv
<1>12. CASE Become(h)
  BY <1>1, <1>2, <1>12, TellingKeeps
<1>13. CASE Become(g)
  BY <1>1, <1>8, <1>13, TellingKeeps
<1>14. CASE Become(Append1(g, t, inbox[t]))
  BY <1>1, <1>9, <1>14, TellingKeeps
<1>15. CASE Become(Defer(g, t))
  BY <1>1, <1>10, <1>15, TellingKeeps
<1> QED BY <1>5, <1>11, <1>12, <1>13, <1>14, <1>15

\* The answer to the lookup of releaseHeld, and its failure
LEMMA VisibilityKeeps == EventsInv /\ (VisibilityAnswered \/ VisibilityFails) => EventsInv'
<1> SUFFICES ASSUME EventsInv, VisibilityAnswered \/ VisibilityFails PROVE EventsInv'
  OBVIOUS
<1> DEFINE t == Head(hub.asked).thread
           h == [hub EXCEPT !.asked = Tail(@)]
<1>1. /\ Answered("visible") /\ hub.up /\ hub.seq \in Nat /\ events \in Nat /\ hub \in Hubs
      /\ UNCHANGED <<inbox, events, links, starts, saved, phone>>
  <2>1. Answered("visible") /\ hub.up /\ UNCHANGED <<inbox, events, links, starts, saved, phone>>
    BY DEF VisibilityAnswered, VisibilityFails, Answered
  <2>2. hub.seq \in Nat /\ events \in Nat /\ hub \in Hubs
    BY LimitsAssumption DEF EventsInv, VarsOK, HubInv, HubOK, HubSound, Hubs
  <2> QED BY <2>1, <2>2
<1>2. /\ t \in Threads /\ h \in Reach(hub.seq, hub.epoch, events) /\ Tail(hub.asked) \in Seq(Requests)
  BY <1>1, Answering
<1> HIDE DEF t
<1>3. CASE VisibilityAnswered
  <2>1. Become(AppendHeld(h, t))
    BY <1>3 DEF VisibilityAnswered, t
  <2> HIDE DEF h
  <2>2. AppendHeld(h, t) \in Reach(hub.seq, hub.epoch, events)
    BY <1>1, <1>2, AppendHeldStays
  <2> QED BY <1>1, <2>1, <2>2, TellingKeeps
<1>4. CASE VisibilityFails
  <2> DEFINE d == [hub.held EXCEPT ![t] = 0]
             w == [hub.visible EXCEPT ![t] = "no"]
             g == [hub EXCEPT !.asked = Tail(@), !.held = d, !.visible = w]
  <2>1. hub' = g /\ lost' = lost \cup {t} /\ UNCHANGED <<link, fresher>>
    BY <1>1, <1>4 DEF VisibilityFails, t, Hubs
  <2>2. d \in [Threads -> Nat] /\ \A u \in Threads : d[u] <= events
    <3>1. hub.held \in [Threads -> Nat] /\ \A u \in Threads : hub.held[u] <= events
      BY <1>1 DEF Hubs, EventsInv, HubInv, HubOK
    <3>2. d \in [Threads -> Nat] /\ \A u \in Threads : d[u] = 0 \/ d[u] = hub.held[u]
      BY <1>2, <3>1
    <3> HIDE DEF d
    <3>3. 0 <= events
      BY <1>1
    <3> QED BY <3>1, <3>2, <3>3
  <2>3. w \in [Threads -> {"unknown", "yes", "no"}]
    BY <1>1 DEF Hubs
  <2> HIDE DEF d, w
  <2>4. g \in Hubs /\ SameEvents(g, hub) /\ g.inFlight = hub.inFlight /\ g.held = d
    BY <1>1, <1>2, <2>2, <2>3 DEF Hubs, SameEvents
  <2> HIDE DEF g
  <2>5. HubOK(g, starts, events)
    BY <2>2, <2>4, HubKeeps DEF EventsInv, HubInv, HubOK, HubSound
  <2>6. HubInv'
    BY <1>1, <2>1, <2>5 DEF HubInv
  <2>7. VarsOK'
    BY <1>1, <1>2, <2>1 DEF EventsInv, VarsOK
  <2>8. FileInv' /\ WireInv'
    BY <1>1, <2>1, <2>4 DEF EventsInv, FileInv, WireInv, SameEvents
  <2> QED BY <2>6, <2>7, <2>8 DEF EventsInv
<1> QED BY <1>3, <1>4

\* A step that leaves alone what the hub has told, and leaves the wire sound,
\* keeps the invariant.
LEMMA WireKeeps ==
  ASSUME EventsInv, hub.up, hub' \in Hubs, SameEvents(hub', hub), hub'.inFlight = hub.inFlight,
         hub'.held = hub.held, UNCHANGED <<events, starts, saved>>, VarsOK',
         phone'.cursor.epoch <= hub.epoch,
         WireSound(link', phone'.cursor, hub.epoch, hub.seq)
  PROVE  EventsInv'
<1>1. HubInv'
  <2>1. IsFiniteSet(hub.inFlight) /\ \A t \in Threads : hub.held[t] <= events
    BY DEF EventsInv, HubInv, HubOK, HubSound
  <2>2. HubOK(hub', starts, events)
    BY <2>1, HubKeeps DEF EventsInv
  <2> QED BY <2>2 DEF HubInv
<1>2. hub'.up /\ hub'.epoch = hub.epoch /\ hub'.seq = hub.seq
  BY DEF SameEvents
<1>3. FileInv'
  BY <1>2 DEF EventsInv, FileInv
<1>4. WireInv'
  BY <1>2 DEF WireInv
<1> QED BY <1>1, <1>3, <1>4 DEF EventsInv

\* What the invariant says while the hub runs
LEMMA Running ==
  ASSUME EventsInv, hub.up
  PROVE  /\ WireSound(link, phone.cursor, hub.epoch, hub.seq) /\ link \in Links
         /\ hub \in Hubs /\ HubSound(hub) /\ hub.seq \in Nat /\ hub.epoch \in Nat
         /\ hub.asked \in Seq(Requests) /\ SameEvents(hub, hub)
         /\ phone \in Phones /\ phone.cursor \in Cursors /\ phone.cursor.epoch <= hub.epoch
         /\ VarsOK
BY DEF EventsInv, WireInv, WireSound, HubInv, HubOK, HubSound, Hubs, SameEvents, VarsOK, Phones

\* A round of fetching changes the requests alone.
LEMMA FetchKeeps == EventsInv /\ FetchMissing => EventsInv'
<1> SUFFICES ASSUME EventsInv, FetchMissing PROVE EventsInv'
  OBVIOUS
<1>1. hub.up
  BY DEF EventsInv, WireInv, FetchMissing, Unlinked
<1>2. PICK order \in SetToSeqs(Missing) :
        hub' = [hub EXCEPT !.asked = @ \o [i \in 1 .. Len(order) |->
                                             [kind |-> "resume", thread |-> order[i]]]]
  BY DEF FetchMissing
<1>3. UNCHANGED <<inbox, events, links, starts, saved, link, phone, lost, fresher>>
  BY DEF FetchMissing
<1> DEFINE more == [i \in 1 .. Len(order) |-> [kind |-> "resume", thread |-> order[i]]]
<1>4. order \in Seq(Threads)
  <2>1. Missing \in SUBSET Recorded(hub.journal)
    BY DEF Missing, JournalSummaryIds, Recorded, NoEntry
  <2>2. IsFiniteSet(Recorded(hub.journal)) /\ Recorded(hub.journal) \in SUBSET Threads
    BY <1>1, Running DEF HubSound, JournalSound, Recorded
  <2>3. Cardinality(Missing) \in Nat
    BY <2>1, <2>2, FS_Subset, FS_CardinalityType
  <2>4. order \in [1 .. Cardinality(Missing) -> Missing]
    BY DEF SetToSeqs
  <2> QED BY <2>1, <2>2, <2>3, <2>4
<1>5. more \in Seq(Requests)
  <2>1. \A i \in 1 .. Len(order) : [kind |-> "resume", thread |-> order[i]] \in Requests
    BY <1>4 DEF Requests
  <2> QED BY <1>4, <2>1
<1> HIDE DEF more
<1> DEFINE q == hub.asked \o more
<1>6. q \in Seq(Requests) /\ hub' = [hub EXCEPT !.asked = q]
  BY <1>1, <1>2, <1>5, Running DEF more, Hubs
<1> HIDE DEF q
<1>7. /\ hub' \in Hubs /\ SameEvents(hub', hub) /\ hub'.inFlight = hub.inFlight
      /\ hub'.held = hub.held
  BY <1>1, <1>6, Running DEF Hubs, SameEvents
<1>8. VarsOK'
  BY <1>1, <1>3, Running DEF VarsOK
<1> QED BY <1>1, <1>3, <1>7, <1>8, Running, WireKeeps

\* A link with another answer fetched carries the same.
LEMMA FetchedSound ==
  ASSUME NEW c, NEW e, NEW n, WireSound(link, c, e, n), NEW f \in [Threads -> Fetched]
  PROVE  WireSound([link EXCEPT !.fetched = f], c, e, n)
<1> DEFINE l == [link EXCEPT !.fetched = f]
<1>1. link \in Links
  BY DEF WireSound
<1>2. /\ l \in Links /\ l.pushes = link.pushes /\ l.queued = link.queued /\ l.mode = link.mode
      /\ l.reply = link.reply /\ l.from = link.from /\ l.through = link.through
  BY <1>1 DEF Links
<1> HIDE DEF l
<1>3. WireSound(l, c, e, n)
  BY <1>2 DEF WireSound
<1> QED BY <1>3 DEF l

\* An answer to such a request goes to the link.
LEMMA ResumeKeeps == EventsInv /\ ResumeAnswered => EventsInv'
<1> SUFFICES ASSUME EventsInv, ResumeAnswered PROVE EventsInv'
  OBVIOUS
<1> DEFINE t == Head(hub.asked).thread
           g == [hub EXCEPT !.asked = Tail(@)]
           got == [value |-> inbox[t], here |-> TRUE]
           f == [link.fetched EXCEPT ![t] = got]
<1>1. /\ Answered("resume") /\ hub.up /\ hub' = g
      /\ UNCHANGED <<inbox, events, links, starts, saved, phone, lost, fresher>>
  BY DEF ResumeAnswered, Answered
<1>2. t \in Threads /\ g \in Hubs /\ SameEvents(g, hub) /\ g.inFlight = hub.inFlight /\ g.held = hub.held
  BY <1>1, Answering
<1>3. link' = [link EXCEPT !.fetched = f]
  BY <1>1, Running DEF ResumeAnswered, Links
<1> HIDE DEF t, g
<1>4. got \in Fetched
  <2>1. inbox[t] \in Values
    BY <1>1, <1>2, Running DEF VarsOK
  <2> QED BY <2>1 DEF Fetched
<1> HIDE DEF got
<1>5. f \in [Threads -> Fetched]
  BY <1>1, <1>4, Running DEF Links
<1> HIDE DEF f
<1>6. WireSound(link', phone.cursor, hub.epoch, hub.seq)
  BY <1>1, <1>3, <1>5, Running, FetchedSound
<1>7. VarsOK'
  BY <1>1, Running DEF VarsOK
<1> QED BY <1>1, <1>2, <1>6, <1>7, Running, WireKeeps

\* The wire when a replay is committed: the reply, and the replay behind it
LEMMA CommittedSound ==
  ASSUME HubSound(hub), link \in Links, link.pushes = <<>>,
         NEW c \in Cursors, NEW resumed \in BOOLEAN,
         resumed => c.epoch = hub.epoch /\ c.seq <= hub.seq,
         c.epoch = hub.epoch => c.seq <= hub.seq,
         NEW q, q = IF resumed THEN Replay(c.seq) ELSE <<>>
  PROVE  WireSound([link EXCEPT
                      !.mode = "replaying", !.through = hub.seq, !.queued = q,
                      !.reply = <<[epoch |-> hub.epoch, seq |-> hub.seq, resumed |-> resumed]>>],
                   c, hub.epoch, hub.seq)
<1> DEFINE r == [epoch |-> hub.epoch, seq |-> hub.seq, resumed |-> resumed]
           l == [link EXCEPT !.mode = "replaying", !.through = hub.seq, !.queued = q,
                             !.reply = <<r>>]
<1>1. hub.seq \in Nat /\ hub.epoch \in Nat /\ c.seq \in Nat
  BY DEF HubSound, Hubs, Cursors
<1>2. /\ q \in Seq(Entries) /\ Rising(q)
      /\ resumed => Between(q, c.seq, hub.seq)
      /\ ~ resumed => q = <<>>
  <2>1. CASE resumed
    BY <1>1, <2>1, ReplayRises
  <2>2. CASE ~ resumed
    BY <2>2, EmptyWire
  <2> QED BY <2>1, <2>2
<1>3. /\ Between(q, 0, hub.seq) /\ (c.epoch = hub.epoch => Between(q, c.seq, hub.seq))
      /\ (~ resumed => Between(q, hub.seq, hub.seq))
  <2>1. CASE resumed
    BY <1>1, <1>2, <2>1, BetweenWider
  <2>2. CASE ~ resumed
    BY <1>2, <2>2, EmptyWire
  <2> QED BY <2>1, <2>2
<1>4. r \in Replies /\ r.epoch = hub.epoch /\ r.seq = hub.seq /\ r.resumed = resumed
  BY <1>1 DEF Replies
<1> HIDE DEF r
<1>5. /\ <<r>> \in Seq(Replies) /\ Len(<<r>>) = 1 /\ <<r>>[1] = r
  BY <1>4
<1>6. /\ l \in Links /\ l.mode = "replaying" /\ l.through = hub.seq /\ l.queued = q
      /\ l.pushes = <<>> /\ l.reply = <<r>>
  BY <1>1, <1>2, <1>5 DEF Links
<1> HIDE DEF l
<1>7. l.pushes \o l.queued = q
  <2>1. <<>> \o q = q
    BY <1>2, Joining
  <2> QED BY <1>6, <2>1, Zenon
<1>8. WireSound(l, c, hub.epoch, hub.seq)
  BY <1>1, <1>2, <1>3, <1>4, <1>5, <1>6, <1>7 DEF WireSound
<1> QED BY <1>8 DEF l, r

\* commitResume: the replay begins behind the cursor the phone resumed from.
LEMMA CommitKeeps == EventsInv /\ CommitResume => EventsInv'
<1> SUFFICES ASSUME EventsInv, CommitResume PROVE EventsInv'
  OBVIOUS
<1> DEFINE resumed == Resumable(link.from)
           q == IF resumed THEN Replay(link.from.seq) ELSE <<>>
           ids == JournalSummaryIds(link.from.seq)
           used == {t \in ids : link.fetched[t].value # Unlisted}
           deferred == {t \in used : hub.journal[t].kind = "deferred"}
           last == [t \in Threads |-> IF t \in deferred THEN None ELSE hub.last[t]]
<1>1. /\ hub.up /\ link.mode = "resuming"
      /\ UNCHANGED <<inbox, events, links, starts, saved, phone>>
  BY DEF EventsInv, WireInv, CommitResume, Unlinked
<1>2. link' = [link EXCEPT
                 !.mode = "replaying", !.through = hub.seq, !.queued = q,
                 !.reply = <<[epoch |-> hub.epoch, seq |-> hub.seq, resumed |-> resumed]>>]
  BY DEF CommitResume
<1>3. /\ hub' = hub \/ hub' = [hub EXCEPT !.last = last]
      /\ lost' \in SUBSET Threads /\ fresher' \in SUBSET Threads
  <2>1. ids \in SUBSET Threads /\ lost \in SUBSET Threads /\ fresher \in SUBSET Threads
    BY <1>1, Running DEF JournalSummaryIds, VarsOK
  <2> QED BY <2>1 DEF CommitResume
<1>4. link.pushes = <<>> /\ link.from = phone.cursor
  BY <1>1, Running DEF WireSound
<1>5. phone.cursor.epoch = hub.epoch => phone.cursor.seq <= hub.seq
  BY <1>1, Running DEF WireSound
<1>6. resumed \in BOOLEAN /\ (resumed => link.from.epoch = hub.epoch /\ link.from.seq <= hub.seq)
  BY DEF Resumable
<1>7. last \in [Threads -> Values]
  <2>1. hub.last \in [Threads -> Values] /\ None \in Values
    BY <1>1, Running DEF Hubs, None, Values, Unlisted
  <2> HIDE DEF deferred
  <2> QED BY <2>1
<1> HIDE DEF resumed, last
<1>8. WireSound(link', phone.cursor, hub.epoch, hub.seq)
  <2>1. HubSound(hub) /\ link \in Links /\ phone.cursor \in Cursors
    BY <1>1, Running
  <2> DEFINE c == phone.cursor
  <2>2. /\ c \in Cursors /\ (c.epoch = hub.epoch => c.seq <= hub.seq)
        /\ (resumed => c.epoch = hub.epoch /\ c.seq <= hub.seq)
        /\ q = IF resumed THEN Replay(c.seq) ELSE <<>>
    BY <1>4, <1>5, <1>6, <2>1
  <2> HIDE DEF c, q
  <2>3. WireSound([link EXCEPT
                     !.mode = "replaying", !.through = hub.seq, !.queued = q,
                     !.reply = <<[epoch |-> hub.epoch, seq |-> hub.seq, resumed |-> resumed]>>],
                  c, hub.epoch, hub.seq)
    BY <1>4, <1>6, <2>1, <2>2, CommittedSound
  <2> QED BY <1>2, <2>3, Zenon DEF c
<1>9. /\ hub' \in Hubs /\ SameEvents(hub', hub) /\ hub'.inFlight = hub.inFlight
      /\ hub'.held = hub.held
  BY <1>1, <1>3, <1>7, Running DEF Hubs, SameEvents
<1>10. VarsOK'
  BY <1>1, <1>3, Running DEF VarsOK
<1> QED BY <1>1, <1>8, <1>9, <1>10, Running, WireKeeps

\* The replay goes on the wire, with what was queued behind it.
LEMMA DeliveryKeeps == EventsInv /\ StartDelivery => EventsInv'
<1> SUFFICES ASSUME EventsInv, StartDelivery PROVE EventsInv'
  OBVIOUS
<1> DEFINE w == link.pushes \o link.queued
           n == IF link.queued # <<>> /\ link.queued[Len(link.queued)].seq > link.through
                  THEN link.queued[Len(link.queued)].seq ELSE link.through
<1>1. /\ hub.up /\ link.mode = "replaying"
      /\ UNCHANGED <<inbox, events, links, starts, hub, saved, phone, lost, fresher>>
  BY DEF EventsInv, WireInv, StartDelivery, Unlinked
<1>2. /\ link \in Links /\ WireSound(link, phone.cursor, hub.epoch, hub.seq)
      /\ hub.seq \in Nat
  BY <1>1, Running
<1>3. link' = [link EXCEPT !.mode = "live", !.queued = <<>>, !.pushes = w, !.through = n]
  BY <1>2 DEF StartDelivery, Links
<1>4. /\ w \in Seq(Entries) /\ w \o <<>> = w /\ link.queued \in Seq(Entries)
      /\ link.pushes \in Seq(Entries)
  <2>1. link.queued \in Seq(Entries) /\ link.pushes \in Seq(Entries)
    BY <1>2 DEF Links
  <2>2. w \in Seq(Entries)
    BY <2>1
  <2> QED BY <2>1, <2>2, Joining
<1>5. n \in Nat /\ n <= hub.seq
  <2>1. link.through \in Nat /\ link.through <= hub.seq
    BY <1>2 DEF WireSound, Links
  <2>2. ASSUME link.queued # <<>>
        PROVE  /\ link.queued[Len(link.queued)].seq \in Nat
               /\ link.queued[Len(link.queued)].seq <= hub.seq
    <3>1. w[Len(w)] = link.queued[Len(link.queued)] /\ Len(w) \in 1 .. Len(w)
      <4> DEFINE x == link.pushes
                 y == link.queued
      <4>1. x \in Seq(Entries) /\ y \in Seq(Entries) /\ y # <<>>
        BY <1>4, <2>2
      <4> HIDE DEF x, y
      <4>2. (x \o y)[Len(x \o y)] = y[Len(y)] /\ Len(x \o y) \in 1 .. Len(x \o y)
        BY <4>1
      <4> QED BY <4>2 DEF x, y
    <3>2. Between(w, 0, hub.seq)
      BY <1>2 DEF WireSound
    <3>3. w[Len(w)].seq \in Nat /\ w[Len(w)].seq <= hub.seq
      <4> HIDE DEF w
      <4> QED BY <1>4, <3>1, <3>2, EntryNumbers DEF Between
    <3> QED BY <3>1, <3>3
  <2> QED BY <2>1, <2>2
<1> HIDE DEF n
<1>6. /\ Rising(w) /\ Between(w, 0, hub.seq)
      /\ (phone.cursor.epoch = hub.epoch => phone.cursor.seq <= hub.seq
                                            /\ Between(w, phone.cursor.seq, hub.seq))
      /\ Len(link.reply) <= 1
      /\ link.reply # <<>> =>
           /\ link.reply[1].epoch = hub.epoch /\ link.reply[1].seq <= hub.seq
           /\ link.reply[1].resumed \/ Between(w, link.reply[1].seq, hub.seq)
  BY <1>2 DEF WireSound
<1> HIDE DEF w
<1>7. /\ link' \in Links /\ link'.mode = "live" /\ link'.queued = <<>> /\ link'.pushes = w
      /\ link'.through = n /\ link'.reply = link.reply
  <2>1. <<>> \in Seq(Entries)
    OBVIOUS
  <2> QED BY <1>2, <1>3, <1>4, <1>5, <2>1 DEF Links
<1>8. link'.pushes \o link'.queued = w
  BY <1>4, <1>7
<1>9. WireSound(link', phone.cursor, hub.epoch, hub.seq)
  BY <1>5, <1>6, <1>7, <1>8 DEF WireSound
<1>10. VarsOK'
  BY <1>1, Running DEF VarsOK
<1> QED BY <1>1, <1>9, <1>10, Running, WireKeeps

\* A link in mode live or replaying is sound when its wire and its reply are.
LEMMA SameWire ==
  ASSUME NEW k, NEW c, NEW e, NEW n, WireSound(k, c, e, n),
         NEW l \in Links, l.pushes \o l.queued = k.pushes \o k.queued, l.reply = k.reply,
         l.through <= n, l.mode \in {"replaying", "live"}, l.mode = "live" => l.queued = <<>>
  PROVE  WireSound(l, c, e, n)
<1> DEFINE w == k.pushes \o k.queued
           v == l.pushes \o l.queued
<1>1. /\ Rising(w) /\ Between(w, 0, n)
      /\ (c.epoch = e => c.seq <= n /\ Between(w, c.seq, n))
      /\ Len(k.reply) <= 1
      /\ k.reply # <<>> =>
           /\ k.reply[1].epoch = e /\ k.reply[1].seq <= n
           /\ k.reply[1].resumed \/ Between(w, k.reply[1].seq, n)
  BY DEF WireSound
<1>2. v = w
  OBVIOUS
<1> HIDE DEF w, v
<1>3. /\ Rising(v) /\ Between(v, 0, n)
      /\ (c.epoch = e => c.seq <= n /\ Between(v, c.seq, n))
      /\ Len(l.reply) <= 1
      /\ l.reply # <<>> =>
           /\ l.reply[1].epoch = e /\ l.reply[1].seq <= n
           /\ l.reply[1].resumed \/ Between(v, l.reply[1].seq, n)
  BY <1>1, <1>2
<1> QED BY <1>3 DEF WireSound, v

\* A subscribe without a cursor lets the next events wait.
LEMMA WatchKeeps == EventsInv /\ Watch => EventsInv'
<1> SUFFICES ASSUME EventsInv, Watch PROVE EventsInv'
  OBVIOUS
<1>1. /\ hub.up /\ link.mode = "live" /\ link.reply = <<>>
      /\ link' = [link EXCEPT !.mode = "replaying", !.queued = <<>>, !.through = hub.seq]
      /\ UNCHANGED <<inbox, events, links, starts, hub, saved, phone, lost, fresher>>
  BY DEF EventsInv, WireInv, Watch, Unlinked
<1>2. /\ link \in Links /\ WireSound(link, phone.cursor, hub.epoch, hub.seq)
      /\ hub.seq \in Nat
  BY <1>1, Running
<1>3. link.queued = <<>>
  BY <1>1, <1>2 DEF WireSound
<1>4. /\ link' \in Links /\ link'.mode = "replaying" /\ link'.queued = link.queued
      /\ link'.pushes = link.pushes /\ link'.reply = link.reply /\ link'.through = hub.seq
  BY <1>1, <1>2, <1>3 DEF Links
<1>5. WireSound(link', phone.cursor, hub.epoch, hub.seq)
  <2>1. link'.pushes \o link'.queued = link.pushes \o link.queued
    BY <1>4, Zenon
  <2>2. hub.seq <= hub.seq
    BY <1>2
  <2> QED BY <1>2, <1>4, <2>1, <2>2, SameWire
<1>6. VarsOK'
  BY <1>1, Running DEF VarsOK
<1> QED BY <1>1, <1>5, <1>6, Running, WireKeeps

\* A hub that is down knows nothing but its epoch.
LEMMA DownSound ==
  ASSUME NEW e \in Nat
  PROVE  LET d == [Empty(e) EXCEPT !.up = FALSE]
         IN  /\ HubSound(d) /\ d.up = FALSE /\ d.epoch = e /\ d.outgoing = <<>>
             /\ d.held = [t \in Threads |-> 0]
<1> DEFINE m == Empty(e)
           d == [m EXCEPT !.up = FALSE]
<1>1. m \in Hubs /\ HubSound(m) /\ m.epoch = e /\ m.outgoing = <<>>
      /\ m.held = [t \in Threads |-> 0]
  BY EmptySound
<1> HIDE DEF m
<1>2. /\ d \in Hubs /\ d.up = FALSE /\ d.epoch = e /\ d.outgoing = m.outgoing /\ d.held = m.held
      /\ d.seq = m.seq /\ d.ring = m.ring /\ d.ringFloor = m.ringFloor /\ d.journal = m.journal
      /\ d.journalFloor = m.journalFloor /\ d.inFlight = m.inFlight
  BY <1>1 DEF Hubs
<1> HIDE DEF d
<1>3. HubSound(d)
  BY <1>1, <1>2 DEF HubSound
<1> QED BY <1>1, <1>2, <1>3 DEF d, m

\* The hub goes down, with a file that is clean only if it is sound.
LEMMA DownKeeps ==
  ASSUME EventsInv, hub.up, hub' = [Empty(hub.epoch) EXCEPT !.up = FALSE], link' = Unlinked,
         UNCHANGED <<events, starts, phone>>, VarsOK',
         saved'.clean =>
           /\ saved'.epoch = hub.epoch
           /\ JournalSound(saved'.journal, saved'.seq) /\ saved'.journalFloor <= saved'.seq
           /\ hub.seq <= saved'.seq
  PROVE  EventsInv'
<1>1. /\ hub.epoch \in Nat /\ hub.seq \in Nat /\ hub.epoch <= starts /\ events \in Nat
      /\ phone.cursor.epoch <= hub.epoch /\ phone.cursor.seq \in Nat /\ saved'.seq \in Nat
      /\ (phone.cursor.epoch = hub.epoch => phone.cursor.seq <= hub.seq)
  <2>1. hub.epoch <= starts
    BY DEF EventsInv, HubInv, HubOK
  <2>2. events \in Nat /\ saved'.seq \in Nat
    BY LimitsAssumption DEF EventsInv, VarsOK, Files
  <2>3. phone.cursor.seq \in Nat
    BY Running DEF Cursors
  <2>4. phone.cursor.epoch = hub.epoch => phone.cursor.seq <= hub.seq
    BY Running DEF WireSound
  <2> QED BY <2>1, <2>2, <2>3, <2>4, Running
<1>2. /\ HubSound(hub') /\ hub'.up = FALSE /\ hub'.epoch = hub.epoch /\ hub'.outgoing = <<>>
      /\ hub'.held = [t \in Threads |-> 0]
  BY <1>1, DownSound
<1>3. HubInv'
  <2>1. \A t \in Threads : hub'.held[t] <= events'
    BY <1>1, <1>2
  <2> QED BY <1>1, <1>2, <2>1 DEF HubInv, HubOK
<1>4. FileInv'
  BY <1>1, <1>2 DEF FileInv
<1>5. WireInv'
  BY <1>1, <1>2 DEF WireInv
<1> QED BY <1>3, <1>4, <1>5 DEF EventsInv

\* A stop writes what a sound hub made of the deferrals.
LEMMA StopKeeps == EventsInv /\ Stop => EventsInv'
<1> SUFFICES ASSUME EventsInv, Stop PROVE EventsInv'
  OBVIOUS
<1>1. /\ hub.up /\ link' = Unlinked /\ UNCHANGED <<inbox, events, links, starts, phone, fresher>>
  BY DEF Stop
<1>2. PICK flying \in SetToSeqs(hub.inFlight \ ToSet(hub.pending)) :
        LET h == FoldLeft(Defer, hub, hub.pending \o flying)
        IN  /\ saved' = [clean |-> TRUE, epoch |-> h.epoch, seq |-> h.seq,
                         journal |-> h.journal, journalFloor |-> h.journalFloor]
            /\ hub' = [Empty(h.epoch) EXCEPT !.up = FALSE]
            /\ lost' = lost \cup h.slipped \cup {t \in Threads : h.held[t] > 0}
  BY Zenon DEF Stop
<1> DEFINE h == FoldLeft(Defer, hub, hub.pending \o flying)
           R == Reach(hub.seq, hub.epoch, events)
<1>3. hub.pending \o flying \in Seq(Threads)
  <2> DEFINE F == hub.inFlight \ ToSet(hub.pending)
  <2>1. IsFiniteSet(hub.inFlight) /\ hub.inFlight \in SUBSET Threads /\ hub.pending \in Seq(Threads)
    BY <1>1, Running DEF HubSound, Hubs
  <2>2. F \in SUBSET Threads /\ F \in SUBSET hub.inFlight
    BY <2>1
  <2> HIDE DEF F
  <2>3. Cardinality(F) \in Nat
    BY <2>1, <2>2, FS_Subset, FS_CardinalityType
  <2>4. flying \in [1 .. Cardinality(F) -> F]
    BY <1>2 DEF SetToSeqs, F
  <2>5. flying \in Seq(Threads)
    BY <2>2, <2>3, <2>4
  <2> QED BY <2>1, <2>5
<1>4. events \in Nat /\ hub.seq \in Nat
  BY <1>1, LimitsAssumption, Running DEF VarsOK
<1>5. hub \in R
  BY <1>1, <1>4, HubReach
<1>6. \A x \in R, t \in Threads : Defer(x, t) \in R
  BY <1>1, <1>4, DeferStays
<1>7. h \in R
  <2> HIDE DEF R
  <2> QED BY <1>3, <1>5, <1>6, FoldDefer
<1>8. /\ saved' = [clean |-> TRUE, epoch |-> h.epoch, seq |-> h.seq,
                   journal |-> h.journal, journalFloor |-> h.journalFloor]
      /\ hub' = [Empty(h.epoch) EXCEPT !.up = FALSE]
      /\ lost' = lost \cup h.slipped \cup {t \in Threads : h.held[t] > 0}
  BY <1>2, Zenon
<1> HIDE DEF h
<1>9. /\ h \in Hubs /\ HubSound(h) /\ h.epoch = hub.epoch /\ hub.seq <= h.seq
  BY <1>7 DEF Reach
<1>10. saved' \in Files
  BY <1>8, <1>9 DEF Files, Hubs
<1>11. VarsOK'
  <2>1. h.slipped \in SUBSET Threads
    BY <1>9 DEF Hubs
  <2> QED BY <1>1, <1>8, <1>10, <2>1, Running DEF VarsOK
<1>12. /\ saved'.epoch = hub.epoch /\ JournalSound(saved'.journal, saved'.seq)
       /\ saved'.journalFloor <= saved'.seq /\ hub.seq <= saved'.seq
  BY <1>8, <1>9 DEF HubSound
<1>13. hub' = [Empty(hub.epoch) EXCEPT !.up = FALSE]
  BY <1>8, <1>9
<1> QED BY <1>1, <1>11, <1>12, <1>13, DownKeeps

\* A crash leaves the file as it is, which is not clean while the hub runs.
LEMMA CrashKeeps == EventsInv /\ Crash => EventsInv'
<1> SUFFICES ASSUME EventsInv, Crash PROVE EventsInv'
  OBVIOUS
<1>1. /\ hub.up /\ link' = Unlinked /\ hub' = [Empty(hub.epoch) EXCEPT !.up = FALSE]
      /\ UNCHANGED <<inbox, events, links, starts, saved, phone, lost, fresher>>
  BY DEF Crash
<1>2. VarsOK'
  BY <1>1, Running DEF VarsOK
<1>3. ~ saved'.clean
  BY <1>1 DEF EventsInv, FileInv
<1> QED BY <1>1, <1>2, <1>3, DownKeeps

\* What a clean file restores is a sound hub.
LEMMA RestoredSound ==
  ASSUME NEW f \in Files, JournalSound(f.journal, f.seq), f.journalFloor <= f.seq
  PROVE  LET h == [Empty(f.epoch) EXCEPT !.seq = f.seq, !.ringFloor = f.seq,
                                         !.journal = f.journal, !.journalFloor = f.journalFloor]
         IN  /\ HubSound(h) /\ h.up = TRUE /\ h.epoch = f.epoch /\ h.seq = f.seq
             /\ h.outgoing = <<>> /\ h.held = [t \in Threads |-> 0]
<1> DEFINE m == Empty(f.epoch)
           h == [m EXCEPT !.seq = f.seq, !.ringFloor = f.seq,
                          !.journal = f.journal, !.journalFloor = f.journalFloor]
<1>1. /\ f.epoch \in Nat /\ f.seq \in Nat /\ f.journalFloor \in Nat
      /\ f.journal \in [Threads -> JournalEntries]
  BY DEF Files
<1>2. /\ m \in Hubs /\ m.up = TRUE /\ m.epoch = f.epoch /\ m.outgoing = <<>>
      /\ m.held = [t \in Threads |-> 0] /\ m.inFlight = {} /\ m.ring = <<>>
  BY <1>1, EmptySound
<1> HIDE DEF m
<1>3. /\ h \in Hubs /\ h.up = TRUE /\ h.epoch = f.epoch /\ h.seq = f.seq /\ h.ringFloor = f.seq
      /\ h.journal = f.journal /\ h.journalFloor = f.journalFloor /\ h.outgoing = <<>>
      /\ h.held = [t \in Threads |-> 0] /\ h.inFlight = {} /\ h.ring = <<>>
  BY <1>1, <1>2 DEF Hubs
<1> HIDE DEF h
<1>4. RingSound(<<>>, f.seq, f.seq)
  <2>1. BufferLimit \in Nat /\ f.seq <= f.seq /\ Len(<<>>) = 0
    BY <1>1, LimitsAssumption
  <2> QED BY <2>1, EmptyWire DEF RingSound
<1>5. Apart(f.journal, <<>>) /\ Rising(<<>>) /\ IsFiniteSet({})
  BY EmptyWire, FS_EmptySet DEF Apart
<1>6. HubSound(h)
  BY <1>3, <1>4, <1>5 DEF HubSound
<1> QED BY <1>3, <1>6 DEF h, m

\* A start goes on where a clean file ends, or begins a new epoch.
LEMMA StartKeeps == EventsInv /\ Start => EventsInv'
<1> SUFFICES ASSUME EventsInv, Start PROVE EventsInv'
  OBVIOUS
<1>1. /\ ~ hub.up /\ starts < MaxStarts /\ starts' = starts + 1
      /\ saved' = [saved EXCEPT !.clean = FALSE]
      /\ UNCHANGED <<inbox, events, links, link, phone, lost, fresher>>
  BY DEF Start
<1>2. /\ starts \in Nat /\ MaxStarts \in Nat /\ hub.epoch \in Nat /\ hub.epoch <= starts
      /\ events \in Nat /\ saved \in Files /\ phone \in Phones /\ VarsOK
      /\ phone.cursor.epoch \in Nat /\ phone.cursor.epoch <= hub.epoch /\ link = Unlinked
  <2>1. starts \in Nat /\ MaxStarts \in Nat /\ events \in Nat /\ saved \in Files /\ phone \in Phones
        /\ VarsOK
    BY LimitsAssumption DEF EventsInv, VarsOK
  <2>2. hub.epoch \in Nat /\ hub.epoch <= starts
    BY DEF EventsInv, HubInv, HubOK, HubSound, Hubs
  <2>3. phone.cursor.epoch \in Nat
    BY <2>1 DEF Phones, Cursors
  <2> QED BY <1>1, <2>1, <2>2, <2>3 DEF EventsInv, WireInv
<1>3. saved' \in Files /\ ~ saved'.clean
  BY <1>1, <1>2 DEF Files
<1>4. VarsOK'
  BY <1>1, <1>2, <1>3 DEF VarsOK
<1>5. /\ HubSound(hub') /\ hub'.up = TRUE /\ hub'.outgoing = <<>>
      /\ hub'.held = [t \in Threads |-> 0] /\ hub'.seq \in Nat /\ hub'.epoch \in Nat
      /\ hub'.epoch <= starts + 1 /\ phone.cursor.epoch <= hub'.epoch
      /\ (phone.cursor.epoch = hub'.epoch => phone.cursor.seq <= hub'.seq)
  <2>1. CASE saved.clean
    <3>1. /\ saved.epoch = hub.epoch
          /\ JournalSound(saved.journal, saved.seq) /\ saved.journalFloor <= saved.seq
          /\ (phone.cursor.epoch = saved.epoch => phone.cursor.seq <= saved.seq)
      BY <2>1 DEF EventsInv, FileInv
    <3>2. hub' = [Empty(saved.epoch) EXCEPT
                    !.seq = saved.seq, !.ringFloor = saved.seq,
                    !.journal = saved.journal, !.journalFloor = saved.journalFloor]
      BY <2>1 DEF Start
    <3>3. /\ HubSound(hub') /\ hub'.up = TRUE /\ hub'.epoch = saved.epoch
          /\ hub'.seq = saved.seq /\ hub'.outgoing = <<>> /\ hub'.held = [t \in Threads |-> 0]
      BY <1>2, <3>1, <3>2, RestoredSound
    <3>4. saved.seq \in Nat
      BY <1>2 DEF Files
    <3> QED BY <1>2, <3>1, <3>3, <3>4
  <2>2. CASE ~ saved.clean
    <3>1. hub' = Empty(hub.epoch + 1) /\ hub.epoch + 1 \in Nat
      BY <1>2, <2>2 DEF Start
    <3>2. /\ HubSound(hub') /\ hub'.up = TRUE /\ hub'.epoch = hub.epoch + 1 /\ hub'.seq = 0
          /\ hub'.outgoing = <<>> /\ hub'.held = [t \in Threads |-> 0]
      BY <3>1, EmptySound
    <3> QED BY <1>2, <3>2
  <2> QED BY <2>1, <2>2
<1>6. HubInv'
  <2>1. \A t \in Threads : hub'.held[t] <= events'
    BY <1>1, <1>2, <1>5
  <2> QED BY <1>1, <1>5, <2>1 DEF HubInv, HubOK
<1>7. WireSound(Unlinked, phone.cursor, hub'.epoch, hub'.seq)
  BY <1>5, UnlinkedSound
<1>8. WireInv'
  BY <1>1, <1>2, <1>5, <1>7 DEF WireInv
<1> QED BY <1>3, <1>4, <1>6, <1>8 DEF EventsInv, FileInv

\* A connection that opens carries nothing.
LEMMA ConnectKeeps == EventsInv /\ (Connect \/ Subscribe) => EventsInv'
<1> SUFFICES ASSUME EventsInv, Connect \/ Subscribe PROVE EventsInv'
  OBVIOUS
<1> DEFINE f == [t \in Threads |-> NotFetched]
<1>1. /\ hub.up /\ link.mode \in {"none", "idle"}
      /\ UNCHANGED <<inbox, events, starts, hub, saved, phone, lost, fresher>>
  BY DEF EventsInv, WireInv, Connect, Subscribe, Unlinked
<1>2. /\ link \in Links /\ link.pushes = <<>> /\ link.queued = <<>> /\ link.reply = <<>>
      /\ link.through <= hub.seq
      /\ (phone.cursor.epoch = hub.epoch => phone.cursor.seq <= hub.seq)
  BY <1>1, Running DEF WireSound
<1>3. f \in [Threads -> Fetched]
  BY DEF NotFetched, Fetched, Values, Unlisted
<1> HIDE DEF f
<1>4. /\ link' \in Links /\ link'.pushes = <<>> /\ link'.queued = <<>> /\ link'.reply = <<>>
      /\ link'.through = link.through /\ link'.mode \in {"idle", "resuming"}
      /\ (link'.mode = "resuming" => link'.from = phone.cursor)
  <2>1. CASE Connect
    BY <1>2, <2>1 DEF Connect, Links
  <2>2. CASE Subscribe
    <3>1. link' = [link EXCEPT !.mode = "resuming", !.from = phone.cursor, !.fetched = f]
      BY <2>2 DEF Subscribe, f
    <3>2. phone.cursor \in Cursors
      BY <1>1, Running
    <3> QED BY <1>2, <1>3, <3>1, <3>2 DEF Links
  <2> QED BY <2>1, <2>2
<1>5. <<>> \o <<>> = <<>>
  OBVIOUS
<1>6. WireSound(link', phone.cursor, hub.epoch, hub.seq)
  BY <1>2, <1>4, <1>5, EmptyWire DEF WireSound
<1>7. VarsOK'
  <2>1. links' \in 0 .. MaxLinks
    BY <1>1, LimitsAssumption, Running DEF Connect, Subscribe, VarsOK
  <2> QED BY <1>1, <2>1, Running DEF VarsOK
<1> QED BY <1>1, <1>6, <1>7, Running, WireKeeps

\* A connection that closes takes its requests along.
LEMMA DisconnectKeeps == EventsInv /\ Disconnect => EventsInv'
<1> SUFFICES ASSUME EventsInv, Disconnect PROVE EventsInv'
  OBVIOUS
<1> DEFINE q == Kept(hub.asked, {r \in ToSet(hub.asked) : r.kind # "resume"})
<1>1. /\ hub.up /\ link' = Unlinked
      /\ lost' = IF link.ahead /\ ~ link.reply[1].resumed THEN Threads ELSE lost
      /\ UNCHANGED <<inbox, events, links, starts, saved, phone, fresher>>
  BY DEF EventsInv, WireInv, Disconnect, Unlinked
<1>2. hub' = [hub EXCEPT !.asked = q] /\ q \in Seq(Requests)
  BY <1>1, Running, KeptType DEF Disconnect, WithoutResume
<1> HIDE DEF q
<1>3. /\ hub' \in Hubs /\ SameEvents(hub', hub) /\ hub'.inFlight = hub.inFlight
      /\ hub'.held = hub.held
  BY <1>1, <1>2, Running DEF Hubs, SameEvents
<1>4. WireSound(link', phone.cursor, hub.epoch, hub.seq)
  <2>1. phone.cursor.epoch = hub.epoch => phone.cursor.seq <= hub.seq
    BY <1>1, Running DEF WireSound
  <2> QED BY <1>1, <2>1, Running, UnlinkedSound
<1>5. VarsOK'
  BY <1>1, Running DEF VarsOK
<1> QED BY <1>1, <1>3, <1>4, <1>5, Running, WireKeeps

\* A phone that reads the reply takes its number, if it was not resumed, and
\* what is on the wire is above it.
LEMMA ReplyKeeps == EventsInv /\ TakeReply => EventsInv'
<1> SUFFICES ASSUME EventsInv, TakeReply PROVE EventsInv'
  OBVIOUS
<1> DEFINE r == link.reply[1]
           w == link.pushes \o link.queued
           d == phone'.cursor
<1>1. /\ hub.up /\ link.reply # <<>>
      /\ phone' = IF r.resumed THEN phone
                  ELSE [phone EXCEPT !.cursor = [epoch |-> r.epoch, seq |-> r.seq],
                                     !.stale = TRUE]
      /\ link' = [link EXCEPT !.reply = <<>>, !.ahead = FALSE]
      /\ UNCHANGED <<inbox, events, links, starts, hub, saved, lost, fresher>>
  BY DEF EventsInv, WireInv, TakeReply, Unlinked
<1>2. link \in Links /\ phone \in Phones /\ phone.cursor \in Cursors /\ hub.seq \in Nat
      /\ hub.epoch \in Nat
  BY <1>1, Running
<1>3. /\ r.epoch = hub.epoch /\ r.seq <= hub.seq
      /\ (r.resumed \/ Between(w, r.seq, hub.seq))
      /\ link.mode \in {"replaying", "live"} /\ (link.mode # "replaying" => link.queued = <<>>)
      /\ link.through <= hub.seq /\ Rising(w) /\ Between(w, 0, hub.seq)
      /\ (phone.cursor.epoch = hub.epoch =>
            phone.cursor.seq <= hub.seq /\ Between(w, phone.cursor.seq, hub.seq))
  BY <1>1, Running DEF WireSound, Links
<1>4. r \in Replies
  BY <1>1, <1>2 DEF Links
<1> HIDE DEF r
<1>5. /\ link' \in Links /\ link'.mode = link.mode /\ link'.reply = <<>>
      /\ link'.pushes = link.pushes /\ link'.queued = link.queued /\ link'.through = link.through
  <2>1. <<>> \in Seq(Replies)
    OBVIOUS
  <2>2. link' = [link EXCEPT !.reply = <<>>, !.ahead = FALSE]
    BY <1>1
  <2> QED BY <1>2, <2>1, <2>2 DEF Links
<1>6. phone' \in Phones /\ (r.resumed => d = phone.cursor)
      /\ (~ r.resumed => d.epoch = r.epoch /\ d.seq = r.seq)
  <2>1. [epoch |-> r.epoch, seq |-> r.seq] \in Cursors
    BY <1>4 DEF Replies, Cursors
  <2> QED BY <1>1, <1>2, <2>1 DEF Phones
<1>7. d.epoch <= hub.epoch /\ (d.epoch = hub.epoch => d.seq <= hub.seq /\ Between(w, d.seq, hub.seq))
  <2>1. phone.cursor.epoch <= hub.epoch /\ hub.epoch <= hub.epoch
    BY <1>1, <1>2, Running
  <2> HIDE DEF w, d
  <2> QED BY <1>3, <1>6, <2>1
<1>8. link'.pushes \o link'.queued = w
  BY <1>5, Zenon
<1>9. WireSound(link', d, hub.epoch, hub.seq)
  <2> HIDE DEF w, d
  <2> QED BY <1>3, <1>5, <1>7, <1>8 DEF WireSound
<1>10. VarsOK'
  BY <1>1, <1>6, Running DEF VarsOK
<1> QED BY <1>1, <1>7, <1>9, <1>10, Running, WireKeeps

\* What follows the first event
LEMMA TailJoined ==
  ASSUME NEW p \in Seq(Entries), p # <<>>, NEW u \in Seq(Entries), NEW x, x = Head(p),
         NEW w, w = p \o u, NEW v, v = Tail(p) \o u
  PROVE  /\ x \in Entries /\ w \in Seq(Entries) /\ v \in Seq(Entries)
         /\ Len(w) = Len(v) + 1 /\ Len(v) \in Nat /\ w[1] = x
         /\ \A i \in 1 .. Len(v) : v[i] = w[i + 1]
<1> DEFINE y == Tail(p)
<1>1. /\ x \in Entries /\ y \in Seq(Entries) /\ Len(p) \in Nat /\ Len(p) # 0 /\ Len(u) \in Nat
      /\ Len(y) = Len(p) - 1 /\ p[1] = x /\ \A i \in 1 .. Len(y) : y[i] = p[i + 1]
  OBVIOUS
<1>2. v = y \o u
  OBVIOUS
<1> HIDE DEF y
<1>3. /\ w \in Seq(Entries) /\ Len(w) = Len(p) + Len(u)
      /\ \A i \in 1 .. Len(w) : w[i] = IF i <= Len(p) THEN p[i] ELSE u[i - Len(p)]
  OBVIOUS
<1>4. /\ v \in Seq(Entries) /\ Len(v) = Len(y) + Len(u)
      /\ \A i \in 1 .. Len(v) : v[i] = IF i <= Len(y) THEN y[i] ELSE u[i - Len(y)]
  BY <1>1, <1>2
<1>5. Len(w) = Len(v) + 1 /\ Len(v) \in Nat
  BY <1>1, <1>3, <1>4
<1>6. w[1] = x
  BY <1>1, <1>3, <1>5
<1>7. ASSUME NEW i \in 1 .. Len(v) PROVE v[i] = w[i + 1]
  <2>1. i + 1 \in 1 .. Len(w)
    BY <1>5
  <2>2. CASE i <= Len(y)
    BY <1>1, <1>3, <1>4, <2>1, <2>2
  <2>3. CASE ~ (i <= Len(y))
    <3>1. ~ (i + 1 <= Len(p)) /\ i - Len(y) = (i + 1) - Len(p)
      BY <1>1, <1>5, <2>3
    <3> QED BY <1>3, <1>4, <2>1, <2>3, <3>1
  <2> QED BY <2>2, <2>3
<1> QED BY <1>1, <1>3, <1>4, <1>5, <1>6, <1>7

\* What follows the first of the pushes is above its number.
LEMMA PushTaken ==
  ASSUME NEW k, NEW c, NEW e, NEW n, WireSound(k, c, e, n), k.pushes # <<>>,
         NEW l \in Links, l.mode = k.mode, l.pushes = Tail(k.pushes), l.queued = k.queued,
         l.reply = k.reply, l.through = k.through,
         NEW d, d.epoch = e => d = c \/ d.seq = Head(k.pushes).seq
  PROVE  /\ Head(k.pushes) \in Entries /\ WireSound(l, d, e, n)
<1> DEFINE p == k.pushes
           u == k.queued
           w == p \o u
           v == Tail(p) \o u
           x == Head(p)
<1>1. /\ p \in Seq(Entries) /\ u \in Seq(Entries) /\ p # <<>> /\ k.mode \in {"replaying", "live"}
      /\ k.reply \in Seq(Replies)
  BY DEF WireSound, Links
<1>2. /\ Rising(w) /\ Between(w, 0, n) /\ (c.epoch = e => c.seq <= n /\ Between(w, c.seq, n))
      /\ Len(k.reply) <= 1
      /\ k.reply # <<>> =>
           /\ k.reply[1].epoch = e /\ k.reply[1].seq <= n
           /\ k.reply[1].resumed \/ Between(w, k.reply[1].seq, n)
      /\ (k.mode # "replaying" => u = <<>>) /\ k.through <= n
  BY DEF WireSound
<1>3. l.pushes \o l.queued = v
  BY Zenon
<1> HIDE DEF p, u
<1>4. /\ x \in Entries /\ w \in Seq(Entries) /\ v \in Seq(Entries)
      /\ Len(w) = Len(v) + 1 /\ Len(v) \in Nat /\ w[1] = x
      /\ \A i \in 1 .. Len(v) : v[i] = w[i + 1]
  <2>1. x = Head(p) /\ w = p \o u /\ v = Tail(p) \o u
    OBVIOUS
  <2> HIDE DEF x, w, v
  <2> QED BY <1>1, <2>1, TailJoined
<1> HIDE DEF x, w, v
<1>5. \A i \in 1 .. Len(v) : i + 1 \in 1 .. Len(w) /\ 1 < i + 1 /\ 1 \in 1 .. Len(w)
  BY <1>4
<1>6. Rising(v) /\ \A low : Between(w, low, n) => Between(v, low, n)
  <2>1. ASSUME NEW i \in 1 .. Len(v), NEW j \in 1 .. Len(v), i < j PROVE v[i].seq < v[j].seq
    <3>1. i + 1 < j + 1
      BY <2>1
    <3> QED BY <1>2, <1>4, <1>5, <3>1 DEF Rising
  <2>2. ASSUME NEW low, Between(w, low, n) PROVE Between(v, low, n)
    BY <1>4, <1>5, <2>2 DEF Between
  <2> QED BY <2>1, <2>2 DEF Rising
<1>7. x.seq <= n /\ Between(v, x.seq, n)
  <2>1. 1 \in 1 .. Len(w)
    BY <1>4
  <2>2. x.seq <= n
    BY <1>2, <1>4, <2>1 DEF Between
  <2>3. ASSUME NEW i \in 1 .. Len(v) PROVE x.seq < v[i].seq /\ v[i].seq <= n
    BY <1>2, <1>4, <1>5, <2>1 DEF Rising, Between
  <2> QED BY <2>2, <2>3 DEF Between
<1>8. /\ Rising(v) /\ Between(v, 0, n) /\ (d.epoch = e => d.seq <= n /\ Between(v, d.seq, n))
      /\ k.reply # <<>> => k.reply[1].resumed \/ Between(v, k.reply[1].seq, n)
  <2>1. d.epoch = e => d.seq <= n /\ Between(v, d.seq, n)
    BY <1>2, <1>6, <1>7 DEF x, p
  <2> QED BY <1>2, <1>6, <2>1
<1>9. WireSound(l, d, e, n)
  BY <1>1, <1>2, <1>3, <1>8 DEF WireSound, u
<1> QED BY <1>4, <1>9 DEF x, p

\* A phone that reads a push takes its number, or has it already.
LEMMA PushKeeps == EventsInv /\ TakePush => EventsInv'
<1> SUFFICES ASSUME EventsInv, TakePush PROVE EventsInv'
  OBVIOUS
<1> DEFINE e == Head(link.pushes)
           c == [epoch |-> hub.epoch, seq |-> e.seq]
           new == [phone.list EXCEPT ![e.thread] = e.value]
           late == link.ahead \/ link.reply # <<>>
<1>1. /\ hub.up /\ link.pushes # <<>>
      /\ phone' \in {phone, [phone EXCEPT !.cursor = c, !.stale = TRUE],
                     [phone EXCEPT !.cursor = c, !.list[e.thread] = e.value]}
      /\ link' = [link EXCEPT !.pushes = Tail(@), !.ahead = @ \/ link.reply # <<>>]
      /\ UNCHANGED <<inbox, events, links, starts, hub, saved, lost, fresher>>
  BY DEF EventsInv, WireInv, TakePush, Unlinked
<1>2. /\ link \in Links /\ link.pushes \in Seq(Entries) /\ phone \in Phones
      /\ phone.cursor \in Cursors /\ phone.list \in [Threads -> Values]
      /\ hub.seq \in Nat /\ hub.epoch \in Nat /\ link.ahead \in BOOLEAN
  BY <1>1, Running DEF Links, Phones
<1>3. e \in Entries /\ Tail(link.pushes) \in Seq(Entries)
  BY <1>1, <1>2
<1>4. e.seq \in Nat /\ e.thread \in Threads /\ e.value \in Values
  BY <1>3 DEF Entries, Seqs
<1> DEFINE rest == Tail(link.pushes)
<1>5. link' = [link EXCEPT !.pushes = rest, !.ahead = late]
  BY <1>1, <1>2 DEF Links
<1> HIDE DEF rest, late
<1>6. late \in BOOLEAN
  BY <1>2, Zenon DEF late
<1>7. /\ link' \in Links /\ link'.mode = link.mode /\ link'.pushes = rest
      /\ link'.queued = link.queued /\ link'.reply = link.reply /\ link'.through = link.through
  BY <1>2, <1>3, <1>5, <1>6 DEF Links, rest
<1>8. phone' \in {phone, [phone EXCEPT !.cursor = c, !.stale = TRUE],
                  [phone EXCEPT !.cursor = c, !.list = new]}
  BY <1>1, <1>2 DEF Phones
<1> HIDE DEF e
<1>9. new \in [Threads -> Values] /\ c \in Cursors
  BY <1>2, <1>4 DEF Cursors
<1>10. c.epoch = hub.epoch /\ c.seq = e.seq
  OBVIOUS
<1> HIDE DEF new, c
<1>11. phone' \in Phones /\ phone'.cursor \in {phone.cursor, c}
  BY <1>2, <1>8, <1>9 DEF Phones
<1>12. phone'.cursor.epoch <= hub.epoch
  BY <1>1, <1>2, <1>10, <1>11, Running
<1>13. WireSound(link', phone'.cursor, hub.epoch, hub.seq)
  <2>1. WireSound(link, phone.cursor, hub.epoch, hub.seq)
    BY <1>1, Running
  <2> DEFINE d == phone'.cursor
  <2>2. d.epoch = hub.epoch => d = phone.cursor \/ d.seq = Head(link.pushes).seq
    BY <1>10, <1>11 DEF e
  <2>3. link'.pushes = Tail(link.pushes)
    BY <1>7 DEF rest
  <2> HIDE DEF d
  <2>4. WireSound(link', d, hub.epoch, hub.seq)
    BY <1>1, <1>7, <2>1, <2>2, <2>3, PushTaken
  <2> QED BY <2>4 DEF d
<1>14. VarsOK'
  BY <1>1, <1>11, Running DEF VarsOK
<1> QED BY <1>1, <1>12, <1>13, <1>14, Running, WireKeeps

\* A phone that lists the threads anew keeps its cursor.
LEMMA RefetchKeeps == EventsInv /\ Refetch => EventsInv'
<1> SUFFICES ASSUME EventsInv, Refetch PROVE EventsInv'
  OBVIOUS
<1>1. /\ hub.up
      /\ phone' = [phone EXCEPT !.list = inbox, !.stale = FALSE]
      /\ lost' = lost \cap Coming
      /\ fresher' = {t \in Threads : inbox[t] # hub.last[t]} \cup (fresher \cap Coming)
      /\ UNCHANGED <<inbox, events, links, starts, hub, saved, link>>
  BY DEF EventsInv, WireInv, Refetch, Unlinked
<1>2. phone' \in Phones /\ phone'.cursor = phone.cursor
  BY <1>1, Running DEF Phones, VarsOK
<1>3. VarsOK'
  BY <1>1, <1>2, Running DEF VarsOK
<1> QED BY <1>1, <1>2, <1>3, Running, WireKeeps

--------------------------------------------------------------------------------
(* The theorems.                                                             *)

\* Every step of the specification, and a stutter, keeps the invariant.
LEMMA StepKeeps == EventsInv /\ [Next]_vars => EventsInv'
<1> SUFFICES ASSUME EventsInv, [Next]_vars PROVE EventsInv'
  OBVIOUS
<1>1. CASE ServerStep
  BY <1>1, ServerKeeps
<1>2. CASE HubStep
  BY <1>2, FlushKeeps, SummaryKeeps, VisibilityKeeps, FetchKeeps, ResumeKeeps, CommitKeeps,
     DeliveryKeeps, StopKeeps, CrashKeeps, StartKeeps DEF HubStep
<1>3. CASE PhoneStep
  BY <1>3, ConnectKeeps, WatchKeeps, DisconnectKeeps, ReplyKeeps, PushKeeps, RefetchKeeps
     DEF PhoneStep
<1>4. CASE UNCHANGED vars
  BY <1>4 DEF vars, EventsInv, VarsOK, HubInv, FileInv, WireInv
<1> QED BY <1>1, <1>2, <1>3, <1>4 DEF Next

(* The inductive invariant: what the hub has told and can tell again carries  *)
(* rising numbers up to the head, the journal numbers its entries apart, the  *)
(* wire goes on from the cursor of the phone and from the reply, and a clean  *)
(* file reaches as far as the phone (RemoteEventHub, remoteEventState.ts).    *)
THEOREM EventsInvariant == Spec => []EventsInv
<1>1. Init => EventsInv
  BY Initially
<1>2. EventsInv /\ [Next]_vars => EventsInv'
  BY StepKeeps
<1> QED BY <1>1, <1>2, PTL DEF Spec

(* The variables have their types, the ring holds at most BufferLimit events  *)
(* and the journal at most JournalLimit threads, whatever the limits are, and *)
(* the floors of both stay at or below the head (append, updateJournal).      *)
THEOREM TypeCorrect == Spec => []TypeOK
<1>1. EventsInv => TypeOK
  <2> SUFFICES ASSUME EventsInv PROVE TypeOK
    OBVIOUS
  <2>1. /\ hub \in Hubs /\ HubSound(hub) /\ hub.epoch <= starts
        /\ \A t \in Threads : hub.held[t] <= events
    BY DEF EventsInv, HubInv, HubOK, HubSound
  <2>2. /\ VarsOK /\ events \in Nat /\ events <= MaxEvents /\ starts \in Nat /\ starts <= MaxStarts
        /\ MaxEvents \in Nat /\ MaxStarts \in Nat
    BY LimitsAssumption DEF EventsInv, VarsOK
  <2>3. link \in Links
    <3>1. CASE hub.up
      BY <3>1, Running
    <3>2. CASE ~ hub.up
      <4>1. link = Unlinked
        BY <3>2 DEF EventsInv, WireInv
      <4> DEFINE c == [epoch |-> 0, seq |-> 0]
      <4>2. Unlinked \in Links
        <5>1. 0 \in Nat /\ (c.epoch = 1 => c.seq <= 0)
          OBVIOUS
        <5> HIDE DEF c
        <5> QED BY <5>1, UnlinkedSound
      <4> QED BY <4>1, <4>2
    <3> QED BY <3>1, <3>2
  <2>4. HubTypeOK
    <3>1. hub.epoch \in 0 .. MaxStarts
      BY <2>1, <2>2 DEF Hubs
    <3>2. hub.ringFloor \in 0 .. hub.seq /\ hub.journalFloor \in 0 .. hub.seq
          /\ Len(hub.ring) <= BufferLimit
      BY <2>1 DEF HubSound, RingSound, Hubs
    <3>3. Cardinality({t \in Threads : hub.journal[t] # NoEntry}) <= JournalLimit
      BY <2>1 DEF HubSound, JournalSound, Recorded
    <3>4. hub.held \in [Threads -> 0 .. MaxEvents]
      <4>1. hub.held \in [Threads -> Nat]
        BY <2>1 DEF Hubs
      <4>2. \A t \in Threads : hub.held[t] \in 0 .. MaxEvents
        BY <2>1, <2>2, <4>1
      <4> QED BY <4>1, <4>2
    <3> QED BY <2>1, <3>1, <3>2, <3>3, <3>4 DEF HubTypeOK, Hubs, Seqs
  <2> QED BY <2>2, <2>3, <2>4 DEF TypeOK, VarsOK, Links, Phones, Seqs
<1> QED BY <1>1, EventsInvariant, PTL

(* The phone never holds a number that the hub has still to give: not after a *)
(* restart from a clean file, which reaches as far as the phone, and not from *)
(* nothing, which begins an epoch no phone has seen (start, isResumable,      *)
(* EventCursorTracker.accept).                                                *)
THEOREM CursorBehind == Spec => []CursorWithinHead
<1>1. EventsInv => CursorWithinHead
  BY Running DEF CursorWithinHead, WireSound
<1> QED BY <1>1, EventsInvariant, PTL

(* What is on its way to the phone, replay and live events together, has      *)
(* rising numbers above the cursor, so that the phone applies every event     *)
(* (commitResume, startDelivery, deliver, EventCursorTracker.observe).        *)
THEOREM AllApplied == Spec => []NothingSkipped
<1>1. EventsInv => NothingSkipped
  <2> SUFFICES ASSUME EventsInv PROVE NothingSkipped
    OBVIOUS
  <2> DEFINE w == link.pushes \o link.queued
  <2>1. CASE hub.up
    <3>1. Rising(w) /\ (phone.cursor.epoch = hub.epoch => Between(w, phone.cursor.seq, hub.seq))
      BY <2>1, Running DEF WireSound
    <3>2. w \in Seq(Entries) /\ phone.cursor.seq \in Nat
      BY <2>1, Running DEF Links, Cursors
    <3> HIDE DEF w
    <3>3. \A i \in 1 .. Len(w) : w[i].seq \in Nat
      BY <3>2, EntryNumbers
    <3>4. /\ \A i, j \in 1 .. Len(w) : i < j => w[i].seq < w[j].seq
          /\ phone.cursor.epoch = hub.epoch => \A i \in 1 .. Len(w) : w[i].seq > phone.cursor.seq
      BY <3>1, <3>2, <3>3 DEF Rising, Between
    <3> QED BY <3>4 DEF NothingSkipped, w
  <2>2. CASE ~ hub.up
    <3>1. link.pushes = <<>> /\ link.queued = <<>>
      BY <2>2 DEF EventsInv, WireInv, Unlinked
    <3>2. w = <<>>
      BY <3>1
    <3> HIDE DEF w
    <3>3. /\ \A i, j \in 1 .. Len(w) : i < j => w[i].seq < w[j].seq
          /\ \A i \in 1 .. Len(w) : w[i].seq > phone.cursor.seq
      BY <3>2
    <3> QED BY <3>3 DEF NothingSkipped, w
  <2> QED BY <2>1, <2>2
<1> QED BY <1>1, EventsInvariant, PTL
================================================================================
