------------------------- MODULE RemoteEvents_agreement -------------------------
(*****************************************************************************)
(* The phone lists what the server lists when all is quiet, but for the      *)
(* threads of which the hub let a change slip. The invariant says of each    *)
(* thread what the events on the wire, and what a resume from the ring and   *)
(* the journal would send, leave the phone with. It is kept in three layers: *)
(* one thread (a ring of events, an entry of the journal, a set of events on *)
(* the wire), one hub on its way through a handler, and the steps.           *)
(*****************************************************************************)
EXTENDS RemoteEvents_proof

--------------------------------------------------------------------------------
(* What the phone is to be told.                                             *)

\* Of a set of events S, e is the last one of thread t.
LastFor(e, S, t) == e \in S /\ e.thread = t /\ \A f \in S : f.thread = t => f.seq <= e.seq

\* S has no event of thread t above k.
Silent(S, k, t) == \A e \in S : e.thread = t => e.seq <= k

\* The last event of thread t in the ring R is above k and says v.
RingTells(R, k, t, v) == \E e \in R : LastFor(e, R, t) /\ k < e.seq /\ e.value = v

\* With the ring's floor at F, a replay of the entry j of the journal fetches the
\* summary, or says that the thread is gone.
Fetches(j, F) == j.kind = "deferred" \/ (j.kind = "summary" /\ j.seq <= F)
Drops(j, F) == j.kind = "removed" /\ j.seq <= F

\* What a resume after number k makes of thread t, with the ring R, its floor F,
\* the journal's floor G and entry j, ends with v: it is fetched, told or, when
\* the replay has nothing of the thread, listed already.
Off(R, F, G, j, k, t, v, listed) ==
  /\ j.seq > k /\ Fetches(j, F) =>
       \/ v # Unlisted
       \/ Silent(R, k, t) /\ listed
       \/ RingTells(R, k, t, v) /\ Silent(R, G, t)
  /\ j.seq > k /\ Drops(j, F) => v = Unlisted
  /\ ~ (j.seq > k /\ (Fetches(j, F) \/ Drops(j, F))) =>
       (Silent(R, k, t) /\ listed) \/ RingTells(R, k, t, v)

\* What is on the wire W ends with v for thread t, and a resume after any number
\* up to there would do the same.
On(R, F, G, j, W, t, v, listed) ==
  /\ (\A e \in W : e.thread # t) => listed
  /\ \A e \in W : LastFor(e, W, t) =>
       /\ e.value = v
       /\ e.seq > F => e \in R \/ (j.seq = e.seq /\ j.kind = "deferred")
       /\ \/ j = NoEntry /\ e.seq <= G
          \/ j.seq = e.seq /\ (v = Unlisted <=> j.kind = "removed")
          \/ j.seq > e.seq /\ Fetches(j, F) /\ v = Unlisted /\ e.seq <= G

\* The hub answers a resume from cursor c, if c is not ahead of it.
Covered(h, c) == c.epoch = h.epoch /\ (c.seq >= h.ringFloor \/ c.seq >= h.journalFloor)

\* The hub h, with the threads `due` still to be asked about, counts on the phone
\* to have v for thread t in the end: what the server lists, or what was appended
\* last and was not fetched since.
Owes(h, due, in, l, f, t, v) ==
  /\ t \notin l /\ h.held[t] = 0
  /\ \/ v = in[t] /\ (v = Unlisted \/ t \notin due)
     \/ v = h.last[t] /\ v # None /\ t \notin f

\* The phone will have it, from the wire and from any resume the hub answers.
Agrees(h, due, in, l, f, W, x, t) ==
  \A v \in Values : Owes(h, due, in, l, f, t, v) =>
    /\ Covered(h, x.seen) =>
         Off(ToSet(h.ring), h.ringFloor, h.journalFloor, h.journal[t], x.seen.seq,
             t, v, x.all \/ x.list[t] = v)
    /\ x.served =>
         On(ToSet(h.ring), h.ringFloor, h.journalFloor, h.journal[t], W,
            t, v, x.all \/ x.list[t] = v)

\* Ring and journal tell the same of thread t, whose entry is j: no event of the
\* ring is later, and the entry's own event is there.
Paired(R, F, G, j, t) ==
  /\ j.kind = "none" => j = NoEntry
  /\ \A e \in R : e.thread = t => e.seq <= j.seq \/ (j = NoEntry /\ e.seq <= G)
  /\ j.kind \in {"summary", "removed"} /\ j.seq > F =>
       \E e \in R : e.thread = t /\ e.seq = j.seq /\ (e.value = Unlisted <=> j.kind = "removed")

\* On the wire W there is an event of thread t from number m on, or nothing that
\* is not.
Reached(W, t, m) == (\E e \in W : e.thread = t /\ m <= e.seq) \/ \A e \in W : m <= e.seq

\* What ring R and journal j tell is on the wire, or the wire is past it.
Backed(R, j, W) ==
  /\ \A e \in R : Reached(W, e.thread, e.seq)
  /\ \A t \in Threads : j[t].kind = "removed" => Reached(W, t, j[t].seq)

\* The threads of D are as they should be; x is what the phone knows.
Good(h, due, in, l, f, W, x, D) ==
  /\ \A t \in Threads :
       Paired(ToSet(h.ring), h.ringFloor, h.journalFloor, h.journal[t], t)
  /\ x.served => Backed(ToSet(h.ring), h.journal, W)
  /\ \A t \in D : Agrees(h, due, in, l, f, W, x, t)

\* Requests the hub waits for are among the ones it has made.
Requested(h) ==
  /\ \A t \in h.inFlight : [kind |-> "summary", thread |-> t] \in ToSet(h.asked)
  /\ \A t \in Threads : h.held[t] > 0 => [kind |-> "visible", thread |-> t] \in ToSet(h.asked)

\* Threads whose summary is to be asked for or to be answered
Due(h) == ToSet(h.pending) \cup h.inFlight

\* The phone is sent what the hub tells.
Served == link.mode \in {"replaying", "live"}

\* The reply on the wire tells the phone to list anew.
Unanswered == link.reply # <<>> /\ ~ link.reply[1].resumed

\* The cursor of the phone, with that reply
Seen ==
  IF Unanswered THEN [epoch |-> link.reply[1].epoch, seq |-> link.reply[1].seq]
                ELSE phone.cursor

\* What the phone knows, or will when it has the reply
View == [served |-> Served, seen |-> Seen, all |-> phone.stale \/ Unanswered, list |-> phone.list]

\* The events on the wire
WireOf(k) == ToSet(k.pushes \o k.queued)

\* The hub that the file restores
Restored(f) ==
  [Empty(f.epoch) EXCEPT !.seq = f.seq, !.ringFloor = f.seq,
                         !.journal = f.journal, !.journalFloor = f.journalFloor]

\* While the hub runs: the wire, and any resume, will leave the phone with what
\* the server lists.
UpAgrees ==
  /\ Requested(hub)
  /\ Good(hub, Due(hub), inbox, lost, fresher, WireOf(link), View, Threads)
  /\ Unanswered /\ ~ link.ahead => ~ Covered(hub, phone.cursor)
  /\ Served => Seen.epoch = hub.epoch

\* The inductive invariant.  While the hub is down a clean file stands for it.
AgreeInv ==
  /\ hub.up => UpAgrees
  /\ ~ hub.up /\ saved.clean =>
       Good(Restored(saved), {}, inbox, lost, fresher, {}, View, Threads)

--------------------------------------------------------------------------------
(* One thread: what the steps of the hub make of its events.                 *)

\* Events of a ring: the numbers are above the floor and up to the head, once each.
RingSet(R, F, n) ==
  /\ R \subseteq Entries
  /\ \A e \in R : F < e.seq /\ e.seq <= n
  /\ \A e, f \in R : e.seq = f.seq => e = f

\* The numbers of events are naturals.
LEMMA Numbers ==
  ASSUME NEW R \in SUBSET Entries
  PROVE  \A e \in R : e.seq \in Nat /\ e.thread \in Threads /\ e.value \in Values
BY DEF Entries, Seqs

\* Events with rising numbers
LEMMA RisingSet ==
  ASSUME NEW s \in Seq(Entries), Rising(s), NEW low \in Nat, NEW n \in Nat, Between(s, low, n)
  PROVE  RingSet(ToSet(s), low, n)
<1>1. /\ Len(s) \in Nat
      /\ \A i \in 1 .. Len(s) : s[i] \in Entries /\ s[i].seq \in Nat /\ low < s[i].seq /\ s[i].seq <= n
      /\ \A i, j \in 1 .. Len(s) : i < j => s[i].seq < s[j].seq
  BY EntryNumbers DEF Rising, Between
<1>2. ASSUME NEW e \in ToSet(s), NEW f \in ToSet(s), e.seq = f.seq PROVE e = f
  <2>1. PICK i \in 1 .. Len(s) : e = s[i]
    BY <1>1 DEF ToSet
  <2>2. PICK j \in 1 .. Len(s) : f = s[j]
    BY <1>1 DEF ToSet
  <2>3. ~ (i < j) /\ ~ (j < i)
    BY <1>1, <1>2, <2>1, <2>2
  <2> QED BY <2>1, <2>2, <2>3
<1>3. ToSet(s) \subseteq Entries /\ \A e \in ToSet(s) : low < e.seq /\ e.seq <= n
  BY <1>1 DEF ToSet
<1> QED BY <1>2, <1>3 DEF RingSet

\* When the ring is cut at a higher floor, a resume that is still answered ends
\* the same: what is cut off was told, or the journal says it.
LEMMA TrimOff ==
  ASSUME NEW F \in Nat, NEW F2 \in Nat, F <= F2, NEW n \in Nat, NEW G \in Nat,
         NEW R, RingSet(R, F, n), NEW R2, R2 = {e \in R : e.seq > F2},
         NEW j \in JournalEntries, NEW k \in Nat, k >= F2 \/ k >= G,
         NEW t, NEW v, NEW listed, Paired(R, F, G, j, t), Off(R, F, G, j, k, t, v, listed)
  PROVE  Off(R2, F2, G, j, k, t, v, listed)
<1>1. /\ \A e \in R : e.seq \in Nat /\ F < e.seq
      /\ \A e \in R2 : e \in R
      /\ j.seq \in Nat /\ j.kind \in {"none", "summary", "deferred", "removed"}
  BY Numbers DEF RingSet, JournalEntries, Seqs
<1>2. ASSUME NEW m, Silent(R, m, t) PROVE Silent(R2, m, t)
  BY <1>1, <1>2 DEF Silent
<1>3. ASSUME NEW e \in R, LastFor(e, R, t), k < e.seq, e.value = v, e.seq > F2
      PROVE  RingTells(R2, k, t, v)
  BY <1>1, <1>3 DEF RingTells, LastFor
<1>4. ASSUME j.kind \in {"summary", "removed"}, j.seq > F, j.seq > k, ~ Fetches(j, F), ~ Drops(j, F)
      PROVE  v = Unlisted <=> j.kind = "removed"
  <2>1. PICK e \in R : e.thread = t /\ e.seq = j.seq /\ (e.value = Unlisted <=> j.kind = "removed")
    BY <1>4 DEF Paired
  <2>2. ~ Silent(R, k, t)
    BY <1>1, <1>4, <2>1 DEF Silent
  <2>3. RingTells(R, k, t, v)
    BY <1>4, <2>2 DEF Off
  <2>4. PICK d \in R : LastFor(d, R, t) /\ d.value = v
    BY <2>3 DEF RingTells
  <2>5. j # NoEntry
    BY <1>4 DEF NoEntry
  <2>6. d.seq = e.seq
    BY <1>1, <2>1, <2>4, <2>5 DEF LastFor, Paired
  <2> QED BY <2>1, <2>4, <2>6 DEF RingSet
<1>5. ASSUME j.seq > k, Fetches(j, F2)
      PROVE  \/ v # Unlisted
             \/ Silent(R2, k, t) /\ listed
             \/ RingTells(R2, k, t, v) /\ Silent(R2, G, t)
  <2>1. CASE Fetches(j, F)
    <3>1. CASE RingTells(R, k, t, v) /\ Silent(R, G, t)
      <4>1. PICK e \in R : LastFor(e, R, t) /\ k < e.seq /\ e.value = v
        BY <3>1 DEF RingTells
      <4>2. e.seq <= G
        BY <3>1, <4>1 DEF Silent, LastFor
      <4>3. e.seq > F2
        BY <1>1, <4>1, <4>2
      <4> QED BY <1>2, <1>3, <3>1, <4>1, <4>3
    <3> QED BY <1>2, <1>5, <2>1, <3>1 DEF Off
  <2>2. CASE ~ Fetches(j, F)
    <3>1. j.kind = "summary" /\ j.seq > F
      BY <1>1, <1>5, <2>2 DEF Fetches
    <3> QED BY <1>4, <1>5, <2>2, <3>1 DEF Drops
  <2> QED BY <2>1, <2>2
<1>6. ASSUME j.seq > k, Drops(j, F2) PROVE v = Unlisted
  <2>1. CASE Drops(j, F)
    BY <1>6, <2>1 DEF Off
  <2>2. CASE ~ Drops(j, F)
    <3>1. j.kind = "removed" /\ j.seq > F
      BY <1>1, <1>6, <2>2 DEF Drops
    <3> QED BY <1>4, <1>6, <2>2, <3>1 DEF Fetches
  <2> QED BY <2>1, <2>2
<1>7. ASSUME ~ (j.seq > k /\ (Fetches(j, F2) \/ Drops(j, F2)))
      PROVE  (Silent(R2, k, t) /\ listed) \/ RingTells(R2, k, t, v)
  <2>1. ~ (j.seq > k /\ (Fetches(j, F) \/ Drops(j, F)))
    BY <1>1, <1>7 DEF Fetches, Drops
  <2>2. (Silent(R, k, t) /\ listed) \/ RingTells(R, k, t, v)
    BY <2>1 DEF Off
  <2>3. CASE RingTells(R, k, t, v)
    <3>1. PICK e \in R : LastFor(e, R, t) /\ k < e.seq /\ e.value = v
      BY <2>3 DEF RingTells
    <3>2. ASSUME ~ (e.seq > F2) PROVE FALSE
      <4>1. e.seq \in Nat /\ e.seq > G /\ k < e.seq
        BY <1>1, <3>1, <3>2
      <4>2. e.seq <= j.seq
        BY <3>1, <4>1 DEF LastFor, Paired
      <4>3. j.kind # "none"
        BY <1>1, <4>1, <4>2 DEF Paired, NoEntry
      <4>4. j.kind \in {"summary", "removed"} /\ j.seq > F2
        BY <1>1, <1>7, <4>1, <4>2, <4>3 DEF Fetches, Drops
      <4>5. PICK d \in R : d.thread = t /\ d.seq = j.seq
        BY <1>1, <4>4 DEF Paired
      <4>6. j.seq <= e.seq
        BY <3>1, <4>5 DEF LastFor
      <4> QED BY <1>1, <3>2, <4>1, <4>4, <4>6
    <3> QED BY <1>3, <3>1, <3>2
  <2> QED BY <1>2, <2>2, <2>3
<1> QED BY <1>5, <1>6, <1>7 DEF Off

\* It still pairs ring and journal.
LEMMA TrimPaired ==
  ASSUME NEW F \in Nat, NEW F2 \in Nat, F <= F2, NEW n \in Nat, NEW G,
         NEW R, RingSet(R, F, n), NEW R2, R2 = {e \in R : e.seq > F2},
         NEW j \in JournalEntries, NEW t, Paired(R, F, G, j, t)
  PROVE  Paired(R2, F2, G, j, t)
<1>1. j.seq \in Nat
  BY DEF JournalEntries, Seqs
<1> QED BY <1>1 DEF Paired

\* An entry that leaves the journal leaves its number to the floor: unless it
\* was a deferral above the ring's floor, a resume that is still answered ends the
\* same.
LEMMA EvictOff ==
  ASSUME NEW F \in Nat, NEW G \in Nat, NEW G2 \in Nat, G <= G2, NEW R, R \subseteq Entries,
         NEW j \in JournalEntries, j.seq <= G2, j.kind = "deferred" => j.seq <= F,
         NEW k \in Nat, k >= F \/ k >= G2,
         NEW t, NEW v, NEW listed, Off(R, F, G, j, k, t, v, listed)
  PROVE  Off(R, F, G2, NoEntry, k, t, v, listed)
<1>1. j.seq \in Nat
  BY DEF JournalEntries, Seqs
<1>2. ~ (j.seq > k /\ (Fetches(j, F) \/ Drops(j, F)))
  BY <1>1 DEF Fetches, Drops
<1>3. ~ (NoEntry.seq > k)
  BY DEF NoEntry
<1> QED BY <1>2, <1>3 DEF Off

\* The floor of the journal rises.
LEMMA FloorOff ==
  ASSUME NEW F, NEW G \in Nat, NEW G2 \in Nat, G <= G2, NEW R, R \subseteq Entries, NEW j, NEW k,
         NEW t, NEW v, NEW listed, Off(R, F, G, j, k, t, v, listed)
  PROVE  Off(R, F, G2, j, k, t, v, listed)
<1>1. Silent(R, G, t) => Silent(R, G2, t)
  BY Numbers DEF Silent
<1> QED BY <1>1 DEF Off

\* Events of other threads in the ring change nothing for this one.
LEMMA OtherOff ==
  ASSUME NEW F, NEW G, NEW R, NEW t, NEW E, \A e \in E : e.thread # t, NEW S, S = R \cup E,
         NEW j, NEW k, NEW v, NEW listed, Off(R, F, G, j, k, t, v, listed)
  PROVE  Off(S, F, G, j, k, t, v, listed)
<1>1. \A m : Silent(R, m, t) => Silent(S, m, t)
  BY DEF Silent
<1>2. RingTells(R, k, t, v) => RingTells(S, k, t, v)
  BY DEF RingTells, LastFor
<1> QED BY <1>1, <1>2 DEF Off

\* Nor do they unpair ring and journal.
LEMMA OtherPaired ==
  ASSUME NEW F, NEW G, NEW R, NEW t, NEW E, \A e \in E : e.thread # t, NEW S, S = R \cup E, NEW j,
         Paired(R, F, G, j, t)
  PROVE  Paired(S, F, G, j, t)
BY DEF Paired

\* An entry that leaves the journal leaves nothing unpaired.
LEMMA EvictPaired ==
  ASSUME NEW F \in Nat, NEW G \in Nat, NEW G2 \in Nat, G <= G2, NEW R, R \subseteq Entries,
         NEW j \in JournalEntries, j.seq <= G2, NEW t, Paired(R, F, G, j, t)
  PROVE  Paired(R, F, G2, NoEntry, t)
<1>1. j.seq \in Nat /\ \A e \in R : e.seq \in Nat
  BY Numbers DEF JournalEntries, Seqs
<1>2. NoEntry.kind = "none"
  BY DEF NoEntry
<1> QED BY <1>1, <1>2 DEF Paired

\* Nor does a higher floor of the journal.
LEMMA FloorPaired ==
  ASSUME NEW F, NEW G \in Nat, NEW G2 \in Nat, G <= G2, NEW R, R \subseteq Entries,
         NEW j, NEW t, Paired(R, F, G, j, t)
  PROVE  Paired(R, F, G2, j, t)
BY Numbers DEF Paired

\* An event that was just appended is what a resume ends with.
LEMMA NewOff ==
  ASSUME NEW F \in Nat, NEW n \in Nat, F <= n, NEW R, \A x \in R : x.seq \in Nat /\ x.seq <= n + 1,
         NEW e \in R, e.seq = n + 1, NEW j, j = Told(n + 1, e.value),
         NEW G, NEW k \in Nat, k <= n, NEW listed
  PROVE  Off(R, F, G, j, k, e.thread, e.value, listed) /\ Paired(R, F, G, j, e.thread)
<1>1. /\ j.seq = n + 1 /\ j.kind \in {"removed", "summary"}
      /\ (j.kind = "removed" <=> e.value = Unlisted)
  BY DEF Told
<1>2. ~ Fetches(j, F) /\ ~ Drops(j, F)
  BY <1>1 DEF Fetches, Drops
<1>3. RingTells(R, k, e.thread, e.value)
  BY DEF RingTells, LastFor
<1>4. Off(R, F, G, j, k, e.thread, e.value, listed)
  BY <1>2, <1>3 DEF Off
<1>5. Paired(R, F, G, j, e.thread)
  BY <1>1 DEF Paired
<1> QED BY <1>4, <1>5

\* A deferral makes a resume fetch the summary.  It does not fetch that the thread
\* is not listed, which the phone must have from elsewhere.
LEMMA DeferOff ==
  ASSUME NEW F \in Nat, NEW n \in Nat, NEW R, RingSet(R, F, n), NEW G \in Nat, NEW G2 \in Nat, G <= G2,
         NEW j \in JournalEntries, NEW j2, j2 = [seq |-> n + 1, kind |-> "deferred"],
         NEW k \in Nat, k <= n, NEW t, NEW v, NEW listed, Paired(R, F, G, j, t),
         v = Unlisted => j.kind # "removed" /\ Off(R, F, G, j, k, t, v, listed)
  PROVE  Off(R, F, G2, j2, k, t, v, listed)
<1>1. /\ \A e \in R : e.seq \in Nat /\ F < e.seq
      /\ j.seq \in Nat /\ j.kind \in {"none", "summary", "deferred", "removed"}
  BY Numbers DEF RingSet, JournalEntries, Seqs
<1>2. Silent(R, G, t) => Silent(R, G2, t)
  BY <1>1 DEF Silent
<1>3. ASSUME v = Unlisted
      PROVE  (Silent(R, k, t) /\ listed) \/ (RingTells(R, k, t, v) /\ Silent(R, G, t))
  <2>1. ~ Drops(j, F) /\ Off(R, F, G, j, k, t, v, listed)
    BY <1>3 DEF Drops
  <2>2. CASE j.seq > k /\ Fetches(j, F)
    BY <1>3, <2>1, <2>2 DEF Off
  <2>3. CASE ~ (j.seq > k /\ Fetches(j, F)) /\ RingTells(R, k, t, v)
    <3>1. PICK e \in R : LastFor(e, R, t) /\ k < e.seq /\ e.value = v
      BY <2>3 DEF RingTells
    <3>2. ASSUME e.seq <= j.seq, ~ (j = NoEntry /\ e.seq <= G) PROVE FALSE
      <4>1. j.seq > k /\ j # NoEntry
        BY <1>1, <3>1, <3>2 DEF NoEntry
      <4>2. j.kind = "summary" /\ j.seq > F
        BY <1>1, <1>3, <2>3, <4>1 DEF Fetches, Paired
      <4>3. PICK d \in R : d.thread = t /\ d.seq = j.seq /\ d.value # Unlisted
        BY <4>2 DEF Paired
      <4>4. d.seq = e.seq
        BY <1>1, <3>1, <3>2, <4>3 DEF LastFor
      <4> QED BY <1>3, <3>1, <4>3, <4>4 DEF RingSet
    <3>3. e.seq <= G
      BY <3>1, <3>2 DEF Paired, LastFor
    <3>4. Silent(R, G, t)
      BY <1>1, <3>1, <3>3 DEF Silent, LastFor
    <3> QED BY <2>3, <3>4
  <2> QED BY <2>1, <2>2, <2>3 DEF Off
<1>4. ~ Drops(j2, F) /\ Fetches(j2, F) /\ j2.seq > k
  BY DEF Drops, Fetches
<1> QED BY <1>2, <1>3, <1>4 DEF Off

\* It pairs with any ring, as it has no event.
LEMMA DeferPaired ==
  ASSUME NEW F \in Nat, NEW n \in Nat, NEW R, RingSet(R, F, n), NEW G, NEW t,
         NEW j, j = [seq |-> n + 1, kind |-> "deferred"]
  PROVE  Paired(R, F, G, j, t)
BY Numbers DEF RingSet, Paired

\* When the ring is cut the wire still ends with what a resume would end with.
LEMMA TrimOn ==
  ASSUME NEW F \in Nat, NEW F2 \in Nat, F <= F2, NEW G, NEW R, NEW R2, R2 = {e \in R : e.seq > F2},
         NEW j \in JournalEntries, NEW W, W \subseteq Entries, NEW t, NEW v, NEW listed,
         On(R, F, G, j, W, t, v, listed)
  PROVE  On(R2, F2, G, j, W, t, v, listed)
<1>1. j.seq \in Nat /\ \A e \in W : e.seq \in Nat
  BY Numbers DEF JournalEntries, Seqs
<1>2. Fetches(j, F) => Fetches(j, F2)
  BY <1>1 DEF Fetches
<1>3. \A e \in W : e.seq > F2 => e.seq > F /\ (e \in R => e \in R2)
  BY <1>1
<1> QED BY <1>2, <1>3 DEF On

\* So it does when an entry leaves the journal.
LEMMA EvictOn ==
  ASSUME NEW F \in Nat, NEW G \in Nat, NEW G2 \in Nat, G <= G2, NEW R,
         NEW j \in JournalEntries, j.seq <= G2, j.kind = "deferred" => j.seq <= F,
         NEW W, W \subseteq Entries, NEW t, NEW v, NEW listed, On(R, F, G, j, W, t, v, listed)
  PROVE  On(R, F, G2, NoEntry, W, t, v, listed)
<1>1. j.seq \in Nat /\ \A e \in W : e.seq \in Nat
  BY Numbers DEF JournalEntries, Seqs
<1> QED BY <1>1 DEF On

\* So it does when the floor of the journal rises.
LEMMA FloorOn ==
  ASSUME NEW F, NEW G \in Nat, NEW G2 \in Nat, G <= G2, NEW R, NEW j,
         NEW W, W \subseteq Entries, NEW t, NEW v, NEW listed, On(R, F, G, j, W, t, v, listed)
  PROVE  On(R, F, G2, j, W, t, v, listed)
BY Numbers DEF On

\* So it does when events of other threads are told.
LEMMA OtherOn ==
  ASSUME NEW F, NEW G, NEW R, NEW t, NEW E, \A e \in E : e.thread # t, NEW S, S = R \cup E, NEW j,
         NEW W, NEW W2, W2 = W \cup E, NEW v, NEW listed, On(R, F, G, j, W, t, v, listed)
  PROVE  On(S, F, G, j, W2, t, v, listed)
<1>1. \A d \in W2 : LastFor(d, W2, t) => d \in W /\ LastFor(d, W, t)
  BY DEF LastFor
<1> QED BY <1>1 DEF On

\* An event that was just told is what the wire ends with.
LEMMA NewOn ==
  ASSUME NEW F, NEW n \in Nat, NEW R, NEW e \in R, e.seq = n + 1, NEW j, j = Told(n + 1, e.value),
         NEW G, NEW W, e \in W, \A x \in W : x.seq \in Nat /\ x.seq <= n + 1 /\ (x.seq = n + 1 => x = e),
         NEW listed
  PROVE  On(R, F, G, j, W, e.thread, e.value, listed)
<1>1. j.seq = n + 1 /\ (e.value = Unlisted <=> j.kind = "removed")
  BY DEF Told
<1>2. \A d \in W : LastFor(d, W, e.thread) => d = e
  BY DEF LastFor
<1> QED BY <1>1, <1>2 DEF On

\* What the wire has reached it reaches when it grows.
LEMMA StillReached ==
  ASSUME NEW W, NEW E, NEW t, NEW m, \A e \in E : m <= e.seq, Reached(W, t, m)
  PROVE  Reached(W \cup E, t, m)
BY DEF Reached

\* Of the events of a thread there is a last one.
LEMMA LastThere ==
  ASSUME NEW n \in Nat, NEW V, V \subseteq Entries, \A e \in V : e.seq <= n,
         NEW t, \E e \in V : e.thread = t
  PROVE  \E d \in V : LastFor(d, V, t)
<1> DEFINE S == {e.seq : e \in {f \in V : f.thread = t}}
<1>1. \A e \in V : e.seq \in Nat
  BY Numbers
<1>2. S \in SUBSET (0 .. n) /\ S # {}
  BY <1>1
<1>3. Max(S) \in S /\ \A x \in S : x <= Max(S)
  BY <1>2, MaxOfBounded
<1>4. PICK d \in V : d.thread = t /\ d.seq = Max(S)
  BY <1>3
<1> QED BY <1>3, <1>4 DEF LastFor

\* A phone at number k, with V on the wire, is told by the wire all that a resume
\* would tell it.
LEMMA OffFromOn ==
  ASSUME NEW F \in Nat, NEW G \in Nat, NEW n \in Nat, NEW R, R \subseteq Entries, \A e \in R : F < e.seq,
         NEW j \in JournalEntries, j.kind = "none" => j = NoEntry, NEW k \in Nat, k >= F \/ k >= G,
         NEW V, V \subseteq Entries, \A e \in V : k < e.seq /\ e.seq <= n,
         NEW t, NEW v, NEW listed, On(R, F, G, j, V, t, v, listed),
         \A e \in R : e.thread = t /\ k < e.seq => \E d \in V : d.thread = t /\ e.seq <= d.seq,
         j.kind = "removed" /\ k < j.seq => \E d \in V : d.thread = t
  PROVE  Off(R, F, G, j, k, t, v, listed)
<1>1. /\ \A e \in R : e.seq \in Nat
      /\ \A e \in V : e.seq \in Nat
      /\ j.seq \in Nat /\ j.kind \in {"none", "summary", "deferred", "removed"}
  BY Numbers DEF JournalEntries, Seqs
<1>2. CASE \A e \in V : e.thread # t
  <2>1. Silent(R, k, t)
    BY <1>1, <1>2 DEF Silent
  <2>2. listed /\ ~ (j.seq > k /\ Drops(j, F))
    BY <1>1, <1>2 DEF On, Drops
  <2> QED BY <2>1, <2>2 DEF Off
<1>3. CASE ~ \A e \in V : e.thread # t
  <2>1. PICK d \in V : LastFor(d, V, t)
    BY <1>3, LastThere
  <2>2. /\ v = d.value /\ d.seq \in Nat /\ k < d.seq
        /\ d.seq > F => d \in R \/ (j.seq = d.seq /\ j.kind = "deferred")
        /\ \/ j = NoEntry /\ d.seq <= G
           \/ j.seq = d.seq /\ (v = Unlisted <=> j.kind = "removed")
           \/ j.seq > d.seq /\ Fetches(j, F) /\ v = Unlisted /\ d.seq <= G
    BY <1>1, <2>1 DEF On
  <2>3. \A e \in R : e.thread = t => e.seq <= d.seq
    BY <1>1, <2>1, <2>2 DEF LastFor
  <2>4. d \in R => RingTells(R, k, t, v)
    BY <2>1, <2>2, <2>3 DEF RingTells, LastFor
  <2>5. d.seq <= G => d.seq > F /\ Silent(R, G, t)
    BY <1>1, <2>2, <2>3 DEF Silent
  <2>6. CASE j = NoEntry /\ d.seq <= G
    BY <2>2, <2>4, <2>5, <2>6 DEF Off, NoEntry, Fetches, Drops
  <2>7. CASE j.seq = d.seq /\ (v = Unlisted <=> j.kind = "removed")
    <3>1. j.seq > k
      BY <1>1, <2>2, <2>7
    <3>2. Fetches(j, F) => v # Unlisted
      BY <2>7 DEF Fetches
    <3>3. Drops(j, F) => v = Unlisted
      BY <2>7 DEF Drops
    <3>4. ~ Fetches(j, F) /\ ~ Drops(j, F) => d \in R \/ j.kind = "none"
      BY <1>1, <2>2, <2>7 DEF Fetches, Drops
    <3>5. CASE j.kind = "none"
      BY <1>1, <2>2, <2>7, <3>5 DEF NoEntry
    <3> QED BY <2>4, <3>1, <3>2, <3>3, <3>4, <3>5 DEF Off
  <2>8. CASE j.seq > d.seq /\ Fetches(j, F) /\ v = Unlisted /\ d.seq <= G
    <3>1. d \in R /\ ~ Drops(j, F)
      BY <1>1, <2>2, <2>5, <2>8 DEF Drops, Fetches
    <3>2. j.seq > k
      BY <1>1, <2>2, <2>8
    <3> QED BY <2>4, <2>5, <2>8, <3>1, <3>2 DEF Off
  <2> QED BY <2>2, <2>6, <2>7, <2>8
<1> QED BY <1>2, <1>3

--------------------------------------------------------------------------------
(* One hub: what a new entry of the journal makes of it.                     *)

\* What the phone has seen and what is on its way to it were numbered by the hub.
Known(h, x, W) ==
  /\ x.seen.seq \in Nat /\ (x.seen.epoch = h.epoch => x.seen.seq <= h.seq)
  /\ W \subseteq Entries /\ \A e \in W : e.seq <= h.seq

\* The events in the ring of a sound hub
LEMMA RingIsSet ==
  ASSUME NEW h \in Hubs, HubSound(h)
  PROVE  /\ RingSet(ToSet(h.ring), h.ringFloor, h.seq)
         /\ h.ringFloor \in Nat /\ h.journalFloor \in Nat /\ h.seq \in Nat /\ h.ringFloor <= h.seq
         /\ \A t \in Threads : h.journal[t] \in JournalEntries /\ h.journal[t].seq \in Nat
                               /\ h.journal[t].seq <= h.seq
<1>1. /\ h.ring \in Seq(Entries) /\ h.ringFloor \in Nat /\ h.journalFloor \in Nat /\ h.seq \in Nat
      /\ h.journal \in [Threads -> JournalEntries]
      /\ Rising(h.ring) /\ Between(h.ring, h.ringFloor, h.seq) /\ h.ringFloor <= h.seq
      /\ JournalNumbers(h.journal, h.seq)
  BY DEF Hubs, HubSound, RingSound, JournalSound
<1>2. RingSet(ToSet(h.ring), h.ringFloor, h.seq)
  BY <1>1, RisingSet
<1>3. \A t \in Threads : h.journal[t] \in JournalEntries /\ h.journal[t].seq \in Nat
                         /\ h.journal[t].seq <= h.seq
  BY <1>1 DEF JournalNumbers, JournalEntries, Seqs
<1> QED BY <1>1, <1>2, <1>3

\* For another thread nothing changes, unless its entry left the journal as a
\* deferral the ring was not past: ring and journal stay paired, a resume that is
\* still answered ends the same, and so does the wire.
LEMMA OtherStays ==
  ASSUME NEW h \in Hubs, HubSound(h), NEW t \in Threads, NEW j, NEW E, \A e \in E : e \in Entries /\ e.thread = t,
         NEW g, g \in Hubs, Moves(g, h, t, j, E), NEW u \in Threads, u # t,
         NEW W, W \subseteq Entries,
         Paired(ToSet(h.ring), h.ringFloor, h.journalFloor, h.journal[u], u),
         \A e \in E : e.seq = h.seq + 1,
         \A e, f \in E : e = f
  PROVE  /\ Paired(ToSet(g.ring), g.ringFloor, g.journalFloor, g.journal[u], u)
         /\ u \notin g.slipped => \A k \in Nat : \A v, listed :
              /\ /\ k >= g.ringFloor \/ k >= g.journalFloor
                 /\ Off(ToSet(h.ring), h.ringFloor, h.journalFloor, h.journal[u], k, u, v, listed)
                 => Off(ToSet(g.ring), g.ringFloor, g.journalFloor, g.journal[u], k, u, v, listed)
              /\ On(ToSet(h.ring), h.ringFloor, h.journalFloor, h.journal[u], W, u, v, listed)
                 => On(ToSet(g.ring), g.ringFloor, g.journalFloor, g.journal[u], W \cup E, u, v, listed)
<1> DEFINE R == ToSet(h.ring)
           S == R \cup E
           S2 == ToSet(g.ring)
           F == h.ringFloor
           F2 == g.ringFloor
           G == h.journalFloor
           G2 == g.journalFloor
           i == h.journal[u]
           i2 == g.journal[u]
           n == h.seq
<1>1. /\ RingSet(R, F, n) /\ F \in Nat /\ G \in Nat /\ n \in Nat /\ i \in JournalEntries /\ i.seq \in Nat
      /\ F2 \in Nat /\ G2 \in Nat /\ F <= n
  BY RingIsSet DEF Hubs
<1>2. /\ F <= F2 /\ G <= G2 /\ S2 = {e \in S : e.seq > F2}
      /\ \/ i2 = i
         \/ i2 = NoEntry /\ i.seq <= G2 /\ (i.kind = "deferred" => i.seq <= F2 \/ u \in g.slipped)
      /\ \A e \in E : e.thread # u /\ e \in Entries /\ e.seq = n + 1
      /\ \A e, f \in E : e = f
  BY DEF Moves, Takes
<1>3. Paired(R, F, G, i, u)
  OBVIOUS
<1> HIDE DEF R, F, F2, G, G2, i, i2, n, S2
<1>4. RingSet(S, F, n + 1)
  <2>1. \A e \in R : e \in Entries /\ e.seq \in Nat /\ F < e.seq /\ e.seq <= n
    BY <1>1, Numbers DEF RingSet
  <2>2. \A e \in S : e \in Entries /\ F < e.seq /\ e.seq <= n + 1
    BY <1>1, <1>2, <2>1
  <2>3. \A e, f \in S : e.seq = f.seq => e = f
    BY <1>1, <1>2, <2>1 DEF RingSet
  <2> QED BY <2>2, <2>3 DEF RingSet
<1>5. Paired(S, F, G, i, u)
  BY <1>2, <1>3, OtherPaired
<1>6. S \subseteq Entries /\ S2 \subseteq Entries
  BY <1>2, <1>4 DEF RingSet
<1>7. n + 1 \in Nat
  BY <1>1
<1> HIDE DEF S
<1>8. Paired(S2, F2, G, i, u)
  BY <1>1, <1>2, <1>4, <1>5, <1>7, TrimPaired
<1>9. Paired(S2, F2, G2, i2, u)
  BY <1>1, <1>2, <1>6, <1>8, EvictPaired, FloorPaired
<1>10. ASSUME u \notin g.slipped, NEW k \in Nat, NEW v, NEW listed, k >= F2 \/ k >= G2, Off(R, F, G, i, k, u, v, listed)
       PROVE  Off(S2, F2, G2, i2, k, u, v, listed)
  <2>1. Off(S, F, G, i, k, u, v, listed)
    BY <1>2, <1>10, OtherOff DEF S
  <2>2. k >= F2 \/ k >= G
    BY <1>1, <1>2, <1>10
  <2>3. Off(S2, F2, G, i, k, u, v, listed)
    BY <1>1, <1>2, <1>4, <1>5, <1>7, <2>1, <2>2, TrimOff
  <2>4. CASE i2 = i
    BY <1>1, <1>2, <1>6, <2>3, <2>4, FloorOff
  <2>5. CASE i2 # i
    BY <1>1, <1>2, <1>6, <1>10, <2>3, <2>5, EvictOff
  <2> QED BY <2>4, <2>5
<1>11. ASSUME u \notin g.slipped, NEW v, NEW listed, On(R, F, G, i, W, u, v, listed)
       PROVE  On(S2, F2, G2, i2, W \cup E, u, v, listed)
  <2> DEFINE V == W \cup E
  <2>1. V \subseteq Entries /\ V = W \cup E
    OBVIOUS
  <2> HIDE DEF V
  <2>2. On(S, F, G, i, V, u, v, listed)
    BY <1>2, <1>11, <2>1, OtherOn DEF S
  <2>3. On(S2, F2, G, i, V, u, v, listed)
    BY <1>1, <1>2, <2>1, <2>2, TrimOn
  <2>4. CASE i2 = i
    BY <1>1, <1>2, <2>1, <2>3, <2>4, FloorOn
  <2>5. CASE i2 # i
    BY <1>1, <1>2, <1>11, <2>1, <2>3, <2>5, EvictOn
  <2> QED BY <2>1, <2>4, <2>5
<1> QED BY <1>9, <1>10, <1>11 DEF R, F, F2, G, G2, i, i2, S2

\* A hub that has moved on answers no more than before, and knows no less.
LEMMA MovesKnown ==
  ASSUME NEW h \in Hubs, HubSound(h), NEW t, NEW j, NEW E, NEW g \in Hubs, Moves(g, h, t, j, E),
         \A e \in E : e \in Entries /\ e.seq = h.seq + 1, NEW x, NEW W, Known(h, x, W)
  PROVE  /\ Known(g, x, W \cup E)
         /\ Covered(g, x.seen) => /\ Covered(h, x.seen)
                                  /\ x.seen.seq >= g.ringFloor \/ x.seen.seq >= g.journalFloor
<1>1. /\ h.seq \in Nat /\ g.seq = h.seq + 1 /\ g.epoch = h.epoch
      /\ h.ringFloor \in Nat /\ g.ringFloor \in Nat /\ h.journalFloor \in Nat /\ g.journalFloor \in Nat
      /\ h.ringFloor <= g.ringFloor /\ h.journalFloor <= g.journalFloor
  BY DEF Hubs, Moves, Takes
<1>2. \A e \in W : e \in Entries /\ e.seq \in Nat /\ e.seq <= h.seq
  BY Numbers DEF Known
<1>3. Known(g, x, W \cup E)
  BY <1>1, <1>2 DEF Known
<1>4. Covered(g, x.seen) => /\ Covered(h, x.seen)
                            /\ x.seen.seq >= g.ringFloor \/ x.seen.seq >= g.journalFloor
  BY <1>1 DEF Known, Covered
<1> QED BY <1>3, <1>4

\* The other threads agree as before, if less is given up of them or is fetched.
LEMMA OthersAgree ==
  ASSUME NEW h \in Hubs, HubSound(h), NEW t \in Threads, NEW j, NEW E, NEW g \in Hubs, Moves(g, h, t, j, E),
         \A e \in E : e \in Entries /\ e.thread = t /\ e.seq = h.seq + 1,
         \A e, f \in E : e = f,
         NEW due, NEW in, NEW l, NEW f, NEW m, NEW p, NEW W, NEW x, NEW D, D \subseteq Threads,
         Known(h, x, W), Good(h, due, in, l, f, W, x, D),
         \A u \in Threads \ {t} : (u \notin m => u \notin l /\ u \notin g.slipped) /\ (u \notin p => u \notin f)
  PROVE  /\ \A u \in Threads \ {t} : Paired(ToSet(g.ring), g.ringFloor, g.journalFloor, g.journal[u], u)
         /\ \A u \in D \ {t} : Agrees(g, due, in, m, p, W \cup E, x, u)
<1>1. W \subseteq Entries /\ x.seen.seq \in Nat
  BY DEF Known
<1>2. ASSUME NEW u \in Threads \ {t}
      PROVE  Paired(ToSet(h.ring), h.ringFloor, h.journalFloor, h.journal[u], u)
  BY DEF Good
<1>3. \A u \in Threads \ {t} : Paired(ToSet(g.ring), g.ringFloor, g.journalFloor, g.journal[u], u)
  BY <1>1, <1>2, OtherStays
<1>4. ASSUME NEW u \in D \ {t} PROVE Agrees(g, due, in, m, p, W \cup E, x, u)
  <2> SUFFICES ASSUME NEW v \in Values, Owes(g, due, in, m, p, u, v)
               PROVE  /\ Covered(g, x.seen) =>
                           Off(ToSet(g.ring), g.ringFloor, g.journalFloor, g.journal[u], x.seen.seq,
                               u, v, x.all \/ x.list[u] = v)
                      /\ x.served =>
                           On(ToSet(g.ring), g.ringFloor, g.journalFloor, g.journal[u], W \cup E,
                              u, v, x.all \/ x.list[u] = v)
    BY DEF Agrees
  <2> DEFINE listed == x.all \/ x.list[u] = v
  <2>1. Owes(h, due, in, l, f, u, v) /\ u \notin g.slipped
    BY <1>4 DEF Owes, Moves
  <2>2. /\ Covered(h, x.seen) =>
             Off(ToSet(h.ring), h.ringFloor, h.journalFloor, h.journal[u], x.seen.seq, u, v, listed)
        /\ x.served =>
             On(ToSet(h.ring), h.ringFloor, h.journalFloor, h.journal[u], W, u, v, listed)
    BY <1>4, <2>1 DEF Good, Agrees
  <2> HIDE DEF listed
  <2>3. \A k \in Nat : \A w, b :
          /\ /\ k >= g.ringFloor \/ k >= g.journalFloor
             /\ Off(ToSet(h.ring), h.ringFloor, h.journalFloor, h.journal[u], k, u, w, b)
             => Off(ToSet(g.ring), g.ringFloor, g.journalFloor, g.journal[u], k, u, w, b)
          /\ On(ToSet(h.ring), h.ringFloor, h.journalFloor, h.journal[u], W, u, w, b)
             => On(ToSet(g.ring), g.ringFloor, g.journalFloor, g.journal[u], W \cup E, u, w, b)
    BY <1>1, <1>2, <1>4, <2>1, OtherStays
  <2>4. Covered(g, x.seen) => Covered(h, x.seen)
                              /\ (x.seen.seq >= g.ringFloor \/ x.seen.seq >= g.journalFloor)
    BY MovesKnown
  <2>5. Covered(g, x.seen) =>
           Off(ToSet(g.ring), g.ringFloor, g.journalFloor, g.journal[u], x.seen.seq, u, v, listed)
    BY <1>1, <2>2, <2>3, <2>4
  <2>6. x.served =>
           On(ToSet(g.ring), g.ringFloor, g.journalFloor, g.journal[u], W \cup E, u, v, listed)
    BY <2>2, <2>3
  <2> QED BY <2>5, <2>6 DEF listed
<1> QED BY <1>3, <1>4

\* The wire has reached what ring and journal tell, if it has the new events.
LEMMA MovesBacked ==
  ASSUME NEW h \in Hubs, HubSound(h), NEW t \in Threads, NEW j, NEW E, NEW g \in Hubs, Moves(g, h, t, j, E),
         \A e \in E : e \in Entries /\ e.thread = t /\ e.seq = h.seq + 1,
         j.kind = "removed" => \E e \in E : j.seq <= e.seq,
         NEW W, Backed(ToSet(h.ring), h.journal, W)
  PROVE  Backed(ToSet(g.ring), g.journal, W \cup E)
<1>1. /\ \A e \in ToSet(h.ring) : e.seq <= h.seq /\ e.seq \in Nat
      /\ h.seq \in Nat /\ \A u \in Threads : h.journal[u].seq \in Nat /\ h.journal[u].seq <= h.seq
  BY RingIsSet, Numbers DEF RingSet
<1>2. ASSUME NEW u, NEW m \in Nat, m <= h.seq, Reached(W, u, m) PROVE Reached(W \cup E, u, m)
  <2>1. \A e \in E : m <= e.seq
    BY <1>1, <1>2
  <2> QED BY <1>2, <2>1, StillReached
<1>3. ASSUME NEW e \in ToSet(g.ring) PROVE Reached(W \cup E, e.thread, e.seq)
  <2>1. CASE e \in E
    <3>1. e.seq <= e.seq
      BY <1>1, <2>1
    <3> QED BY <2>1, <3>1 DEF Reached
  <2>2. CASE e \in ToSet(h.ring)
    BY <1>1, <1>2, <2>2 DEF Backed
  <2> QED BY <2>1, <2>2 DEF Moves
<1>4. ASSUME NEW u \in Threads, g.journal[u].kind = "removed" PROVE Reached(W \cup E, u, g.journal[u].seq)
  <2>1. CASE u = t
    BY <1>4, <2>1 DEF Reached, Moves, Takes
  <2>2. CASE u # t
    <3>1. g.journal[u] = h.journal[u]
      BY <1>4, <2>2 DEF Moves, Takes, NoEntry
    <3> QED BY <1>1, <1>2, <1>4, <3>1 DEF Backed
  <2> QED BY <2>1, <2>2
<1> QED BY <1>3, <1>4 DEF Backed

\* append makes a thread agree of which nothing else is owed than what it tells.
LEMMA AppendAgrees ==
  ASSUME NEW h \in Hubs, HubSound(h), NEW t \in Threads, NEW v \in Values, NEW e, e = News(h.seq + 1, t, v),
         NEW g \in Hubs, HubSound(g), Moves(g, h, t, Told(h.seq + 1, v), {e}), g.last[t] = v,
         NEW due, NEW in, NEW l, NEW f, NEW m, NEW p, NEW W, NEW x, NEW D, D \subseteq Threads,
         Known(h, x, W), Good(h, due, in, l, f, W, x, D),
         \A u \in Threads \ {t} : (u \notin m => u \notin l /\ u \notin g.slipped) /\ (u \notin p => u \notin f),
         NEW D2, D2 \subseteq D \cup {t},
         t \in D2 => v = in[t] \/ t \in m \/ (in[t] # Unlisted /\ t \in due)
  PROVE  Known(g, x, W \cup {e}) /\ Good(g, due, in, m, p, W \cup {e}, x, D2)
<1>1. /\ h.seq \in Nat /\ e \in Entries /\ e.thread = t /\ e.seq = h.seq + 1 /\ e.value = v
      /\ g.ringFloor \in Nat /\ g.ringFloor <= h.seq /\ g.seq = h.seq + 1 /\ g.epoch = h.epoch
  BY DEF Hubs, News, Entries, Seqs, Moves
<1>2. /\ g.journal[t] = Told(h.seq + 1, v) /\ e \in ToSet(g.ring)
      /\ \A y \in ToSet(g.ring) : y.seq \in Nat /\ y.seq <= h.seq + 1
  <2>1. e.seq > g.ringFloor
    BY <1>1
  <2>2. \A y \in ToSet(g.ring) : y \in Entries /\ y.seq <= g.seq
    BY RingIsSet DEF RingSet
  <2> QED BY <1>1, <2>1, <2>2, Numbers DEF Moves, Takes
<1> DEFINE E == {e}
<1>3. \A y \in E : y \in Entries /\ y.thread = t /\ y.seq = h.seq + 1
  BY <1>1
<1>4. Moves(g, h, t, Told(h.seq + 1, v), E) /\ \A y, z \in E : y = z
  OBVIOUS
<1>5. Told(h.seq + 1, v).kind = "removed" => \E y \in E : Told(h.seq + 1, v).seq <= y.seq
  BY <1>1 DEF Told
<1> HIDE DEF E
<1>6. /\ \A u \in Threads \ {t} : Paired(ToSet(g.ring), g.ringFloor, g.journalFloor, g.journal[u], u)
      /\ \A u \in D \ {t} : Agrees(g, due, in, m, p, W \cup E, x, u)
  BY <1>3, <1>4, OthersAgree
<1>7. x.served => Backed(ToSet(g.ring), g.journal, W \cup E)
  BY <1>3, <1>4, <1>5, MovesBacked DEF Good
<1>8. /\ Known(g, x, W \cup E)
      /\ Covered(g, x.seen) => Covered(h, x.seen)
  BY <1>3, <1>4, MovesKnown
<1>9. /\ Paired(ToSet(g.ring), g.ringFloor, g.journalFloor, g.journal[t], t)
      /\ \A k \in Nat : \A b :
           k <= h.seq => Off(ToSet(g.ring), g.ringFloor, g.journalFloor, g.journal[t], k, t, v, b)
      /\ \A b : On(ToSet(g.ring), g.ringFloor, g.journalFloor, g.journal[t], W \cup E, t, v, b)
  <2> DEFINE R == ToSet(g.ring)
             F == g.ringFloor
             G == g.journalFloor
             j == g.journal[t]
             n == h.seq
             V == W \cup E
  <2>1. e \in V /\ \A y \in V : y.seq \in Nat /\ y.seq <= n + 1 /\ (y.seq = n + 1 => y = e)
    <3>1. \A y \in W : y.seq \in Nat /\ y.seq <= n
      BY Numbers DEF Known
    <3> QED BY <1>1, <3>1 DEF E
  <2>2. /\ n \in Nat /\ 0 \in Nat /\ 0 <= n /\ F \in Nat /\ F <= n /\ e \in R /\ e.seq = n + 1
        /\ \A y \in R : y.seq \in Nat /\ y.seq <= n + 1
        /\ j = Told(n + 1, e.value)
    BY <1>1, <1>2
  <2> HIDE DEF R, F, G, j, n, V
  <2>3. \A k \in Nat : \A b : k <= n => Off(R, F, G, j, k, e.thread, e.value, b) /\ Paired(R, F, G, j, e.thread)
    BY <2>2, NewOff
  <2>4. \A b : On(R, F, G, j, V, e.thread, e.value, b)
    BY <2>1, <2>2, NewOn
  <2> QED BY <1>1, <2>2, <2>3, <2>4 DEF R, F, G, j, n, V
<1>10. ASSUME t \in D2 PROVE Agrees(g, due, in, m, p, W \cup E, x, t)
  <2> SUFFICES ASSUME NEW w \in Values, Owes(g, due, in, m, p, t, w)
               PROVE  /\ Covered(g, x.seen) =>
                           Off(ToSet(g.ring), g.ringFloor, g.journalFloor, g.journal[t], x.seen.seq,
                               t, w, x.all \/ x.list[t] = w)
                      /\ x.served =>
                           On(ToSet(g.ring), g.ringFloor, g.journalFloor, g.journal[t], W \cup E,
                              t, w, x.all \/ x.list[t] = w)
    BY DEF Agrees
  <2>1. w = v
    BY <1>10 DEF Owes
  <2> DEFINE listed == x.all \/ x.list[t] = w
  <2>2. ASSUME Covered(g, x.seen)
        PROVE  Off(ToSet(g.ring), g.ringFloor, g.journalFloor, g.journal[t], x.seen.seq, t, w, listed)
    <3>1. x.seen.seq \in Nat /\ x.seen.seq <= h.seq
      BY <1>8, <2>2 DEF Known, Covered
    <3> HIDE DEF listed
    <3> QED BY <1>9, <2>1, <3>1
  <2>3. On(ToSet(g.ring), g.ringFloor, g.journalFloor, g.journal[t], W \cup E, t, w, listed)
    <3> HIDE DEF listed
    <3> QED BY <1>9, <2>1
  <2> QED BY <2>2, <2>3
<1>11. \A u \in D2 : Agrees(g, due, in, m, p, W \cup E, x, u)
  BY <1>6, <1>10
<1>12. \A u \in Threads : Paired(ToSet(g.ring), g.ringFloor, g.journalFloor, g.journal[u], u)
  BY <1>6, <1>9
<1> QED BY <1>7, <1>8, <1>11, <1>12 DEF Good, E

\* deferSummary makes a thread agree that is served by nobody, unless the journal
\* forgets its removal.
LEMMA DeferAgrees ==
  ASSUME NEW h \in Hubs, HubSound(h), NEW t \in Threads, NEW g \in Hubs, HubSound(g),
         Moves(g, h, t, [seq |-> h.seq + 1, kind |-> "deferred"], {}), g.last[t] = None,
         NEW due, NEW in, NEW l, NEW f, NEW m, NEW p, NEW W, NEW x, NEW D, D \subseteq Threads,
         Known(h, x, W), Good(h, due, in, l, f, W, x, D),
         \A u \in Threads \ {t} : (u \notin m => u \notin l /\ u \notin g.slipped) /\ (u \notin p => u \notin f),
         NEW D2, D2 \subseteq D \cup {t},
         t \notin m => /\ ~ x.served /\ t \notin l
                       /\ in[t] = Unlisted => t \in D /\ h.journal[t].kind # "removed"
  PROVE  Known(g, x, W) /\ Good(g, due, in, m, p, W, x, D2)
<1> DEFINE j == [seq |-> h.seq + 1, kind |-> "deferred"]
<1>1. /\ h.seq \in Nat /\ g.ringFloor = g.ringFloor /\ g.seq = h.seq + 1 /\ g.epoch = h.epoch
      /\ g.ringFloor \in Nat /\ g.journalFloor \in Nat /\ h.ringFloor \in Nat /\ h.journalFloor \in Nat
      /\ h.ringFloor <= g.ringFloor /\ h.journalFloor <= g.journalFloor
      /\ g.journal[t] = j /\ j.kind = "deferred"
  BY DEF Hubs, Moves, Takes
<1> DEFINE E == {}
<1>2. /\ \A y \in E : y \in Entries /\ y.thread = t /\ y.seq = h.seq + 1
      /\ Moves(g, h, t, j, E) /\ \A y, z \in E : y = z
  OBVIOUS
<1>3. j.kind = "removed" => \E y \in E : j.seq <= y.seq
  BY <1>1
<1>4. W \cup E = W
  OBVIOUS
<1> HIDE DEF E, j
<1>5. /\ \A u \in Threads \ {t} : Paired(ToSet(g.ring), g.ringFloor, g.journalFloor, g.journal[u], u)
      /\ \A u \in D \ {t} : Agrees(g, due, in, m, p, W, x, u)
  BY <1>2, <1>4, OthersAgree
<1>6. x.served => Backed(ToSet(g.ring), g.journal, W)
  BY <1>2, <1>3, <1>4, MovesBacked DEF Good
<1>7. Known(g, x, W) /\ (Covered(g, x.seen) => Covered(h, x.seen) /\ (x.seen.seq >= g.ringFloor \/ x.seen.seq >= g.journalFloor))
  BY <1>2, <1>4, MovesKnown
<1> DEFINE R == ToSet(h.ring)
           R2 == ToSet(g.ring)
<1>8. /\ RingSet(R, h.ringFloor, h.seq) /\ R2 = {y \in R : y.seq > g.ringFloor}
      /\ h.journal[t] \in JournalEntries
  BY <1>2, RingIsSet DEF Moves, E
<1>9. j = [seq |-> h.seq + 1, kind |-> "deferred"] /\ j \in JournalEntries
  BY <1>1 DEF j, JournalEntries, Seqs
<1> HIDE DEF R, R2
<1>10. Paired(R, h.ringFloor, g.journalFloor, j, t) /\ Paired(R2, g.ringFloor, g.journalFloor, j, t)
  <2>1. Paired(R, h.ringFloor, g.journalFloor, j, t)
    BY <1>1, <1>8, <1>9, DeferPaired
  <2> QED BY <1>1, <1>8, <1>9, <2>1, TrimPaired
<1>11. ASSUME t \in D2 PROVE Agrees(g, due, in, m, p, W, x, t)
  <2> SUFFICES ASSUME NEW w \in Values, Owes(g, due, in, m, p, t, w), Covered(g, x.seen)
               PROVE  Off(R2, g.ringFloor, g.journalFloor, g.journal[t], x.seen.seq,
                          t, w, x.all \/ x.list[t] = w)
    BY DEF Agrees, R2, Owes
  <2> DEFINE listed == x.all \/ x.list[t] = w
             k == x.seen.seq
  <2>1. w = in[t] /\ t \notin m /\ ~ x.served
    BY DEF Owes
  <2>2. k \in Nat /\ k <= h.seq /\ (k >= g.ringFloor \/ k >= g.journalFloor) /\ Covered(h, x.seen)
    BY <1>1, <1>7 DEF Known, Covered
  <2>3. w = Unlisted => /\ h.journal[t].kind # "removed"
                        /\ Off(R, h.ringFloor, h.journalFloor, h.journal[t], k, t, w, listed)
    <3> SUFFICES ASSUME w = Unlisted
                 PROVE  /\ h.journal[t].kind # "removed"
                        /\ Off(R, h.ringFloor, h.journalFloor, h.journal[t], k, t, w, listed)
      OBVIOUS
    <3>1. h.journal[t].kind # "removed" /\ Agrees(h, due, in, l, f, W, x, t)
      BY <2>1 DEF Good
    <3>2. Owes(h, due, in, l, f, t, w)
      BY <2>1 DEF Owes, Moves
    <3> QED BY <2>2, <3>1, <3>2 DEF Agrees, R
  <2>4. Paired(R, h.ringFloor, h.journalFloor, h.journal[t], t)
    BY DEF Good, R
  <2> HIDE DEF listed, k
  <2>5. Off(R, h.ringFloor, g.journalFloor, j, k, t, w, listed)
    BY <1>1, <1>8, <1>9, <2>2, <2>3, <2>4, DeferOff
  <2>6. Off(R2, g.ringFloor, g.journalFloor, j, k, t, w, listed)
    BY <1>1, <1>8, <1>9, <1>10, <2>2, <2>5, TrimOff
  <2> QED BY <1>1, <2>6 DEF listed, k
<1>12. \A u \in D2 : Agrees(g, due, in, m, p, W, x, u)
  BY <1>5, <1>11
<1>13. \A u \in Threads : Paired(ToSet(g.ring), g.ringFloor, g.journalFloor, g.journal[u], u)
  BY <1>1, <1>5, <1>10 DEF R2
<1> QED BY <1>6, <1>7, <1>12, <1>13 DEF Good

--------------------------------------------------------------------------------
(* The hub on its way through a handler.                                     *)

\* What the histories and the wire are going to be, if the handler ends with hub h:
\* the threads told of are again right.
ToldBy(h) == {e.thread : e \in ToSet(h.outgoing)}
LostBy(h) == (lost \ ToldBy(h)) \cup h.slipped
FresherBy(h) == fresher \ ToldBy(h)
WireBy(h) == WireOf(link) \cup ToSet(h.outgoing)

\* The handler that is running may come to h, and the threads of D are right then.
Fit(h, due, in, D) ==
  /\ \E b \in Nat : h \in Reach(hub.seq, hub.epoch, b)
  /\ hub.ringFloor <= h.ringFloor /\ hub.journalFloor <= h.journalFloor
  /\ Known(h, View, WireBy(h))
  /\ Requested(h)
  /\ Good(h, due, in, LostBy(h), FresherBy(h), WireBy(h), View, D)

\* What a resume and the wire end with does not hang on the list if it need not.
LEMMA OffListed ==
  ASSUME NEW R, NEW F, NEW G, NEW j, NEW k, NEW t, NEW v, NEW a, NEW b, a => b,
         Off(R, F, G, j, k, t, v, a)
  PROVE  Off(R, F, G, j, k, t, v, b)
BY DEF Off

\* Nor does what is on the wire.
LEMMA OnListed ==
  ASSUME NEW R, NEW F, NEW G, NEW j, NEW W, NEW t, NEW v, NEW a, NEW b, a => b,
         On(R, F, G, j, W, t, v, a)
  PROVE  On(R, F, G, j, W, t, v, b)
BY DEF On

\* The two hubs have the same ring and journal.
SameRecords(g, h) ==
  /\ g.epoch = h.epoch /\ g.ring = h.ring /\ g.ringFloor = h.ringFloor
  /\ g.journal = h.journal /\ g.journalFloor = h.journalFloor

\* A hub with the same ring and journal is as good, for threads of which no more is
\* owed and to a phone that knows no less.
LEMMA StaysGood ==
  ASSUME NEW h, NEW g, SameRecords(g, h), NEW due, NEW in, NEW l, NEW f, NEW W, NEW x, NEW D,
         Good(h, due, in, l, f, W, x, D),
         NEW due2, NEW in2, NEW m, NEW p, NEW V, NEW y, NEW D2, D2 \subseteq D,
         \A t \in D2, v \in Values : Owes(g, due2, in2, m, p, t, v) => Owes(h, due, in, l, f, t, v),
         Covered(h, y.seen) => y.seen = x.seen,
         y.served => x.served /\ V = W,
         \A t \in D2, v \in Values : (x.all \/ x.list[t] = v) => (y.all \/ y.list[t] = v)
  PROVE  Good(g, due2, in2, m, p, V, y, D2)
<1>1. /\ g.epoch = h.epoch /\ g.ring = h.ring /\ g.ringFloor = h.ringFloor
      /\ g.journal = h.journal /\ g.journalFloor = h.journalFloor
  BY DEF SameRecords
<1>2. /\ \A t \in Threads : Paired(ToSet(g.ring), g.ringFloor, g.journalFloor, g.journal[t], t)
      /\ y.served => Backed(ToSet(g.ring), g.journal, V)
  BY <1>1 DEF Good
<1>3. ASSUME NEW t \in D2 PROVE Agrees(g, due2, in2, m, p, V, y, t)
  <2>1. Agrees(h, due, in, l, f, W, x, t)
    BY DEF Good
  <2> SUFFICES ASSUME NEW v \in Values, Owes(g, due2, in2, m, p, t, v)
               PROVE  /\ Covered(g, y.seen) =>
                           Off(ToSet(g.ring), g.ringFloor, g.journalFloor, g.journal[t], y.seen.seq,
                               t, v, y.all \/ y.list[t] = v)
                      /\ y.served =>
                           On(ToSet(g.ring), g.ringFloor, g.journalFloor, g.journal[t], V,
                              t, v, y.all \/ y.list[t] = v)
    BY DEF Agrees
  <2> DEFINE a == x.all \/ x.list[t] = v
             b == y.all \/ y.list[t] = v
  <2>2. a => b
    OBVIOUS
  <2>3. Owes(h, due, in, l, f, t, v)
    OBVIOUS
  <2>4. Covered(g, y.seen) =>
          Off(ToSet(g.ring), g.ringFloor, g.journalFloor, g.journal[t], y.seen.seq, t, v, a)
    <3>1. Covered(g, y.seen) => Covered(h, y.seen)
      BY <1>1 DEF Covered
    <3> QED BY <1>1, <2>1, <2>3, <3>1 DEF Agrees
  <2>5. y.served => On(ToSet(g.ring), g.ringFloor, g.journalFloor, g.journal[t], V, t, v, a)
    BY <1>1, <2>1, <2>3 DEF Agrees
  <2> HIDE DEF a, b
  <2>6. Covered(g, y.seen) =>
          Off(ToSet(g.ring), g.ringFloor, g.journalFloor, g.journal[t], y.seen.seq, t, v, b)
    BY <2>2, <2>4, OffListed
  <2>7. y.served => On(ToSet(g.ring), g.ringFloor, g.journalFloor, g.journal[t], V, t, v, b)
    BY <2>2, <2>5, OnListed
  <2> QED BY <2>6, <2>7 DEF b
<1> QED BY <1>2, <1>3 DEF Good

\* The same for a handler.
LEMMA EditFits ==
  ASSUME NEW h, NEW due, NEW in, NEW D, Fit(h, due, in, D), NEW b \in Nat,
         NEW g, g \in Reach(hub.seq, hub.epoch, b), SameEvents(g, h), Requested(g),
         NEW due2, NEW in2, NEW D2, D2 \subseteq D,
         \A t \in D2, v \in Values : Owes(g, due2, in2, LostBy(g), FresherBy(g), t, v)
                                     => Owes(h, due, in, LostBy(h), FresherBy(h), t, v)
  PROVE  Fit(g, due2, in2, D2)
<1>1. /\ g.seq = h.seq /\ g.epoch = h.epoch /\ g.ringFloor = h.ringFloor
      /\ g.journalFloor = h.journalFloor /\ g.outgoing = h.outgoing
  BY DEF SameEvents
<1>2. WireBy(g) = WireBy(h)
  BY <1>1 DEF WireBy
<1>3. Known(g, View, WireBy(g))
  BY <1>1, <1>2 DEF Fit, Known
<1>4. Good(g, due2, in2, LostBy(g), FresherBy(g), WireBy(h), View, D2)
  <2>1. Good(h, due, in, LostBy(h), FresherBy(h), WireBy(h), View, D)
    BY DEF Fit
  <2>2. SameRecords(g, h)
    BY DEF SameEvents, SameRecords
  <2> QED BY <2>1, <2>2, StaysGood
<1> QED BY <1>1, <1>2, <1>3, <1>4 DEF Fit

\* Floors that rise stay above those of the start.
LEMMA FloorsRise ==
  ASSUME NEW k \in Hubs, NEW h \in Hubs, NEW g \in Hubs,
         k.ringFloor <= h.ringFloor, k.journalFloor <= h.journalFloor,
         h.ringFloor <= g.ringFloor, h.journalFloor <= g.journalFloor
  PROVE  k.ringFloor <= g.ringFloor /\ k.journalFloor <= g.journalFloor
<1>1. /\ k.ringFloor \in Nat /\ h.ringFloor \in Nat /\ g.ringFloor \in Nat
      /\ k.journalFloor \in Nat /\ h.journalFloor \in Nat /\ g.journalFloor \in Nat
  BY DEF Hubs
<1> QED BY <1>1

\* append
LEMMA AppendFits ==
  ASSUME hub.seq \in Nat, hub \in Hubs,
         NEW h, NEW due, NEW in, NEW D, D \subseteq Threads, Fit(h, due, in, D),
         NEW t \in Threads, NEW v \in Values, NEW D2, D2 \subseteq D \cup {t},
         t \in D2 => v = in[t] \/ (in[t] # Unlisted /\ t \in due)
  PROVE  /\ Fit(Append1(h, t, v), due, in, D2)
         /\ Append1(h, t, v).pending = h.pending /\ Append1(h, t, v).inFlight = h.inFlight
<1> DEFINE g == Append1(h, t, v)
           e == News(h.seq + 1, t, v)
<1>1. PICK b \in Nat : h \in Reach(hub.seq, hub.epoch, b)
  BY DEF Fit
<1>2. /\ g \in Reach(hub.seq, hub.epoch, b)
      /\ Moves(g, h, t, Told(h.seq + 1, v), {e}) /\ g.last[t] = v /\ t \notin g.slipped
  BY <1>1, Append1Effect
<1>3. h \in Hubs /\ HubSound(h) /\ g \in Hubs /\ HubSound(g)
  BY <1>1, <1>2 DEF Reach
<1> HIDE DEF g, e
<1>4. /\ ToSet(g.outgoing) = ToSet(h.outgoing) \cup {e} /\ e.thread = t
      /\ h.slipped \ {t} \subseteq g.slipped
      /\ g.pending = h.pending /\ g.inFlight = h.inFlight /\ g.asked = h.asked /\ g.held = h.held
      /\ h.ringFloor <= g.ringFloor /\ h.journalFloor <= g.journalFloor
  BY <1>2 DEF Moves, Takes, News, e
<1>5. ToldBy(g) = ToldBy(h) \cup {t} /\ WireBy(g) = WireBy(h) \cup {e}
  BY <1>4 DEF ToldBy, WireBy
<1>6. \A u \in Threads \ {t} : /\ u \notin LostBy(g) => u \notin LostBy(h) /\ u \notin g.slipped
                               /\ u \notin FresherBy(g) => u \notin FresherBy(h)
  BY <1>4, <1>5 DEF LostBy, FresherBy
<1>7. Known(h, View, WireBy(h)) /\ Good(h, due, in, LostBy(h), FresherBy(h), WireBy(h), View, D)
  BY DEF Fit
<1>8. /\ Known(g, View, WireBy(h) \cup {e})
      /\ Good(g, due, in, LostBy(g), FresherBy(g), WireBy(h) \cup {e}, View, D2)
  BY <1>2, <1>3, <1>6, <1>7, AppendAgrees, SMTT(30) DEF e
<1>9. Requested(g)
  BY <1>4 DEF Fit, Requested
<1>10. hub.ringFloor <= g.ringFloor /\ hub.journalFloor <= g.journalFloor
  BY <1>3, <1>4, FloorsRise DEF Fit
<1> QED BY <1>2, <1>4, <1>5, <1>8, <1>9, <1>10 DEF Fit, g

\* deferSummary
LEMMA DeferFits ==
  ASSUME hub.seq \in Nat, hub \in Hubs,
         NEW h, NEW due, NEW D, D \subseteq Threads, Fit(h, due, inbox, D),
         NEW t \in Threads, NEW D2, D2 \subseteq D \cup {t}, inbox[t] = Unlisted => t \in D
  PROVE  /\ Fit(Defer(h, t), due, inbox, D2)
         /\ Defer(h, t).pending = h.pending /\ Defer(h, t).inFlight = h.inFlight
<1> DEFINE g == Defer(h, t)
           j == [seq |-> h.seq + 1, kind |-> "deferred"]
<1>1. PICK b \in Nat : h \in Reach(hub.seq, hub.epoch, b)
  BY DEF Fit
<1>2. /\ g \in Reach(hub.seq, hub.epoch, b)
      /\ Moves(g, h, t, j, {})
      /\ g.last[t] = None
      /\ (\/ link.mode \in {"replaying", "live"}
          \/ h.journal[t].kind = "removed" /\ inbox[t] = Unlisted
          \/ t \in h.slipped) => t \in g.slipped
  BY <1>1, DeferEffect
<1>3. h \in Hubs /\ HubSound(h) /\ g \in Hubs /\ HubSound(g)
  BY <1>1, <1>2 DEF Reach
<1> HIDE DEF g, j
<1>4. /\ ToSet(g.outgoing) = ToSet(h.outgoing)
      /\ h.slipped \ {t} \subseteq g.slipped
      /\ g.pending = h.pending /\ g.inFlight = h.inFlight /\ g.asked = h.asked /\ g.held = h.held
      /\ h.ringFloor <= g.ringFloor /\ h.journalFloor <= g.journalFloor
  BY <1>2 DEF Moves, Takes
<1>5. ToldBy(g) = ToldBy(h) /\ WireBy(g) = WireBy(h)
  BY <1>4 DEF ToldBy, WireBy
<1>6. \A u \in Threads \ {t} : /\ u \notin LostBy(g) => u \notin LostBy(h) /\ u \notin g.slipped
                               /\ u \notin FresherBy(g) => u \notin FresherBy(h)
  BY <1>4, <1>5 DEF LostBy, FresherBy
<1>7. Known(h, View, WireBy(h)) /\ Good(h, due, inbox, LostBy(h), FresherBy(h), WireBy(h), View, D)
  BY DEF Fit
<1>8. t \notin LostBy(g) => /\ ~ View.served /\ t \notin LostBy(h)
                            /\ inbox[t] = Unlisted => t \in D /\ h.journal[t].kind # "removed"
  <2>1. View.served <=> link.mode \in {"replaying", "live"}
    BY DEF View, Served
  <2>2. ASSUME t \notin LostBy(g) PROVE t \notin g.slipped /\ t \notin lost \ ToldBy(h)
    BY <1>5, <2>2 DEF LostBy
  <2>3. ASSUME t \notin g.slipped
        PROVE  /\ link.mode \notin {"replaying", "live"} /\ t \notin h.slipped
               /\ inbox[t] = Unlisted => h.journal[t].kind # "removed"
    BY <1>2, <2>3
  <2> QED BY <2>1, <2>2, <2>3 DEF LostBy
<1>9. /\ Known(g, View, WireBy(h))
      /\ Good(g, due, inbox, LostBy(g), FresherBy(g), WireBy(h), View, D2)
  <2>1. Moves(g, h, t, [seq |-> h.seq + 1, kind |-> "deferred"], {}) /\ g.last[t] = None
    BY <1>2 DEF j
  <2> QED BY <1>3, <1>6, <1>7, <1>8, <2>1, DeferAgrees
<1>10. Requested(g)
  BY <1>4 DEF Fit, Requested
<1>11. hub.ringFloor <= g.ringFloor /\ hub.journalFloor <= g.journalFloor
  BY <1>3, <1>4, FloorsRise DEF Fit
<1> QED BY <1>2, <1>4, <1>5, <1>9, <1>10, <1>11 DEF Fit, g

\* refreshSummary with nobody connected: the summary is deferred.
LEMMA RefreshDefers ==
  ASSUME hub.seq \in Nat, hub \in Hubs, link.mode = "none",
         NEW h, NEW due, NEW D, D \subseteq Threads, Fit(h, due, inbox, D),
         NEW t \in Threads, NEW D2, D2 \subseteq D \cup {t}, inbox[t] = Unlisted => t \in D
  PROVE  /\ Fit(Refresh(h, t), due, inbox, D2)
         /\ Refresh(h, t).pending = h.pending /\ Refresh(h, t).inFlight = h.inFlight \ {t}
<1> DEFINE g == [h EXCEPT !.inFlight = @ \ {t}]
<1>1. PICK b \in Nat : h \in Reach(hub.seq, hub.epoch, b)
  BY DEF Fit
<1>2. h \in Hubs /\ IsFiniteSet(h.inFlight) /\ \A u \in Threads : h.held[u] <= b
  BY <1>1 DEF Reach, HubSound
<1>3. /\ g \in Hubs /\ SameEvents(g, h) /\ g.inFlight = h.inFlight \ {t} /\ g.held = h.held
      /\ g.last = h.last /\ g.slipped = h.slipped /\ g.asked = h.asked /\ g.pending = h.pending
  BY <1>2 DEF Hubs, SameEvents
<1>4. Refresh(h, t) = Defer(g, t)
  BY DEF Refresh
<1> HIDE DEF g
<1>5. IsFiniteSet(g.inFlight)
  BY <1>2, <1>3, FS_RemoveElement
<1>6. g \in Reach(hub.seq, hub.epoch, b)
  BY <1>1, <1>2, <1>3, <1>5, EditStays
<1>7. Requested(g)
  BY <1>3 DEF Fit, Requested
<1>8. LostBy(g) = LostBy(h) /\ FresherBy(g) = FresherBy(h)
  BY <1>3 DEF LostBy, FresherBy, ToldBy, SameEvents
<1>9. \A u \in D, v \in Values : Owes(g, due, inbox, LostBy(g), FresherBy(g), u, v)
                                 => Owes(h, due, inbox, LostBy(h), FresherBy(h), u, v)
  BY <1>3, <1>8 DEF Owes
<1>10. Fit(g, due, inbox, D)
  BY <1>3, <1>6, <1>7, <1>9, EditFits
<1> QED BY <1>3, <1>4, <1>10, DeferFits

\* With somebody connected the summary is asked for.
LEMMA RefreshAsks ==
  ASSUME hub.seq \in Nat, hub \in Hubs, link.mode # "none",
         NEW h, NEW due, NEW D, D \subseteq Threads, Fit(h, due, inbox, D), NEW t \in Threads
  PROVE  /\ Fit(Refresh(h, t), due, inbox, D)
         /\ Refresh(h, t).pending = h.pending /\ Refresh(h, t).inFlight = h.inFlight \cup {t}
<1> DEFINE r == [kind |-> "summary", thread |-> t]
           q == Append(h.asked, r)
           g == Refresh(h, t)
<1>1. PICK b \in Nat : h \in Reach(hub.seq, hub.epoch, b)
  BY DEF Fit
<1>2. h \in Hubs /\ IsFiniteSet(h.inFlight) /\ \A u \in Threads : h.held[u] <= b
  BY <1>1 DEF Reach, HubSound
<1>3. g = [h EXCEPT !.inFlight = @ \cup {t}, !.asked = q]
  BY DEF Refresh
<1>4. h.asked \in Seq(Requests) /\ r \in Requests
  BY <1>2 DEF Hubs, Requests
<1>5. q \in Seq(Requests) /\ ToSet(q) = ToSet(h.asked) \cup {r}
  <2> HIDE DEF r
  <2>1. q \in Seq(Requests)
    BY <1>4
  <2> QED BY <1>4, <2>1, ToSetAppend
<1> HIDE DEF q, g
<1>6. /\ g \in Hubs /\ SameEvents(g, h) /\ g.inFlight = h.inFlight \cup {t} /\ g.held = h.held
      /\ g.last = h.last /\ g.slipped = h.slipped /\ g.asked = q /\ g.pending = h.pending
  BY <1>2, <1>3, <1>5 DEF Hubs, SameEvents
<1>7. IsFiniteSet(g.inFlight)
  BY <1>2, <1>6, FS_AddElement
<1>8. g \in Reach(hub.seq, hub.epoch, b)
  BY <1>1, <1>2, <1>6, <1>7, EditStays
<1>9. Requested(g)
  BY <1>5, <1>6 DEF Fit, Requested
<1>10. LostBy(g) = LostBy(h) /\ FresherBy(g) = FresherBy(h)
  BY <1>6 DEF LostBy, FresherBy, ToldBy, SameEvents
<1>11. \A u \in D, v \in Values : Owes(g, due, inbox, LostBy(g), FresherBy(g), u, v)
                                 => Owes(h, due, inbox, LostBy(h), FresherBy(h), u, v)
  BY <1>6, <1>10 DEF Owes
<1> QED BY <1>6, <1>8, <1>9, <1>11, EditFits DEF g

\* flushPending
LEMMA FlushedFits ==
  ASSUME hub.seq \in Nat, hub \in Hubs, NEW h, Fit(h, Due(h), inbox, Threads)
  PROVE  Fit(Flushed(h), Due(Flushed(h)), inbox, Threads)
<1> DEFINE g == [h EXCEPT !.pending = <<>>]
           s == h.pending
           Done(n) == {s[i] : i \in 1 .. n}
<1>1. PICK b \in Nat : h \in Reach(hub.seq, hub.epoch, b)
  BY DEF Fit
<1> DEFINE T == Reach(hub.seq, hub.epoch, b)
<1>2. h \in Hubs /\ IsFiniteSet(h.inFlight) /\ s \in Seq(Threads) /\ \A u \in Threads : h.held[u] <= b
  BY <1>1 DEF Reach, HubSound, Hubs
<1>3. /\ g \in Hubs /\ SameEvents(g, h) /\ g.inFlight = h.inFlight /\ g.held = h.held
      /\ g.last = h.last /\ g.slipped = h.slipped /\ g.asked = h.asked /\ g.pending = <<>>
  <2>1. <<>> \in Seq(Threads)
    OBVIOUS
  <2> QED BY <1>2, <2>1 DEF Hubs, SameEvents
<1>4. Flushed(h) = FoldLeft(Refresh, g, s)
  BY DEF Flushed
<1> HIDE DEF g
<1>5. g \in T
  BY <1>1, <1>2, <1>3, EditStays
<1>6. Requested(g) /\ LostBy(g) = LostBy(h) /\ FresherBy(g) = FresherBy(h)
  BY <1>3 DEF Fit, Requested, LostBy, FresherBy, ToldBy, SameEvents
<1>7. \A x \in T, t \in Threads : Refresh(x, t) \in T
  BY RefreshStays
<1>8. /\ Len(s) \in Nat /\ \A n \in 1 .. Len(s) : n \in Nat /\ n - 1 \in Nat /\ s[n] \in Threads
      /\ Done(0) = {} /\ Done(Len(s)) = ToSet(s)
      /\ \A n \in 1 .. Len(s) : Done(n) = Done(n - 1) \cup {s[n]}
  <2>1. Len(s) \in Nat /\ \A n \in 1 .. Len(s) : n \in Nat /\ n - 1 \in Nat /\ s[n] \in Threads
    BY <1>2
  <2> HIDE DEF s
  <2>2. Done(0) = {}
    OBVIOUS
  <2>3. Done(Len(s)) = ToSet(s)
    BY DEF ToSet
  <2>4. ASSUME NEW n \in 1 .. Len(s) PROVE Done(n) = Done(n - 1) \cup {s[n]}
    <3>1. \A i : i \in 1 .. n <=> i \in 1 .. (n - 1) \/ i = n
      BY <2>1
    <3> QED BY <3>1
  <2> QED BY <2>1, <2>2, <2>3, <2>4 DEF s
<1>9. CASE link.mode = "none"
  <2> DEFINE due == h.inFlight \ ToSet(s)
             D(n) == {t \in Threads : inbox[t] = Unlisted \/ t \notin ToSet(s) \/ t \in Done(n)}
             P == [n \in Nat |-> {x \in T : /\ Fit(x, due, inbox, D(n)) /\ x.pending = <<>>
                                            /\ x.inFlight = h.inFlight \ Done(n)}]
  <2>1. \A t \in D(0), v \in Values : Owes(g, due, inbox, LostBy(g), FresherBy(g), t, v)
                                      => Owes(h, Due(h), inbox, LostBy(h), FresherBy(h), t, v)
    BY <1>3, <1>6, <1>8 DEF Owes, Due
  <2>2. Fit(g, due, inbox, D(0))
    <3>1. D(0) \subseteq Threads
      OBVIOUS
    <3> HIDE DEF due, D
    <3> QED BY <1>3, <1>5, <1>6, <2>1, <3>1, EditFits DEF T
  <2>3. g \in P[0]
    <3>1. h.inFlight = h.inFlight \ Done(0)
      BY <1>8
    <3> HIDE DEF due, D, Done, T
    <3> QED BY <1>3, <1>5, <2>2, <3>1
  <2>4. ASSUME NEW n \in 1 .. Len(s), NEW x \in T, x \in P[n - 1] PROVE Refresh(x, s[n]) \in P[n]
    <3>1. /\ n \in Nat /\ n - 1 \in Nat /\ s[n] \in Threads /\ Refresh(x, s[n]) \in T
          /\ Done(n) = Done(n - 1) \cup {s[n]}
      BY <1>7, <1>8
    <3>2. /\ D(n - 1) \subseteq Threads /\ D(n) \subseteq D(n - 1) \cup {s[n]}
          /\ inbox[s[n]] = Unlisted => s[n] \in D(n - 1)
      BY <3>1
    <3> HIDE DEF due, D, Done, T, s
    <3>3. Fit(x, due, inbox, D(n - 1)) /\ x.pending = <<>> /\ x.inFlight = h.inFlight \ Done(n - 1)
      BY <2>4, <3>1
    <3>4. /\ Fit(Refresh(x, s[n]), due, inbox, D(n)) /\ Refresh(x, s[n]).pending = <<>>
          /\ Refresh(x, s[n]).inFlight = x.inFlight \ {s[n]}
      <4> DEFINE u == s[n]
                 C == D(n - 1)
                 E == D(n)
      <4> HIDE DEF u, C, E
      <4>1. /\ u \in Threads /\ C \subseteq Threads /\ E \subseteq C \cup {u} /\ Fit(x, due, inbox, C)
            /\ inbox[u] = Unlisted => u \in C
        BY <3>1, <3>2, <3>3 DEF u, C, E
      <4>2. Fit(Refresh(x, u), due, inbox, E) /\ Refresh(x, u).pending = <<>> /\ Refresh(x, u).inFlight = x.inFlight \ {u}
        BY <1>9, <3>3, <4>1, RefreshDefers
      <4> QED BY <4>2 DEF u, E
    <3>5. Refresh(x, s[n]).inFlight = h.inFlight \ Done(n)
      BY <3>1, <3>3, <3>4
    <3> QED BY <3>1, <3>4, <3>5
  <2> HIDE DEF P, T
  <2>5. FoldLeft(Refresh, g, s) \in P[Len(s)]
    BY <1>2, <1>5, <1>7, <2>3, <2>4, FoldRefreshBy
  <2>6. /\ Fit(Flushed(h), due, inbox, D(Len(s))) /\ Flushed(h).pending = <<>>
        /\ Flushed(h).inFlight = h.inFlight \ Done(Len(s))
    <3> HIDE DEF due, D, Done
    <3> QED BY <1>4, <1>8, <2>5 DEF P
  <2>7. D(Len(s)) = Threads
    BY <1>8
  <2>8. Due(Flushed(h)) = due
    <3>1. ToSet(<<>>) = {}
      BY DEF ToSet
    <3> QED BY <1>8, <2>6, <3>1 DEF Due
  <2> QED BY <2>6, <2>7, <2>8
<1>10. CASE link.mode # "none"
  <2> DEFINE due == Due(h)
             P == [n \in Nat |-> {x \in T : /\ Fit(x, due, inbox, Threads) /\ x.pending = <<>>
                                            /\ x.inFlight = h.inFlight \cup Done(n)}]
  <2>1. \A t \in Threads, v \in Values : Owes(g, due, inbox, LostBy(g), FresherBy(g), t, v)
                                      => Owes(h, due, inbox, LostBy(h), FresherBy(h), t, v)
    BY <1>3, <1>6 DEF Owes
  <2>2. Fit(g, due, inbox, Threads)
    BY <1>3, <1>5, <1>6, <2>1, EditFits
  <2>3. g \in P[0]
    <3>1. h.inFlight = h.inFlight \cup Done(0)
      BY <1>8
    <3> HIDE DEF due, Done, T
    <3> QED BY <1>3, <1>5, <2>2, <3>1
  <2>4. ASSUME NEW n \in 1 .. Len(s), NEW x \in T, x \in P[n - 1] PROVE Refresh(x, s[n]) \in P[n]
    <3>1. /\ n \in Nat /\ n - 1 \in Nat /\ s[n] \in Threads /\ Refresh(x, s[n]) \in T
          /\ Done(n) = Done(n - 1) \cup {s[n]}
      BY <1>7, <1>8
    <3> HIDE DEF due, Done, T, s
    <3>3. Fit(x, due, inbox, Threads) /\ x.pending = <<>> /\ x.inFlight = h.inFlight \cup Done(n - 1)
      BY <2>4, <3>1
    <3>4. /\ Fit(Refresh(x, s[n]), due, inbox, Threads) /\ Refresh(x, s[n]).pending = <<>>
          /\ Refresh(x, s[n]).inFlight = x.inFlight \cup {s[n]}
      BY <1>10, <3>1, <3>3, RefreshAsks
    <3>5. Refresh(x, s[n]).inFlight = h.inFlight \cup Done(n)
      BY <3>1, <3>3, <3>4
    <3> QED BY <3>1, <3>4, <3>5
  <2> HIDE DEF P, T
  <2>5. FoldLeft(Refresh, g, s) \in P[Len(s)]
    BY <1>2, <1>5, <1>7, <2>3, <2>4, FoldRefreshBy
  <2>6. /\ Fit(Flushed(h), due, inbox, Threads) /\ Flushed(h).pending = <<>>
        /\ Flushed(h).inFlight = h.inFlight \cup Done(Len(s))
    <3> HIDE DEF due, Done
    <3> QED BY <1>4, <1>8, <2>5 DEF P
  <2>7. Due(Flushed(h)) = due
    <3>1. ToSet(<<>>) = {}
      BY DEF ToSet
    <3> QED BY <1>8, <2>6, <3>1 DEF Due
  <2> QED BY <2>6, <2>7
<1> QED BY <1>9, <1>10

\* queueSummary
LEMMA QueuedFits ==
  ASSUME hub.seq \in Nat, hub \in Hubs, NEW h, NEW in, NEW t \in Threads,
         NEW in0, Fit(h, Due(h), in0, Threads),
         \A u \in Threads \ {t} : in[u] = in0[u],
         in[t] = Unlisted => in0[t] = Unlisted
  PROVE  Fit(Queued(h, t), Due(Queued(h, t)), in, Threads)
<1> DEFINE q == IF t \in ToSet(h.pending) THEN h.pending ELSE Append(h.pending, t)
           g == Queued(h, t)
<1>1. PICK b \in Nat : h \in Reach(hub.seq, hub.epoch, b)
  BY DEF Fit
<1>2. h \in Hubs /\ h.pending \in Seq(Threads) /\ IsFiniteSet(h.inFlight) /\ \A u \in Threads : h.held[u] <= b
  BY <1>1 DEF Reach, HubSound, Hubs
<1>3. q \in Seq(Threads) /\ ToSet(q) = ToSet(h.pending) \cup {t}
  <2>1. Append(h.pending, t) \in Seq(Threads) /\ ToSet(Append(h.pending, t)) = ToSet(h.pending) \cup {t}
    BY <1>2, ToSetAppend
  <2> QED BY <1>2, <2>1
<1>4. g = [h EXCEPT !.pending = q]
  BY DEF Queued
<1> HIDE DEF q, g
<1>5. /\ g \in Hubs /\ SameEvents(g, h) /\ g.inFlight = h.inFlight /\ g.held = h.held
      /\ g.last = h.last /\ g.slipped = h.slipped /\ g.asked = h.asked /\ g.pending = q
  BY <1>2, <1>3, <1>4 DEF Hubs, SameEvents
<1>6. g \in Reach(hub.seq, hub.epoch, b)
  BY <1>1, <1>2, <1>5, EditStays
<1>7. Requested(g) /\ LostBy(g) = LostBy(h) /\ FresherBy(g) = FresherBy(h)
  BY <1>5 DEF Fit, Requested, LostBy, FresherBy, ToldBy, SameEvents
<1>8. Due(g) = Due(h) \cup {t}
  BY <1>3, <1>5 DEF Due
<1>9. \A u \in Threads, v \in Values : Owes(g, Due(g), in, LostBy(g), FresherBy(g), u, v)
                                 => Owes(h, Due(h), in0, LostBy(h), FresherBy(h), u, v)
  BY <1>5, <1>7, <1>8 DEF Owes
<1> QED BY <1>5, <1>6, <1>7, <1>9, EditFits DEF g

\* History: of a thread that slips nothing is owed.
LEMMA SlipFits ==
  ASSUME hub.seq \in Nat, hub \in Hubs, NEW h, NEW due, NEW in, NEW D, D \subseteq Threads,
         Fit(h, due, in, D), NEW S \in SUBSET Threads, NEW D2, D2 \subseteq D \cup S
  PROVE  /\ Fit(Slip(h, S), due, in, D2)
         /\ Slip(h, S).pending = h.pending /\ Slip(h, S).inFlight = h.inFlight
<1> DEFINE g == Slip(h, S)
<1>1. PICK b \in Nat : h \in Reach(hub.seq, hub.epoch, b)
  BY DEF Fit
<1>2. h \in Hubs
  BY <1>1 DEF Reach
<1>3. g \in Reach(hub.seq, hub.epoch, b)
  BY <1>1, SlipStays
<1>4. /\ g.last = h.last /\ g.held = h.held /\ g.asked = h.asked /\ g.pending = h.pending
      /\ g.inFlight = h.inFlight /\ g.slipped = h.slipped \cup S /\ SameEvents(g, h)
  BY <1>2, SlipEffect DEF JournalOnly, SameEvents
<1> HIDE DEF g
<1>5. Requested(g)
  BY <1>4 DEF Fit, Requested
<1>6. LostBy(g) = LostBy(h) \cup S /\ FresherBy(g) = FresherBy(h)
  BY <1>4 DEF LostBy, FresherBy, ToldBy, SameEvents
<1>7. Fit(g, due, in, D)
  <2>1. \A u \in D, v \in Values : Owes(g, due, in, LostBy(g), FresherBy(g), u, v)
                                 => Owes(h, due, in, LostBy(h), FresherBy(h), u, v)
    BY <1>4, <1>6 DEF Owes
  <2> QED BY <1>3, <1>4, <1>5, <2>1, EditFits
<1>8. Good(g, due, in, LostBy(g), FresherBy(g), WireBy(g), View, D2)
  <2>1. Good(g, due, in, LostBy(g), FresherBy(g), WireBy(g), View, D)
    BY <1>7 DEF Fit
  <2>2. \A t \in S : Agrees(g, due, in, LostBy(g), FresherBy(g), WireBy(g), View, t)
    BY <1>6 DEF Agrees, Owes
  <2> QED BY <2>1, <2>2 DEF Good
<1> QED BY <1>4, <1>7, <1>8 DEF Fit, g

\* appendVisible
LEMMA AppendRemovedFits ==
  ASSUME hub.seq \in Nat, hub \in Hubs, NEW h, NEW in, NEW t \in Threads, in[t] = Unlisted,
         Fit(h, Due(h), in, Threads \ {t})
  PROVE  Fit(AppendRemoved(h, t), Due(AppendRemoved(h, t)), in, Threads)
<1> DEFINE due == Due(h)
           D == Threads \ {t}
<1>1. PICK b \in Nat : h \in Reach(hub.seq, hub.epoch, b)
  BY DEF Fit
<1>2. h \in Hubs /\ IsFiniteSet(h.inFlight) /\ \A u \in Threads : h.held[u] \in Nat /\ h.held[u] <= b
  BY <1>1 DEF Reach, HubSound, Hubs
<1>3. b + 1 \in Nat /\ AppendRemoved(h, t) \in Reach(hub.seq, hub.epoch, b + 1)
  BY <1>1, AppendRemovedStays
<1>4. Fit(h, due, in, D) /\ D \subseteq Threads
  OBVIOUS
<1>5. ASSUME NEW g, g \in Reach(hub.seq, hub.epoch, b + 1), SameEvents(g, h), Requested(g),
             g.last = h.last, g.slipped = h.slipped, g.pending = h.pending, g.inFlight = h.inFlight,
             \A u \in D : g.held[u] = h.held[u], g.held[t] # 0
      PROVE  Fit(g, Due(g), in, Threads)
  <2>1. Due(g) = due /\ LostBy(g) = LostBy(h) /\ FresherBy(g) = FresherBy(h)
    BY <1>5 DEF Due, LostBy, FresherBy, ToldBy, SameEvents
  <2>2. \A u \in D, v \in Values : Owes(g, due, in, LostBy(g), FresherBy(g), u, v)
                                   => Owes(h, due, in, LostBy(h), FresherBy(h), u, v)
    BY <1>5, <2>1 DEF Owes
  <2> HIDE DEF due, D
  <2>3. Fit(g, due, in, D)
    BY <1>3, <1>4, <1>5, <2>2, EditFits
  <2>4. Agrees(g, due, in, LostBy(g), FresherBy(g), WireBy(g), View, t)
    BY <1>5 DEF Agrees, Owes
  <2>5. Good(g, due, in, LostBy(g), FresherBy(g), WireBy(g), View, Threads)
    BY <2>3, <2>4 DEF Fit, Good, D
  <2> QED BY <2>1, <2>3, <2>5 DEF Fit
<1> HIDE DEF due, D
<1>6. CASE h.held[t] > 0
  <2> DEFINE d == [h.held EXCEPT ![t] = @ + 1]
             g == [h EXCEPT !.held = d]
  <2>1. AppendRemoved(h, t) = g
    BY <1>2, <1>6 DEF AppendRemoved, Hubs
  <2>2. d \in [Threads -> Nat] /\ d[t] # 0 /\ \A u \in D : d[u] = h.held[u]
    <3>a. h.held \in [Threads -> Nat]
      BY <1>2 DEF Hubs
    <3>1. h.held[t] \in Nat /\ h.held[t] + 1 \in Nat /\ h.held[t] + 1 # 0
      BY <3>a
    <3>2. d[t] = h.held[t] + 1 /\ \A u \in D : d[u] = h.held[u]
      BY <3>a DEF D
    <3> QED BY <3>a, <3>1, <3>2
  <2> HIDE DEF d
  <2>3. /\ g.last = h.last /\ g.slipped = h.slipped /\ g.pending = h.pending
        /\ g.inFlight = h.inFlight /\ g.held = d /\ g.asked = h.asked /\ SameEvents(g, h)
    BY <1>2, <2>2 DEF Hubs, SameEvents
  <2> HIDE DEF g
  <2>4. Requested(g)
    BY <1>4, <1>6, <2>2, <2>3 DEF Fit, Requested, D
  <2> QED BY <1>3, <1>5, <2>1, <2>2, <2>3, <2>4
<1>7. CASE ~ (h.held[t] > 0) /\ h.visible[t] = "unknown"
  <2> DEFINE d == [h.held EXCEPT ![t] = 1]
             r == [kind |-> "visible", thread |-> t]
             q == Append(h.asked, r)
             g == [h EXCEPT !.held = d, !.asked = q]
  <2>1. AppendRemoved(h, t) = g
    BY <1>2, <1>7 DEF AppendRemoved, Hubs
  <2>2. d \in [Threads -> Nat] /\ d[t] # 0 /\ \A u \in D : d[u] = h.held[u]
    BY <1>2, <1>7 DEF Hubs, D
  <2>3. h.asked \in Seq(Requests) /\ r \in Requests
    BY <1>2 DEF Hubs, Requests
  <2> HIDE DEF d, r
  <2>4. q \in Seq(Requests) /\ ToSet(q) = ToSet(h.asked) \cup {r}
    <3>1. q \in Seq(Requests)
      BY <2>3
    <3> QED BY <2>3, <3>1, ToSetAppend
  <2> HIDE DEF q
  <2>5. /\ g.last = h.last /\ g.slipped = h.slipped /\ g.pending = h.pending
        /\ g.inFlight = h.inFlight /\ g.held = d /\ g.asked = q /\ SameEvents(g, h)
    BY <1>2, <2>2, <2>4 DEF Hubs, SameEvents
  <2> HIDE DEF g
  <2>6. Requested(g)
    <3>1. \A u \in h.inFlight : [kind |-> "summary", thread |-> u] \in ToSet(q)
      BY <1>4, <2>4 DEF Fit, Requested
    <3>2. \A u \in D : d[u] > 0 => [kind |-> "visible", thread |-> u] \in ToSet(q)
      BY <1>4, <2>2, <2>4 DEF Fit, Requested, D
    <3>3. [kind |-> "visible", thread |-> t] \in ToSet(q)
      BY <2>4 DEF r
    <3> QED BY <2>5, <3>1, <3>2, <3>3 DEF Requested, D
  <2> QED BY <1>3, <1>5, <2>1, <2>2, <2>5, <2>6
<1>8. CASE ~ (h.held[t] > 0) /\ h.visible[t] = "yes"
  <2>1. AppendRemoved(h, t) = Append1(h, t, Unlisted)
    BY <1>8 DEF AppendRemoved
  <2>2. Unlisted \in Values /\ Threads \subseteq D \cup {t} /\ Unlisted = in[t]
    BY DEF Values, D
  <2>3. /\ Fit(Append1(h, t, Unlisted), due, in, Threads)
        /\ Append1(h, t, Unlisted).pending = h.pending
        /\ Append1(h, t, Unlisted).inFlight = h.inFlight
    BY <1>4, <2>2, AppendFits
  <2>4. Due(Append1(h, t, Unlisted)) = due
    BY <2>3 DEF Due, due
  <2> QED BY <2>1, <2>3, <2>4
<1>9. CASE ~ (h.held[t] > 0) /\ h.visible[t] \notin {"unknown", "yes"}
  <2>1. AppendRemoved(h, t) = Slip(h, {t})
    BY <1>9 DEF AppendRemoved
  <2>2. Threads \subseteq D \cup {t} /\ {t} \in SUBSET Threads
    BY DEF D
  <2>3. /\ Fit(Slip(h, {t}), due, in, Threads)
        /\ Slip(h, {t}).pending = h.pending /\ Slip(h, {t}).inFlight = h.inFlight
    BY <1>4, <2>2, SlipFits
  <2>4. Due(Slip(h, {t})) = due
    BY <2>3 DEF Due, due
  <2> QED BY <2>1, <2>3, <2>4
<1> QED BY <1>6, <1>7, <1>8, <1>9

\* releaseHeld for a thread the phones may see
LEMMA AppendHeldFits ==
  ASSUME hub.seq \in Nat, hub \in Hubs, NEW h, h \in Hubs, NEW t \in Threads,
         NEW g, g = [h EXCEPT !.held[t] = 0, !.visible[t] = "yes"],
         Fit(g, Due(h), inbox, IF h.held[t] = 0 THEN Threads ELSE Threads \ {t})
  PROVE  Fit(AppendHeld(h, t), Due(AppendHeld(h, t)), inbox, Threads)
<1> DEFINE n == h.held[t]
           q == [i \in 1 .. n |-> t]
           due == Due(h)
           E(i) == IF i = 0 THEN IF n = 0 THEN Threads ELSE Threads \ {t}
                   ELSE IF inbox[t] = Unlisted \/ t \in due THEN Threads ELSE Threads \ {t}
           slips == IF inbox[t] # Unlisted /\ t \notin ToSet(h.pending) \cup h.inFlight THEN {t} ELSE {}
<1>1. PICK b \in Nat : g \in Reach(hub.seq, hub.epoch, b)
  BY DEF Fit
<1> DEFINE T == Reach(hub.seq, hub.epoch, b)
           P == [i \in Nat |-> {x \in T : /\ Fit(x, due, inbox, E(i)) /\ x.pending = h.pending
                                          /\ x.inFlight = h.inFlight}]
           f == FoldLeft(LAMBDA x, u : Append1(x, u, Unlisted), g, q)
<1>2. n \in Nat /\ g.pending = h.pending /\ g.inFlight = h.inFlight
  BY DEF Hubs
<1>3. q \in Seq(Threads) /\ Len(q) = n /\ \A i \in 1 .. n : q[i] = t
  BY <1>2
<1>4. AppendHeld(h, t) = Slip(f, slips)
  BY Zenon DEF AppendHeld
<1>5. \A x \in T, u \in Threads : Append1(x, u, Unlisted) \in T
  <2>1. Unlisted \in Values
    BY DEF Values
  <2> QED BY <2>1, Append1Stays
<1>6. g \in P[0]
  <2>1. Fit(g, due, inbox, E(0)) /\ g \in T
    BY <1>1
  <2>2. 0 \in Nat /\ P[0] = {x \in T : /\ Fit(x, due, inbox, E(0)) /\ x.pending = h.pending
                                       /\ x.inFlight = h.inFlight}
    OBVIOUS
  <2> HIDE DEF T, E, due, P
  <2> QED BY <1>2, <2>1, <2>2, Zenon
<1>7. ASSUME NEW i \in 1 .. Len(q), NEW x \in T, x \in P[i - 1] PROVE Append1(x, q[i], Unlisted) \in P[i]
  <2>1. i \in Nat /\ i - 1 \in Nat /\ i # 0 /\ q[i] = t /\ Append1(x, t, Unlisted) \in T
    BY <1>2, <1>3, <1>5
  <2>2. /\ E(i) \subseteq Threads /\ E(i - 1) \subseteq Threads /\ E(i) \subseteq E(i - 1) \cup {t}
        /\ t \in E(i) => Unlisted = inbox[t] \/ (inbox[t] # Unlisted /\ t \in due)
    BY <2>1
  <2> HIDE DEF T, E, due, q
  <2>3. Fit(x, due, inbox, E(i - 1)) /\ x.pending = h.pending /\ x.inFlight = h.inFlight
    BY <1>7, <2>1
  <2>4. Unlisted \in Values
    BY DEF Values
  <2>5. /\ Fit(Append1(x, t, Unlisted), due, inbox, E(i))
        /\ Append1(x, t, Unlisted).pending = x.pending /\ Append1(x, t, Unlisted).inFlight = x.inFlight
    BY <2>2, <2>3, <2>4, AppendFits
  <2> QED BY <2>1, <2>3, <2>5
<1>8. f \in P[Len(q)]
  <2> HIDE DEF T, P, q
  <2> QED BY <1>1, <1>3, <1>5, <1>6, <1>7, FoldAppend1By DEF T
<1>9. Fit(f, due, inbox, E(n)) /\ f.pending = h.pending /\ f.inFlight = h.inFlight
  <2> HIDE DEF T, E, due, q, f
  <2> QED BY <1>2, <1>3, <1>8
<1>10. slips \in SUBSET Threads /\ E(n) \subseteq Threads /\ Threads \subseteq E(n) \cup slips
  BY <1>2 DEF Due
<1> HIDE DEF f, slips, E, due, P, T, q
<1>11. /\ Fit(Slip(f, slips), due, inbox, Threads)
       /\ Slip(f, slips).pending = f.pending /\ Slip(f, slips).inFlight = f.inFlight
  BY <1>9, <1>10, SlipFits
<1>12. Due(Slip(f, slips)) = due
  BY <1>9, <1>11 DEF Due, due
<1> QED BY <1>4, <1>11, <1>12

--------------------------------------------------------------------------------
(* Steps that do not touch what was recorded.                                *)

\* While the hub runs it fits.
LEMMA HubFits ==
  ASSUME EventsInv, hub.up, UpAgrees
  PROVE  /\ Fit(hub, Due(hub), inbox, Threads) /\ hub.seq \in Nat /\ hub \in Hubs
         /\ ToSet(hub.outgoing) = {}
<1>1. /\ WireSound(link, phone.cursor, hub.epoch, hub.seq) /\ link \in Links
      /\ hub \in Hubs /\ hub.seq \in Nat /\ phone.cursor \in Cursors /\ MaxEvents \in Nat /\ events <= MaxEvents
  BY Running, LimitsAssumption DEF VarsOK
<1>2. hub \in Reach(hub.seq, hub.epoch, MaxEvents)
  BY <1>1, HubReach
<1>3. ToSet(hub.outgoing) = {}
  BY ToSetEmpty DEF EventsInv, HubInv, HubOK
<1>4. ToldBy(hub) = {} /\ WireBy(hub) = WireOf(link)
  BY <1>3 DEF ToldBy, WireBy
<1>5. hub.ringFloor <= hub.ringFloor /\ hub.journalFloor <= hub.journalFloor
  BY <1>1 DEF Hubs
<1>6. Known(hub, View, WireOf(link))
  <2> DEFINE w == link.pushes \o link.queued
  <2>1. w \in Seq(Entries) /\ Between(w, 0, hub.seq)
    BY <1>1 DEF WireSound, Links
  <2> HIDE DEF w
  <2>2. ToSet(w) \subseteq Entries /\ \A e \in ToSet(w) : e.seq <= hub.seq
    BY <2>1 DEF ToSet, Between
  <2>3. Seen.seq \in Nat /\ (Seen.epoch = hub.epoch => Seen.seq <= hub.seq)
    <3>1. CASE Unanswered
      <4>1. link.reply \in Seq(Replies) /\ Len(link.reply) <= 1 /\ link.reply # <<>>
        BY <1>1, <3>1 DEF WireSound, Links, Unanswered
      <4>2. link.reply[1] \in Replies
        BY <4>1
      <4> QED BY <1>1, <3>1, <4>1, <4>2 DEF WireSound, Seen, Replies
    <3>2. CASE ~ Unanswered
      BY <1>1, <3>2 DEF WireSound, Seen, Cursors
    <3> QED BY <3>1, <3>2
  <2> QED BY <2>2, <2>3 DEF Known, View, WireOf, w
<1>7. Good(hub, Due(hub), inbox, LostBy(hub), FresherBy(hub), WireBy(hub), View, Threads)
  <2>1. lost \subseteq LostBy(hub) /\ FresherBy(hub) = fresher
    BY <1>4 DEF LostBy, FresherBy
  <2>2. \A t \in Threads, v \in Values :
          Owes(hub, Due(hub), inbox, LostBy(hub), FresherBy(hub), t, v)
          => Owes(hub, Due(hub), inbox, lost, fresher, t, v)
    BY <2>1 DEF Owes
  <2>3. SameRecords(hub, hub)
    BY DEF SameRecords
  <2> QED BY <1>4, <2>2, <2>3, StaysGood DEF UpAgrees
<1> QED BY <1>1, <1>2, <1>3, <1>4, <1>5, <1>6, <1>7 DEF Fit, UpAgrees

\* What Deliver makes of the connection
LEMMA Delivered ==
  ASSUME WireSound(link, phone.cursor, hub.epoch, hub.seq), hub.seq \in Nat,
         NEW b, NEW h \in Reach(hub.seq, hub.epoch, b)
  PROVE  /\ Deliver(h).mode = link.mode /\ Deliver(h).reply = link.reply /\ Deliver(h).ahead = link.ahead
         /\ Served => WireOf(Deliver(h)) = WireBy(h)
<1> DEFINE out == h.outgoing
           news == {e \in ToSet(out) : e.seq > link.through}
           wanted == Kept(out, news)
<1>1. /\ out \in Seq(Entries) /\ Between(out, hub.seq, h.seq) /\ h.seq \in Nat
      /\ link \in Links /\ link.through \in Nat /\ link.through <= hub.seq
      /\ link.pushes \in Seq(Entries) /\ link.queued \in Seq(Entries)
  BY DEF Reach, Hubs, WireSound, Links
<1>2. wanted = out
  <2> HIDE DEF out
  <2>1. \A i \in 1 .. Len(out) : out[i].seq \in Nat /\ hub.seq < out[i].seq
    BY <1>1, EntryNumbers DEF Between
  <2>2. ToSet(out) \subseteq news
    <3> SUFFICES ASSUME NEW e \in ToSet(out) PROVE e.seq > link.through
      OBVIOUS
    <3>1. PICK i \in 1 .. Len(out) : e = out[i]
      BY <1>1 DEF ToSet
    <3> QED BY <1>1, <2>1, <3>1
  <2> HIDE DEF news
  <2> QED BY <1>1, <2>2, KeptAll
<1> HIDE DEF news
<1>3. CASE link.mode = "live" /\ out # <<>>
  <2>1. Deliver(h) = [link EXCEPT !.pushes = @ \o out, !.through = out[Len(out)].seq]
    BY <1>2, <1>3 DEF Deliver, news
  <2>2. link.queued = <<>>
    BY <1>3 DEF WireSound
  <2>3. /\ Deliver(h).mode = link.mode /\ Deliver(h).reply = link.reply /\ Deliver(h).ahead = link.ahead
        /\ Deliver(h).pushes = link.pushes \o out /\ Deliver(h).queued = <<>>
    BY <1>1, <2>1, <2>2 DEF Links
  <2> HIDE DEF out
  <2>4. WireOf(Deliver(h)) = ToSet(link.pushes) \cup ToSet(out) /\ WireOf(link) = ToSet(link.pushes)
    <3>1. (link.pushes \o out) \o <<>> = link.pushes \o out /\ link.pushes \o <<>> = link.pushes
      BY <1>1, Joining
    <3> QED BY <1>1, <2>2, <2>3, <3>1, ToSetConcat DEF WireOf
  <2> QED BY <2>3, <2>4 DEF WireBy, out
<1>4. CASE link.mode = "replaying"
  <2>1. Deliver(h) = [link EXCEPT !.queued = @ \o out]
    BY <1>2, <1>4 DEF Deliver, news
  <2>2. /\ Deliver(h).mode = link.mode /\ Deliver(h).reply = link.reply /\ Deliver(h).ahead = link.ahead
        /\ Deliver(h).pushes = link.pushes /\ Deliver(h).queued = link.queued \o out
    BY <1>1, <2>1 DEF Links
  <2> HIDE DEF out
  <2>3. WireOf(Deliver(h)) = WireOf(link) \cup ToSet(out)
    <3> DEFINE p == link.pushes
               q == link.queued
    <3>1. p \in Seq(Entries) /\ q \in Seq(Entries) /\ out \in Seq(Entries)
      BY <1>1
    <3>2. Deliver(h).pushes \o Deliver(h).queued = p \o (q \o out)
      BY <2>2
    <3> HIDE DEF p, q
    <3>3. (p \o q) \o out = p \o (q \o out)
      BY <3>1, Joining
    <3>4. p \o q \in Seq(Entries)
      BY <3>1, Joining
    <3>5. ToSet((p \o q) \o out) = ToSet(p \o q) \cup ToSet(out)
      <4> DEFINE w == p \o q
      <4>1. w \in Seq(Entries)
        BY <3>4
      <4> HIDE DEF w
      <4>2. ToSet(w \o out) = ToSet(w) \cup ToSet(out)
        BY <3>1, <4>1, ToSetConcat
      <4> QED BY <4>2 DEF w
    <3> QED BY <3>2, <3>3, <3>5 DEF WireOf, p, q
  <2> QED BY <2>2, <2>3 DEF WireBy, out
<1>5. CASE ~ (link.mode = "live" /\ out # <<>>) /\ link.mode # "replaying"
  <2>1. Deliver(h) = link
    BY <1>2, <1>5 DEF Deliver, news
  <2>2. Served => ToSet(out) = {}
    BY <1>5, ToSetEmpty DEF Served
  <2> QED BY <2>1, <2>2 DEF WireBy
<1> QED BY <1>3, <1>4, <1>5

\* A handler that ends with a hub that fits keeps the invariant.
LEMMA BecomeAgrees ==
  ASSUME EventsInv, hub.up, UpAgrees, NEW h, Fit(h, Due(h), inbox', Threads), Become(h), phone' = phone
  PROVE  AgreeInv'
<1>1. /\ WireSound(link, phone.cursor, hub.epoch, hub.seq) /\ hub \in Hubs /\ hub.seq \in Nat
  BY Running
<1>2. PICK b \in Nat : h \in Reach(hub.seq, hub.epoch, b)
  BY DEF Fit
<1>3. h \in Hubs /\ h.up /\ h.epoch = hub.epoch
  BY <1>2 DEF Reach
<1>4. /\ link'.mode = link.mode /\ link'.reply = link.reply /\ link'.ahead = link.ahead
      /\ Served => WireOf(link)' = WireBy(h)
  BY <1>1, <1>2, Delivered DEF Become, WireOf
<1>5. lost' = LostBy(h) /\ fresher' = FresherBy(h)
  BY DEF Become, LostBy, FresherBy, ToldBy
<1>6. /\ SameRecords(hub', h) /\ hub'.up = h.up /\ hub'.asked = h.asked /\ hub'.held = h.held
      /\ hub'.inFlight = h.inFlight /\ hub'.pending = h.pending /\ hub'.last = h.last
  BY <1>3 DEF Become, Hubs, SameRecords
<1>7. /\ Served' = Served /\ Unanswered' = Unanswered /\ Seen' = Seen /\ View' = View
  BY <1>4 DEF Served, Unanswered, Seen, View
<1>8. Due(hub)' = Due(h)
  BY <1>6 DEF Due
<1>9. Requested(hub)'
  BY <1>6 DEF Fit, Requested
<1>10. Good(hub', Due(hub'), inbox', lost', fresher', WireOf(link'), View', Threads)
  <2>1. Good(h, Due(h), inbox', LostBy(h), FresherBy(h), WireBy(h), View, Threads)
    BY DEF Fit
  <2>2. \A t \in Threads, v \in Values :
          Owes(hub', Due(hub'), inbox', lost', fresher', t, v)
          => Owes(h, Due(h), inbox', LostBy(h), FresherBy(h), t, v)
    BY <1>5, <1>6, <1>8 DEF Owes
  <2>3. View'.served => View.served /\ WireOf(link') = WireBy(h)
    BY <1>4, <1>7 DEF View, Served
  <2> QED BY <1>6, <1>7, <2>1, <2>2, <2>3, StaysGood
<1>11. Unanswered' /\ ~ link'.ahead => ~ Covered(hub', phone'.cursor)
  <2>1. Covered(hub', phone.cursor) => Covered(h, phone.cursor)
    BY <1>6 DEF SameRecords, Covered
  <2>2. Covered(h, phone.cursor) => Covered(hub, phone.cursor)
    <3>1. /\ hub.ringFloor \in Nat /\ hub.journalFloor \in Nat /\ h.ringFloor \in Nat
          /\ h.journalFloor \in Nat /\ phone.cursor.seq \in Nat
          /\ hub.ringFloor <= h.ringFloor /\ hub.journalFloor <= h.journalFloor
      BY <1>1, <1>3, Running DEF Hubs, Cursors, Fit
    <3> QED BY <1>3, <3>1 DEF Covered
  <2> QED BY <1>4, <1>7, <2>1, <2>2 DEF UpAgrees
<1>12. Served' => Seen'.epoch = hub'.epoch
  BY <1>3, <1>6, <1>7 DEF UpAgrees, SameRecords
<1>13. UpAgrees'
  BY <1>9, <1>10, <1>11, <1>12 DEF UpAgrees
<1> QED BY <1>3, <1>6, <1>13 DEF AgreeInv

\* So does a step that leaves ring and journal alone, when no more is owed after it
\* and the phone knows no less.
LEMMA UpStays ==
  ASSUME hub.up, UpAgrees, hub'.up, SameRecords(hub', hub), Requested(hub'),
         \A t \in Threads, v \in Values :
           Owes(hub', Due(hub'), inbox', lost', fresher', t, v)
           => Owes(hub, Due(hub), inbox, lost, fresher, t, v),
         Covered(hub, Seen') => Seen' = Seen,
         Served' => Served /\ WireOf(link') = WireOf(link),
         \A t \in Threads, v \in Values :
           (View.all \/ View.list[t] = v) => (View'.all \/ View'.list[t] = v),
         Unanswered' /\ ~ link'.ahead => ~ Covered(hub, phone'.cursor),
         Served' => Seen'.epoch = hub.epoch
  PROVE  AgreeInv'
<1>1. Good(hub', Due(hub'), inbox', lost', fresher', WireOf(link'), View', Threads)
  <2>1. /\ Covered(hub, View'.seen) => View'.seen = View.seen
        /\ View'.served => View.served /\ WireOf(link') = WireOf(link)
    BY DEF View, Seen, Served
  <2> QED BY <2>1, StaysGood DEF UpAgrees
<1>2. Covered(hub', phone'.cursor) => Covered(hub, phone'.cursor)
  BY DEF SameRecords, Covered
<1>3. hub'.epoch = hub.epoch
  BY DEF SameRecords
<1>4. UpAgrees'
  BY <1>1, <1>2, <1>3 DEF UpAgrees
<1> QED BY <1>4 DEF AgreeInv

--------------------------------------------------------------------------------
(* The steps of the server and of the hub.                                   *)

\* An element of a sequence is its head or in its tail.
LEMMA HeadOrTail ==
  ASSUME NEW X, NEW s \in Seq(X), s # <<>>
  PROVE  \A e \in ToSet(s) : e = Head(s) \/ e \in ToSet(Tail(s))
<1> SUFFICES ASSUME NEW i \in DOMAIN s PROVE s[i] = Head(s) \/ s[i] \in ToSet(Tail(s))
  BY DEF ToSet
<1>1. CASE i = 1
  BY <1>1
<1>2. CASE i # 1
  <2>1. i - 1 \in DOMAIN Tail(s) /\ Tail(s)[i - 1] = s[i]
    BY <1>2
  <2> QED BY <2>1 DEF ToSet
<1> QED BY <1>1, <1>2

\* An event that the hub hears, and one that it does not
LEMMA EventAgrees ==
  ASSUME EventsInv, AgreeInv, NEW t \in Threads, NEW v \in Values, NEW h,
         hub.up => Fit(h, Due(h), [inbox EXCEPT ![t] = v], Threads), Event(t, v, h)
  PROVE  AgreeInv'
<1> DEFINE in == [inbox EXCEPT ![t] = v]
<1>1. inbox \in [Threads -> Values] /\ lost \subseteq Threads
  BY DEF EventsInv, VarsOK
<1>2. in[t] = v /\ \A u \in Threads \ {t} : in[u] = inbox[u]
  BY <1>1
<1>3. inbox' = in /\ phone' = phone /\ saved' = saved
  BY DEF Event
<1> HIDE DEF in
<1>4. CASE hub.up
  <2>1. UpAgrees /\ Become(h)
    BY <1>4 DEF AgreeInv, Event
  <2>2. Fit(h, Due(h), inbox', Threads)
    BY <1>3, <1>4 DEF in
  <2> QED BY <1>3, <1>4, <2>1, <2>2, BecomeAgrees
<1>5. CASE ~ hub.up
  <2>1. /\ lost' = lost \cup (IF v = inbox[t] THEN {} ELSE {t})
        /\ UNCHANGED <<hub, link, fresher>>
    BY <1>5 DEF Event
  <2>2. View' = View
    BY <1>3, <2>1 DEF View, Seen, Served, Unanswered
  <2> DEFINE r == Restored(saved)
  <2>3. \A u \in Threads, w \in Values :
          Owes(r, {}, inbox', lost', fresher', u, w) => Owes(r, {}, inbox, lost, fresher, u, w)
    <3> HIDE DEF r
    <3>1. \A u \in Threads : u \notin lost' => u \notin lost /\ inbox'[u] = inbox[u]
      BY <1>2, <1>3, <2>1
    <3> QED BY <2>1, <3>1 DEF Owes
  <2>4. SameRecords(r, r)
    BY DEF SameRecords
  <2>5. ASSUME saved.clean PROVE Good(r, {}, inbox', lost', fresher', {}, View, Threads)
    <3>1. Good(r, {}, inbox, lost, fresher, {}, View, Threads)
      BY <1>5, <2>5 DEF AgreeInv
    <3> HIDE DEF r
    <3> QED BY <2>3, <2>4, <3>1, StaysGood
  <2>6. saved' = saved /\ Restored(saved') = r /\ hub' = hub
    BY <1>3, <2>1
  <2> HIDE DEF r
  <2> QED BY <1>5, <2>2, <2>5, <2>6 DEF AgreeInv
<1> QED BY <1>4, <1>5

\* Events of the server
LEMMA ServerAgrees == EventsInv /\ AgreeInv /\ ServerStep => AgreeInv'
<1> SUFFICES ASSUME EventsInv, AgreeInv, ServerStep PROVE AgreeInv'
  OBVIOUS
<1>1. inbox \in [Threads -> Values]
  BY DEF EventsInv, VarsOK
<1>2. hub.up => Fit(hub, Due(hub), inbox, Threads) /\ hub.seq \in Nat /\ hub \in Hubs
  BY HubFits DEF AgreeInv
<1>3. \A v \in Versions : v # Unlisted
  BY VersionsAssumption DEF Unlisted
<1>4. ASSUME NEW t \in Threads, NEW v \in Values, v = Unlisted => inbox[t] = Unlisted,
             Event(t, v, Queued(hub, t))
      PROVE  AgreeInv'
  <2> DEFINE in == [inbox EXCEPT ![t] = v]
  <2>1. \A u \in Threads \ {t} : in[u] = inbox[u]
    BY <1>1
  <2>2. in[t] = Unlisted => inbox[t] = Unlisted
    BY <1>1, <1>4
  <2> HIDE DEF in
  <2>3. hub.up => Fit(Queued(hub, t), Due(Queued(hub, t)), in, Threads)
    BY <1>2, <2>1, <2>2, QueuedFits
  <2> QED BY <1>4, <2>3, EventAgrees DEF in
<1>5. ASSUME NEW t \in Threads, NEW v \in Values, Updated(t, v) PROVE AgreeInv'
  <2>1. Event(t, v, Queued(hub, t)) /\ (v = Unlisted => inbox[t] = Unlisted)
    BY <1>3, <1>5 DEF Updated
  <2> QED BY <1>4, <2>1
<1>6. ASSUME NEW t \in Threads, NEW v \in Values, Listed(t, v) PROVE AgreeInv'
  <2>1. Event(t, v, Queued(hub, t)) /\ (v = Unlisted => inbox[t] = Unlisted)
    BY <1>6 DEF Listed
  <2> QED BY <1>4, <2>1
<1>7. ASSUME NEW t \in Threads, Archived(t) PROVE AgreeInv'
  <2> DEFINE in == [inbox EXCEPT ![t] = Unlisted]
             f == Flushed(hub)
  <2>1. Event(t, Unlisted, AppendRemoved(f, t)) /\ Unlisted \in Values
    BY <1>7 DEF Archived, Values
  <2>2. in[t] = Unlisted /\ \A u \in Threads \ {t} : in[u] = inbox[u]
    BY <1>1
  <2> HIDE DEF in
  <2>3. ASSUME hub.up PROVE Fit(AppendRemoved(f, t), Due(AppendRemoved(f, t)), in, Threads)
    <3>1. Fit(f, Due(f), inbox, Threads)
      BY <1>2, <2>3, FlushedFits
    <3> HIDE DEF f
    <3>2. PICK b \in Nat : f \in Reach(hub.seq, hub.epoch, b)
      BY <3>1 DEF Fit
    <3>3. SameEvents(f, f) /\ Requested(f)
      BY <3>1 DEF SameEvents, Fit
    <3>4. \A u \in Threads \ {t}, w \in Values :
            Owes(f, Due(f), in, LostBy(f), FresherBy(f), u, w)
            => Owes(f, Due(f), inbox, LostBy(f), FresherBy(f), u, w)
      BY <2>2 DEF Owes
    <3>5. Fit(f, Due(f), in, Threads \ {t})
      BY <3>1, <3>2, <3>3, <3>4, EditFits
    <3> QED BY <1>2, <2>2, <2>3, <3>5, AppendRemovedFits
  <2> QED BY <2>1, <2>3, EventAgrees DEF in
<1> QED BY <1>5, <1>6, <1>7 DEF ServerStep

\* The timer
LEMMA FlushAgrees == EventsInv /\ AgreeInv /\ Flush => AgreeInv'
<1> SUFFICES ASSUME EventsInv, AgreeInv, Flush PROVE AgreeInv'
  OBVIOUS
<1>1. hub.up /\ UpAgrees /\ Become(Flushed(hub)) /\ inbox' = inbox /\ phone' = phone
  BY DEF Flush, AgreeInv
<1>2. Fit(Flushed(hub), Due(Flushed(hub)), inbox, Threads)
  BY <1>1, HubFits, FlushedFits
<1> QED BY <1>1, <1>2, BecomeAgrees

\* The hub without the first of its requests, and what it still counts on
LEMMA FirstAnswered ==
  ASSUME EventsInv, NEW kind, Answered(kind), UpAgrees
  PROVE  LET h == [hub EXCEPT !.asked = Tail(@)]
         IN  /\ h.pending = hub.pending /\ h.last = hub.last /\ h.slipped = hub.slipped
             /\ h.asked = Tail(hub.asked) /\ h.visible = hub.visible /\ h.up
             /\ LostBy(h) = LostBy(hub) /\ FresherBy(h) = FresherBy(hub) /\ Due(h) = Due(hub)
             /\ \A u \in hub.inFlight : [kind |-> "summary", thread |-> u] \in {Head(hub.asked)} \cup ToSet(h.asked)
             /\ \A u \in Threads : hub.held[u] > 0 =>
                  [kind |-> "visible", thread |-> u] \in {Head(hub.asked)} \cup ToSet(h.asked)
             /\ Head(hub.asked).kind = kind
<1> DEFINE h == [hub EXCEPT !.asked = Tail(@)]
<1>1. /\ hub \in Hubs /\ hub.asked \in Seq(Requests) /\ hub.asked # <<>> /\ hub.up
      /\ Head(hub.asked).kind = kind
  BY Running DEF Answered
<1>2. /\ h.pending = hub.pending /\ h.last = hub.last /\ h.slipped = hub.slipped
      /\ h.asked = Tail(hub.asked) /\ h.visible = hub.visible /\ h.outgoing = hub.outgoing
      /\ h.inFlight = hub.inFlight /\ h.up = hub.up
  BY <1>1 DEF Hubs
<1> HIDE DEF h
<1>3. ToSet(hub.asked) \subseteq {Head(hub.asked)} \cup ToSet(h.asked)
  BY <1>1, <1>2, HeadOrTail
<1>4. LostBy(h) = LostBy(hub) /\ FresherBy(h) = FresherBy(hub) /\ Due(h) = Due(hub)
  BY <1>2 DEF LostBy, FresherBy, ToldBy, Due
<1>5. \A u \in hub.inFlight : [kind |-> "summary", thread |-> u] \in {Head(hub.asked)} \cup ToSet(h.asked)
  BY <1>3 DEF UpAgrees, Requested
<1>6. \A u \in Threads : hub.held[u] > 0 =>
        [kind |-> "visible", thread |-> u] \in {Head(hub.asked)} \cup ToSet(h.asked)
  BY <1>3 DEF UpAgrees, Requested
<1> QED BY <1>1, <1>2, <1>4, <1>5, <1>6 DEF h

\* The answer to refreshSummary, and its failure
LEMMA SummaryAgrees == EventsInv /\ AgreeInv /\ (SummaryAnswered \/ SummaryFails) => AgreeInv'
<1> SUFFICES ASSUME EventsInv, AgreeInv, SummaryAnswered \/ SummaryFails PROVE AgreeInv'
  OBVIOUS
<1> DEFINE t == Head(hub.asked).thread
           h == [hub EXCEPT !.asked = Tail(@)]
           g == [h EXCEPT !.inFlight = @ \ {t}]
<1>1. /\ Answered("summary") /\ hub.up /\ UpAgrees
      /\ UNCHANGED <<inbox, phone>>
  BY DEF SummaryAnswered, SummaryFails, Answered, AgreeInv
<1>2. /\ t \in Threads /\ h \in Reach(hub.seq, hub.epoch, events)
      /\ h \in Hubs /\ SameEvents(h, hub) /\ h.inFlight = hub.inFlight /\ h.held = hub.held
  BY <1>1, Answering
<1>3. /\ h.pending = hub.pending /\ h.last = hub.last /\ h.slipped = hub.slipped /\ h.up
      /\ LostBy(h) = LostBy(hub) /\ FresherBy(h) = FresherBy(hub) /\ Due(h) = Due(hub)
      /\ \A u \in hub.inFlight : [kind |-> "summary", thread |-> u] \in {Head(hub.asked)} \cup ToSet(h.asked)
      /\ \A u \in Threads : hub.held[u] > 0 =>
           [kind |-> "visible", thread |-> u] \in {Head(hub.asked)} \cup ToSet(h.asked)
      /\ Head(hub.asked).kind = "summary" /\ h.asked = Tail(hub.asked)
  BY <1>1, FirstAnswered
<1>4. inbox[t] \in Values /\ events \in Nat
  BY <1>2, LimitsAssumption DEF EventsInv, VarsOK
<1>5. /\ IsFiniteSet(h.inFlight) /\ \A u \in Threads : h.held[u] <= events
  BY <1>2 DEF Reach, HubSound
<1>6. /\ Fit(hub, Due(hub), inbox, Threads) /\ hub.seq \in Nat /\ hub \in Hubs
  BY <1>1, HubFits
<1>7. \/ ~ Current(t) /\ Become(h)
      \/ Current(t) /\ inbox[t] = Unlisted /\ Become(g)
      \/ Current(t) /\ Become(Append1(g, t, inbox[t]))
      \/ /\ Current(t) /\ inbox[t] # Unlisted /\ hub.last[t] = inbox[t]
         /\ hub' = g /\ lost' = lost \cup ({t} \cap fresher) /\ UNCHANGED <<link, fresher>>
      \/ Current(t) /\ Become(Defer(g, t))
  BY DEF SummaryAnswered, SummaryFails
<1>8. Current(t) <=> t \in hub.inFlight /\ [kind |-> "summary", thread |-> t] \notin ToSet(h.asked)
  BY <1>3 DEF Current
<1> HIDE DEF h
<1>9. /\ g \in Hubs /\ SameEvents(g, hub) /\ g.inFlight = h.inFlight \ {t} /\ g.held = h.held
      /\ g.pending = hub.pending /\ g.last = hub.last /\ g.slipped = hub.slipped /\ g.asked = h.asked
      /\ g.up /\ SameEvents(g, h)
  BY <1>2, <1>3 DEF Hubs, SameEvents
<1>10. LostBy(g) = LostBy(hub) /\ FresherBy(g) = FresherBy(hub)
  BY <1>9 DEF LostBy, FresherBy, ToldBy, SameEvents
<1> HIDE DEF g
<1>11. IsFiniteSet(g.inFlight)
  BY <1>5, <1>9, FS_RemoveElement
<1>12. g \in Reach(hub.seq, hub.epoch, events)
  BY <1>2, <1>5, <1>9, <1>11, EditStays
<1>13. Due(hub) \subseteq Due(g) \cup {t} /\ Due(g) \subseteq Due(hub)
  BY <1>2, <1>9 DEF Due
<1>14. \A u \in Threads : g.held[u] > 0 => [kind |-> "visible", thread |-> u] \in ToSet(g.asked)
  BY <1>2, <1>3, <1>9
<1>15. Requested(g)
  <2>1. ASSUME NEW u \in g.inFlight PROVE [kind |-> "summary", thread |-> u] \in ToSet(g.asked)
    <3>1. u # t /\ [kind |-> "summary", thread |-> u] \in {Head(hub.asked)} \cup ToSet(h.asked)
      BY <1>2, <1>3, <1>9
    <3> QED BY <1>9, <3>1 DEF t
  <2> QED BY <1>14, <2>1 DEF Requested
<1> HIDE DEF t
<1>16. ASSUME NEW D, D \subseteq Threads, t \in D => inbox[t] = Unlisted PROVE Fit(g, Due(g), inbox, D)
  <2>1. \A u \in D, v \in Values : Owes(g, Due(g), inbox, LostBy(g), FresherBy(g), u, v)
                                   => Owes(hub, Due(hub), inbox, LostBy(hub), FresherBy(hub), u, v)
    BY <1>2, <1>9, <1>10, <1>13, <1>16 DEF Owes
  <2> QED BY <1>4, <1>6, <1>9, <1>12, <1>15, <1>16, <2>1, EditFits
<1>17. CASE ~ Current(t) /\ Become(h)
  <2>1. Requested(h)
    <3>1. ASSUME NEW u \in h.inFlight PROVE [kind |-> "summary", thread |-> u] \in ToSet(h.asked)
      <4>1. [kind |-> "summary", thread |-> u] \in {Head(hub.asked)} \cup ToSet(h.asked)
        BY <1>2, <1>3
      <4>2. CASE u # t
        BY <4>1, <4>2 DEF t
      <4>3. CASE u = t
        BY <1>2, <1>8, <1>17, <4>3
      <4> QED BY <4>2, <4>3
    <3> QED BY <1>2, <1>3, <3>1 DEF Requested
  <2>2. \A u \in Threads, v \in Values : Owes(h, Due(h), inbox, LostBy(h), FresherBy(h), u, v)
                                         => Owes(hub, Due(hub), inbox, LostBy(hub), FresherBy(hub), u, v)
    BY <1>2, <1>3 DEF Owes
  <2>3. Fit(h, Due(h), inbox, Threads)
    BY <1>2, <1>4, <1>6, <2>1, <2>2, EditFits
  <2> QED BY <1>1, <1>17, <2>3, BecomeAgrees
<1>18. CASE Current(t) /\ inbox[t] = Unlisted /\ Become(g)
  <2>1. Fit(g, Due(g), inbox, Threads)
    BY <1>16, <1>18
  <2> QED BY <1>1, <1>18, <2>1, BecomeAgrees
<1>19. CASE Current(t) /\ Become(Append1(g, t, inbox[t]))
  <2> DEFINE a == Append1(g, t, inbox[t])
  <2>1. Fit(g, Due(g), inbox, Threads \ {t})
    BY <1>16
  <2>2. Threads \ {t} \subseteq Threads /\ Threads \subseteq (Threads \ {t}) \cup {t}
    OBVIOUS
  <2>3. Fit(a, Due(g), inbox, Threads) /\ a.pending = g.pending /\ a.inFlight = g.inFlight
    BY <1>2, <1>4, <1>6, <2>1, <2>2, AppendFits
  <2>4. Due(a) = Due(g)
    BY <2>3 DEF Due
  <2>5. Become(a)
    BY <1>19
  <2> HIDE DEF a
  <2> QED BY <1>1, <2>3, <2>4, <2>5, BecomeAgrees
<1>20. CASE /\ Current(t) /\ inbox[t] # Unlisted /\ hub.last[t] = inbox[t]
            /\ hub' = g /\ lost' = lost \cup ({t} \cap fresher) /\ UNCHANGED <<link, fresher>>
  <2>1. /\ hub'.up /\ SameRecords(hub', hub) /\ Requested(hub')
    BY <1>9, <1>15, <1>20 DEF SameEvents, SameRecords
  <2>2. \A u \in Threads, v \in Values :
           Owes(hub', Due(hub'), inbox', lost', fresher', u, v)
           => Owes(hub, Due(hub), inbox, lost, fresher, u, v)
    <3> SUFFICES ASSUME NEW u \in Threads, NEW v \in Values, Owes(g, Due(g), inbox, lost', fresher, u, v)
                 PROVE  Owes(hub, Due(hub), inbox, lost, fresher, u, v)
      BY <1>1, <1>20
    <3>1. u \notin lost /\ hub.held[u] = 0 /\ g.last[u] = hub.last[u]
      BY <1>2, <1>9, <1>20 DEF Owes
    <3>2. CASE v = hub.last[u] /\ v # None /\ u \notin fresher
      BY <3>1, <3>2 DEF Owes
    <3>3. CASE v = inbox[u] /\ (v = Unlisted \/ u \notin Due(g)) /\ u # t
      BY <1>13, <3>1, <3>3 DEF Owes
    <3>4. CASE v = inbox[u] /\ u = t
      <4>1. t \notin fresher
        BY <1>20, <3>4 DEF Owes
      <4>2. v = hub.last[t] /\ v # None
        BY <1>20, <3>4 DEF Unlisted, None
      <4> QED BY <3>1, <3>4, <4>1, <4>2 DEF Owes
    <3> QED BY <3>1, <3>2, <3>3, <3>4 DEF Owes
  <2>3. View' = View /\ Seen' = Seen /\ Served' = Served /\ Unanswered' = Unanswered
        /\ link' = link /\ phone' = phone
    BY <1>1, <1>20 DEF View, Seen, Served, Unanswered
  <2>4. Unanswered' /\ ~ link'.ahead => ~ Covered(hub, phone'.cursor)
    BY <1>1, <2>3 DEF UpAgrees
  <2>5. Served' => Seen'.epoch = hub.epoch
    BY <1>1, <2>3 DEF UpAgrees
  <2> QED BY <1>1, <2>1, <2>2, <2>3, <2>4, <2>5, UpStays
<1>21. CASE Current(t) /\ Become(Defer(g, t))
  <2> DEFINE a == Defer(g, t)
             D == {u \in Threads : u # t \/ inbox[t] = Unlisted}
  <2>1. D \subseteq Threads /\ (t \in D => inbox[t] = Unlisted)
    OBVIOUS
  <2>2. Threads \subseteq D \cup {t} /\ (inbox[t] = Unlisted => t \in D)
    BY <1>2
  <2> HIDE DEF D
  <2>3. Fit(g, Due(g), inbox, D)
    BY <1>16, <2>1
  <2>4. Fit(a, Due(g), inbox, Threads) /\ a.pending = g.pending /\ a.inFlight = g.inFlight
    BY <1>2, <1>6, <2>1, <2>2, <2>3, DeferFits
  <2>5. Due(a) = Due(g)
    BY <2>4 DEF Due
  <2>6. Become(a)
    BY <1>21
  <2> HIDE DEF a
  <2> QED BY <1>1, <2>4, <2>5, <2>6, BecomeAgrees
<1> QED BY <1>7, <1>17, <1>18, <1>19, <1>20, <1>21

\* The answer to the lookup of releaseHeld, and its failure
LEMMA VisibilityAgrees == EventsInv /\ AgreeInv /\ (VisibilityAnswered \/ VisibilityFails) => AgreeInv'
<1> SUFFICES ASSUME EventsInv, AgreeInv, VisibilityAnswered \/ VisibilityFails PROVE AgreeInv'
  OBVIOUS
<1> DEFINE t == Head(hub.asked).thread
           h == [hub EXCEPT !.asked = Tail(@)]
<1>1. /\ Answered("visible") /\ hub.up /\ UpAgrees
      /\ UNCHANGED <<inbox, phone>>
  BY DEF VisibilityAnswered, VisibilityFails, Answered, AgreeInv
<1>2. /\ t \in Threads /\ h \in Reach(hub.seq, hub.epoch, events)
      /\ h \in Hubs /\ SameEvents(h, hub) /\ h.inFlight = hub.inFlight /\ h.held = hub.held
      /\ Tail(hub.asked) \in Seq(Requests)
  BY <1>1, Answering
<1>3. /\ h.pending = hub.pending /\ h.last = hub.last /\ h.slipped = hub.slipped /\ h.up
      /\ LostBy(h) = LostBy(hub) /\ FresherBy(h) = FresherBy(hub) /\ Due(h) = Due(hub)
      /\ \A u \in hub.inFlight : [kind |-> "summary", thread |-> u] \in {Head(hub.asked)} \cup ToSet(h.asked)
      /\ \A u \in Threads : hub.held[u] > 0 =>
           [kind |-> "visible", thread |-> u] \in {Head(hub.asked)} \cup ToSet(h.asked)
      /\ Head(hub.asked).kind = "visible" /\ h.asked = Tail(hub.asked) /\ h.visible = hub.visible
  BY <1>1, FirstAnswered
<1>4. /\ Fit(hub, Due(hub), inbox, Threads) /\ hub.seq \in Nat /\ hub \in Hubs /\ events \in Nat
  BY <1>1, HubFits, LimitsAssumption DEF EventsInv, VarsOK
<1>5. /\ IsFiniteSet(h.inFlight) /\ \A u \in Threads : h.held[u] \in Nat /\ h.held[u] <= events
  BY <1>2 DEF Reach, HubSound, Hubs
<1>6. /\ VisibilityAnswered => Become(AppendHeld(h, t))
      /\ VisibilityFails =>
           /\ hub' = [hub EXCEPT !.asked = Tail(@), !.held[t] = 0, !.visible[t] = "no"]
           /\ lost' = lost \cup {t} /\ UNCHANGED <<link, fresher>>
  BY DEF VisibilityAnswered, VisibilityFails
<1>7. ASSUME NEW u \in Threads, u # t, hub.held[u] > 0
      PROVE  [kind |-> "visible", thread |-> u] \in ToSet(h.asked)
  <2>1. [kind |-> "visible", thread |-> u] # Head(hub.asked)
    BY <1>7
  <2> QED BY <1>3, <1>7, <2>1
<1>8. ASSUME NEW u \in hub.inFlight PROVE [kind |-> "summary", thread |-> u] \in ToSet(h.asked)
  <2>1. [kind |-> "summary", thread |-> u] # Head(hub.asked)
    BY <1>3
  <2> QED BY <1>3, <2>1
<1> HIDE DEF h, t
<1> DEFINE d == [hub.held EXCEPT ![t] = 0]
<1>9. d \in [Threads -> Nat] /\ d[t] = 0 /\ \A u \in Threads \ {t} : d[u] = hub.held[u]
  BY <1>2, <1>4 DEF Hubs
<1>10. \A u \in Threads : d[u] > 0 => [kind |-> "visible", thread |-> u] \in ToSet(h.asked)
  BY <1>7, <1>9
<1>11. CASE VisibilityAnswered
  <2> DEFINE g == [h EXCEPT !.held[t] = 0, !.visible[t] = "yes"]
             w == [h.visible EXCEPT ![t] = "yes"]
             D == IF h.held[t] = 0 THEN Threads ELSE Threads \ {t}
  <2>1. w \in [Threads -> {"unknown", "yes", "no"}]
    BY <1>2 DEF Hubs
  <2>2. g = [h EXCEPT !.held = d, !.visible = w]
    BY <1>2 DEF Hubs
  <2> HIDE DEF w, d, g
  <2>3. /\ g \in Hubs /\ SameEvents(g, h) /\ SameEvents(g, hub) /\ g.inFlight = hub.inFlight /\ g.held = d
        /\ g.last = hub.last /\ g.slipped = hub.slipped /\ g.asked = h.asked /\ g.pending = hub.pending
    BY <1>2, <1>3, <1>9, <2>1, <2>2 DEF Hubs, SameEvents
  <2>4. g \in Reach(hub.seq, hub.epoch, events)
    <3>1. \A u \in Threads : g.held[u] <= events
      <4>1. 0 <= events
        BY <1>4
      <4> QED BY <1>2, <1>5, <1>9, <2>3, <4>1
    <3> QED BY <1>2, <1>5, <2>3, <3>1, EditStays
  <2>5. Requested(g)
    BY <1>8, <1>10, <2>3 DEF Requested
  <2>6. LostBy(g) = LostBy(hub) /\ FresherBy(g) = FresherBy(hub)
    BY <2>3 DEF LostBy, FresherBy, ToldBy, SameEvents
  <2>7. \A u \in D, v \in Values : Owes(g, Due(h), inbox, LostBy(g), FresherBy(g), u, v)
                                   => Owes(hub, Due(hub), inbox, LostBy(hub), FresherBy(hub), u, v)
    BY <1>2, <1>3, <1>9, <2>3, <2>6 DEF Owes
  <2>8. D \subseteq Threads
    OBVIOUS
  <2> HIDE DEF D
  <2>9. Fit(g, Due(h), inbox, D)
    BY <1>4, <2>3, <2>4, <2>5, <2>7, <2>8, EditFits
  <2>10. Fit(AppendHeld(h, t), Due(AppendHeld(h, t)), inbox, Threads)
    BY <1>2, <1>4, <2>9, AppendHeldFits DEF g, D
  <2>11. Become(AppendHeld(h, t))
    BY <1>6, <1>11
  <2> DEFINE a == AppendHeld(h, t)
  <2>12. Fit(a, Due(a), inbox', Threads) /\ Become(a) /\ phone' = phone
    BY <1>1, <2>10, <2>11
  <2> HIDE DEF a
  <2> QED BY <1>1, <2>12, BecomeAgrees
<1>12. CASE VisibilityFails
  <2>1. /\ hub' = [hub EXCEPT !.asked = Tail(@), !.held[t] = 0, !.visible[t] = "no"]
        /\ lost' = lost \cup {t} /\ UNCHANGED <<link, fresher>>
    BY <1>6, <1>12
  <2>2. /\ hub'.held = d /\ hub'.asked = Tail(hub.asked) /\ hub'.inFlight = hub.inFlight /\ hub'.last = hub.last
        /\ hub'.pending = hub.pending /\ hub'.up = hub.up /\ SameRecords(hub', hub)
    BY <1>4, <2>1 DEF Hubs, SameRecords
  <2>3. h.asked = Tail(hub.asked)
    BY <1>3
  <2> HIDE DEF d
  <2>4. Requested(hub')
    BY <1>8, <1>10, <2>2, <2>3 DEF Requested
  <2>5. Due(hub') = Due(hub)
    BY <2>2 DEF Due
  <2>6. \A u \in Threads, v \in Values :
           Owes(hub', Due(hub'), inbox', lost', fresher', u, v)
           => Owes(hub, Due(hub), inbox, lost, fresher, u, v)
    <3>1. \A u \in Threads : u \notin lost' => u \notin lost /\ hub'.held[u] = hub.held[u]
      BY <1>9, <2>1, <2>2
    <3> QED BY <1>1, <2>1, <2>2, <2>5, <3>1 DEF Owes
  <2>7. View' = View /\ Seen' = Seen /\ Served' = Served /\ Unanswered' = Unanswered
        /\ link' = link /\ phone' = phone
    BY <1>1, <2>1 DEF View, Seen, Served, Unanswered
  <2>8. Unanswered' /\ ~ link'.ahead => ~ Covered(hub, phone'.cursor)
    BY <1>1, <2>7 DEF UpAgrees
  <2>9. Served' => Seen'.epoch = hub.epoch
    BY <1>1, <2>7 DEF UpAgrees
  <2> QED BY <1>1, <2>2, <2>4, <2>6, <2>7, <2>8, <2>9, UpStays
<1> QED BY <1>11, <1>12

\* A step of the connection that leaves the wire as it is
LEMMA UpSame ==
  ASSUME hub.up, UpAgrees, hub'.up, SameRecords(hub', hub), hub'.pending = hub.pending,
         hub'.inFlight = hub.inFlight, hub'.held = hub.held, hub'.last = hub.last,
         \A r \in ToSet(hub.asked) : r.kind # "resume" => r \in ToSet(hub'.asked),
         UNCHANGED <<inbox, phone, lost, fresher>>, link'.reply = link.reply, link'.ahead = link.ahead,
         Served' => Served /\ WireOf(link') = WireOf(link)
  PROVE  AgreeInv'
<1>1. Due(hub') = Due(hub) /\ Requested(hub')
  BY DEF Due, Requested, UpAgrees
<1>2. \A u \in Threads, v \in Values :
           Owes(hub', Due(hub'), inbox', lost', fresher', u, v)
           => Owes(hub, Due(hub), inbox, lost, fresher, u, v)
  BY <1>1 DEF Owes
<1>3. Unanswered' = Unanswered /\ Seen' = Seen
  BY DEF Unanswered, Seen
<1>4. View'.all = View.all /\ View'.list = View.list
  BY <1>3 DEF View
<1>5. \A t \in Threads, v \in Values :
        (View.all \/ View.list[t] = v) => (View'.all \/ View'.list[t] = v)
  BY <1>4
<1>6. Unanswered' /\ ~ link'.ahead => ~ Covered(hub, phone'.cursor)
  BY <1>3 DEF UpAgrees
<1>7. Served' => Seen'.epoch = hub.epoch
  BY <1>3 DEF UpAgrees
<1> QED BY <1>1, <1>2, <1>3, <1>5, <1>6, <1>7, UpStays

\* resume asks for summaries, and takes the answers.
LEMMA FetchAgrees == EventsInv /\ AgreeInv /\ (FetchMissing \/ ResumeAnswered) => AgreeInv'
<1> SUFFICES ASSUME EventsInv, AgreeInv, FetchMissing \/ ResumeAnswered PROVE AgreeInv'
  OBVIOUS
<1>1. /\ hub.up /\ UpAgrees /\ hub.asked \in Seq(Requests) /\ hub \in Hubs /\ link \in Links
  <2>1. hub.up
    BY DEF EventsInv, WireInv, FetchMissing, ResumeAnswered, Answered, Unlinked
  <2> QED BY <2>1, Running DEF AgreeInv
<1>2. UNCHANGED <<inbox, phone, lost, fresher>>
  BY DEF FetchMissing, ResumeAnswered
<1>3. CASE FetchMissing
  <2>1. PICK order \in SetToSeqs(Missing) :
          hub' = [hub EXCEPT !.asked = @ \o [i \in 1 .. Len(order) |->
                                               [kind |-> "resume", thread |-> order[i]]]]
    BY <1>3 DEF FetchMissing
  <2> DEFINE q == hub'.asked
             more == [i \in 1 .. Len(order) |-> [kind |-> "resume", thread |-> order[i]]]
  <2>2. q \in Seq(Requests)
    BY <1>3, FetchKeeps DEF EventsInv, HubInv, HubOK, HubSound, Hubs
  <2>3. hub' = [hub EXCEPT !.asked = hub.asked \o more]
    BY <1>1, <2>1 DEF Hubs
  <2> HIDE DEF more
  <2>4. q = hub.asked \o more
    BY <1>1, <2>3 DEF Hubs
  <2>5. /\ SameRecords(hub', hub) /\ hub'.pending = hub.pending /\ hub'.up
        /\ hub'.inFlight = hub.inFlight /\ hub'.held = hub.held /\ hub'.last = hub.last
    BY <1>1, <2>3 DEF Hubs, SameRecords
  <2>6. ToSet(hub.asked) \subseteq ToSet(q)
    <3>1. Missing \in SUBSET Recorded(hub.journal)
      BY DEF Missing, JournalSummaryIds, Recorded, NoEntry
    <3>2. IsFiniteSet(Recorded(hub.journal))
      BY <1>1, Running DEF HubSound, JournalSound
    <3>3. IsFiniteSet(Missing) /\ Missing \subseteq Threads
      BY <3>1, <3>2, FS_Subset DEF Recorded
    <3>4. order \in Seq(Threads)
      BY <3>3, Enumerated
    <3>5. more \in Seq(Requests)
      BY <3>4 DEF more, Requests
    <3> QED BY <1>1, <2>4, <3>5, ToSetConcat
  <2>7. link' = link
    BY <1>3 DEF FetchMissing
  <2>8. Served' = Served
    BY <2>7 DEF Served
  <2> QED BY <1>1, <1>2, <2>5, <2>6, <2>7, <2>8, UpSame
<1>4. CASE ResumeAnswered
  <2>1. /\ Answered("resume") /\ hub' = [hub EXCEPT !.asked = Tail(@)]
        /\ link' = [link EXCEPT !.fetched[Head(hub.asked).thread] =
                      [value |-> inbox[Head(hub.asked).thread], here |-> TRUE]]
    BY <1>4 DEF ResumeAnswered
  <2>2. /\ hub.asked # <<>> /\ Head(hub.asked).kind = "resume"
    BY <2>1 DEF Answered
  <2>3. /\ SameRecords(hub', hub) /\ hub'.pending = hub.pending /\ hub'.up /\ hub'.asked = Tail(hub.asked)
        /\ hub'.inFlight = hub.inFlight /\ hub'.held = hub.held /\ hub'.last = hub.last
    BY <1>1, <2>1 DEF Hubs, SameRecords
  <2>4. \A r \in ToSet(hub.asked) : r.kind # "resume" => r \in ToSet(hub'.asked)
    BY <1>1, <2>2, <2>3, HeadOrTail
  <2>5. /\ link'.mode = link.mode /\ link'.reply = link.reply /\ link'.ahead = link.ahead
        /\ link'.pushes = link.pushes /\ link'.queued = link.queued
    BY <1>1, <2>1 DEF Links
  <2>6. Served' = Served /\ WireOf(link') = WireOf(link)
    BY <2>5 DEF Served, WireOf
  <2> QED BY <1>1, <1>2, <2>3, <2>4, <2>5, <2>6, UpSame
<1> QED BY <1>3, <1>4

\* Steps of the subscriber that lose nothing of what is on the wire
LEMMA LinkAgrees ==
  EventsInv /\ AgreeInv /\ (StartDelivery \/ Watch \/ Connect \/ Subscribe) => AgreeInv'
<1> SUFFICES ASSUME EventsInv, AgreeInv, StartDelivery \/ Watch \/ Connect \/ Subscribe PROVE AgreeInv'
  OBVIOUS
<1>1. hub.up /\ UpAgrees /\ link \in Links /\ WireSound(link, phone.cursor, hub.epoch, hub.seq)
  <2>1. hub.up
    BY DEF EventsInv, WireInv, StartDelivery, Watch, Connect, Subscribe, Unlinked
  <2> QED BY <2>1, Running DEF AgreeInv
<1>2. UNCHANGED <<inbox, hub, phone, lost, fresher>>
  BY DEF StartDelivery, Watch, Connect, Subscribe
<1>3. link'.reply = link.reply /\ link'.ahead = link.ahead
  BY <1>1 DEF StartDelivery, Watch, Connect, Subscribe, Links
<1>4. SameRecords(hub', hub)
  BY <1>2 DEF SameRecords
<1>5. Served' => Served /\ WireOf(link') = WireOf(link)
  <2>1. CASE StartDelivery
    <3>1. /\ link.mode = "replaying" /\ link'.pushes = link.pushes \o link.queued /\ link'.queued = <<>>
      BY <1>1, <2>1 DEF StartDelivery, Links
    <3>2. (link.pushes \o link.queued) \o <<>> = link.pushes \o link.queued
      <4>1. link.pushes \o link.queued \in Seq(Entries)
        BY <1>1 DEF Links
      <4> QED BY <4>1, Joining
    <3> QED BY <3>1, <3>2 DEF Served, WireOf
  <2>2. CASE Watch
    <3>1. /\ link.mode = "live" /\ link'.pushes = link.pushes /\ link'.queued = <<>>
      BY <1>1, <2>2 DEF Watch, Links
    <3>2. link.queued = <<>>
      BY <1>1, <3>1 DEF WireSound
    <3> QED BY <3>1, <3>2 DEF Served, WireOf
  <2>3. CASE Connect \/ Subscribe
    <3>1. CASE Connect
      BY <1>1, <3>1 DEF Connect, Links, Served
    <3>2. CASE Subscribe
      BY <1>1, <3>2 DEF Subscribe, Links, Served
    <3> QED BY <2>3, <3>1, <3>2
  <2> QED BY <2>1, <2>2, <2>3
<1> QED BY <1>1, <1>2, <1>3, <1>4, <1>5, UpSame

\* Nothing is told to a phone of which nothing is owed, or that no resume covers.
LEMMA NothingOwed ==
  ASSUME NEW h, NEW g, SameRecords(g, h), NEW due, NEW in, NEW l, NEW f, NEW W, NEW x, NEW D,
         Good(h, due, in, l, f, W, x, D),
         NEW due2, NEW in2, NEW m, NEW p, NEW V, NEW y, NEW D2, ~ y.served,
         D2 \subseteq m \/ ~ Covered(h, y.seen)
  PROVE  Good(g, due2, in2, m, p, V, y, D2)
<1>1. /\ g.epoch = h.epoch /\ g.ring = h.ring /\ g.ringFloor = h.ringFloor
      /\ g.journal = h.journal /\ g.journalFloor = h.journalFloor
  BY DEF SameRecords
<1>2. \A t \in Threads : Paired(ToSet(g.ring), g.ringFloor, g.journalFloor, g.journal[t], t)
  BY <1>1 DEF Good
<1>3. ASSUME NEW t \in D2 PROVE Agrees(g, due2, in2, m, p, V, y, t)
  <2>1. CASE ~ Covered(h, y.seen)
    <3>1. ~ Covered(g, y.seen)
      BY <1>1, <2>1 DEF Covered
    <3> QED BY <3>1 DEF Agrees
  <2>2. CASE t \in m
    BY <2>2 DEF Agrees, Owes
  <2> QED BY <2>1, <2>2
<1> QED BY <1>2, <1>3 DEF Good

\* The connection closes.
LEMMA DisconnectAgrees == EventsInv /\ AgreeInv /\ Disconnect => AgreeInv'
<1> SUFFICES ASSUME EventsInv, AgreeInv, Disconnect PROVE AgreeInv'
  OBVIOUS
<1> DEFINE q == Kept(hub.asked, {r \in ToSet(hub.asked) : r.kind # "resume"})
<1>1. /\ hub.up /\ UpAgrees /\ link' = Unlinked /\ hub \in Hubs /\ hub.asked \in Seq(Requests)
      /\ lost' = IF link.ahead /\ ~ link.reply[1].resumed THEN Threads ELSE lost
      /\ UNCHANGED <<inbox, phone, fresher>>
  <2>1. hub.up
    BY DEF EventsInv, WireInv, Disconnect, Unlinked
  <2> QED BY <2>1, Running DEF AgreeInv, Disconnect
<1>2. hub' = [hub EXCEPT !.asked = q]
  BY DEF Disconnect, WithoutResume
<1>3. ToSet(q) = {r \in ToSet(hub.asked) : r.kind # "resume"}
  BY <1>1, KeptElements
<1> HIDE DEF q
<1>4. /\ SameRecords(hub', hub) /\ hub'.pending = hub.pending /\ hub'.up /\ hub'.asked = q
      /\ hub'.inFlight = hub.inFlight /\ hub'.held = hub.held /\ hub'.last = hub.last
  BY <1>1, <1>2 DEF Hubs, SameRecords
<1>5. ~ Served' /\ ~ Unanswered' /\ Seen' = phone.cursor
  BY <1>1 DEF Served, Unanswered, Seen, Unlinked
<1>6. Due(hub') = Due(hub) /\ Requested(hub')
  BY <1>1, <1>3, <1>4 DEF Due, Requested, UpAgrees
<1>7. Good(hub', Due(hub'), inbox', lost', fresher', WireOf(link'), View', Threads)
  <2>1. ~ View'.served /\ View'.seen = phone.cursor
    BY <1>5 DEF View
  <2>2. CASE lost' = Threads \/ ~ Covered(hub, phone.cursor)
    <3>1. Threads \subseteq lost' \/ ~ Covered(hub, View'.seen)
      BY <2>1, <2>2
    <3> QED BY <1>1, <1>4, <2>1, <3>1, NothingOwed DEF UpAgrees
  <2>3. CASE lost' = lost /\ ~ Unanswered
    <3>1. View'.all = View.all /\ View'.list = View.list /\ View'.seen = View.seen
      BY <1>1, <1>5, <2>3 DEF View, Seen
    <3>2. \A u \in Threads, v \in Values :
           Owes(hub', Due(hub'), inbox', lost', fresher', u, v)
           => Owes(hub, Due(hub), inbox, lost, fresher, u, v)
      BY <1>1, <1>4, <1>6, <2>3 DEF Owes
    <3>3. \A t \in Threads, v \in Values :
            (View.all \/ View.list[t] = v) => (View'.all \/ View'.list[t] = v)
      BY <3>1
    <3> QED BY <1>1, <1>4, <2>1, <3>1, <3>2, <3>3, StaysGood DEF UpAgrees
  <2>4. CASE lost' # Threads /\ Unanswered
    <3>1. ~ link.ahead
      BY <1>1, <2>4 DEF Unanswered
    <3> QED BY <1>1, <2>2, <2>4, <3>1 DEF UpAgrees
  <2> QED BY <1>1, <2>2, <2>3, <2>4
<1>8. UpAgrees'
  BY <1>5, <1>6, <1>7 DEF UpAgrees
<1> QED BY <1>4, <1>8 DEF AgreeInv

\* The phone takes the reply.
LEMMA ReplyAgrees == EventsInv /\ AgreeInv /\ TakeReply => AgreeInv'
<1> SUFFICES ASSUME EventsInv, AgreeInv, TakeReply PROVE AgreeInv'
  OBVIOUS
<1> DEFINE r == link.reply[1]
<1>1. /\ hub.up /\ UpAgrees /\ link.reply # <<>> /\ link \in Links /\ phone \in Phones
      /\ phone' = IF r.resumed THEN phone
                  ELSE [phone EXCEPT !.cursor = [epoch |-> r.epoch, seq |-> r.seq],
                                     !.stale = TRUE]
      /\ link' = [link EXCEPT !.reply = <<>>, !.ahead = FALSE]
      /\ UNCHANGED <<inbox, hub, lost, fresher>>
  <2>1. hub.up
    BY DEF EventsInv, WireInv, TakeReply, Unlinked
  <2> QED BY <2>1, Running DEF AgreeInv, TakeReply
<1>2. /\ link'.mode = link.mode /\ link'.pushes = link.pushes /\ link'.queued = link.queued /\ link'.reply = <<>>
  BY <1>1 DEF Links
<1>3. Served' = Served /\ WireOf(link') = WireOf(link) /\ ~ Unanswered' /\ Seen' = phone'.cursor
  BY <1>2 DEF Served, WireOf, Unanswered, Seen
<1>4. Seen' = Seen /\ View'.list = View.list /\ (View.all => View'.all)
  BY <1>1, <1>3 DEF Seen, View, Unanswered, Phones
<1>5. \A t \in Threads, v \in Values :
        (View.all \/ View.list[t] = v) => (View'.all \/ View'.list[t] = v)
  BY <1>4
<1>6. SameRecords(hub', hub) /\ Requested(hub') /\ hub'.up /\ hub' = hub
  BY <1>1 DEF SameRecords, UpAgrees
<1>7. \A u \in Threads, v \in Values :
           Owes(hub', Due(hub'), inbox', lost', fresher', u, v)
           => Owes(hub, Due(hub), inbox, lost, fresher, u, v)
  BY <1>1
<1>8. Served' => Seen'.epoch = hub.epoch
  BY <1>1, <1>3, <1>4 DEF UpAgrees
<1> QED BY <1>1, <1>3, <1>4, <1>5, <1>6, <1>7, <1>8, UpStays

--------------------------------------------------------------------------------
(* Restarts.                                                                 *)

\* The hub that the file restores
LEMMA RestoredFields ==
  ASSUME NEW f
  PROVE  /\ Restored(f).up /\ Restored(f).epoch = f.epoch /\ Restored(f).ring = <<>>
         /\ Restored(f).ringFloor = f.seq /\ Restored(f).journal = f.journal
         /\ Restored(f).journalFloor = f.journalFloor /\ Restored(f).inFlight = {}
         /\ Restored(f).pending = <<>> /\ Restored(f).held = [t \in Threads |-> 0]
         /\ Restored(f).last = [t \in Threads |-> None]
<1> DEFINE m == Empty(f.epoch)
<1>1. /\ m.up /\ m.epoch = f.epoch /\ m.ring = <<>> /\ m.inFlight = {} /\ m.pending = <<>>
      /\ m.held = [t \in Threads |-> 0] /\ m.last = [t \in Threads |-> None]
      /\ DOMAIN m = {"up", "epoch", "seq", "ring", "ringFloor", "journal", "journalFloor", "pending",
                     "inFlight", "asked", "last", "held", "visible", "outgoing", "slipped"}
      /\ m = [x \in DOMAIN m |-> m[x]]
  BY DEF Empty
<1>2. Restored(f) = [m EXCEPT !.seq = f.seq, !.ringFloor = f.seq,
                              !.journal = f.journal, !.journalFloor = f.journalFloor]
  BY DEF Restored
<1> HIDE DEF m
<1> QED BY <1>1, <1>2

\* Of a hub that has told nothing yet no resume from another epoch is answered.
LEMMA EmptyGood ==
  ASSUME NEW e \in Nat, NEW due, NEW in, NEW l, NEW f, NEW W, NEW x, ~ x.served, x.seen.epoch # e
  PROVE  /\ Good(Empty(e), due, in, l, f, W, x, Threads) /\ Requested(Empty(e))
         /\ ~ Covered(Empty(e), x.seen)
<1>1. /\ Empty(e).epoch = e /\ Empty(e).ring = <<>> /\ Empty(e).inFlight = {}
      /\ Empty(e).held = [t \in Threads |-> 0] /\ Empty(e).journal = [t \in Threads |-> NoEntry]
  BY DEF Empty
<1>2. ~ Covered(Empty(e), x.seen)
  BY <1>1 DEF Covered
<1>3. ASSUME NEW t \in Threads
      PROVE  Paired(ToSet(Empty(e).ring), Empty(e).ringFloor, Empty(e).journalFloor, Empty(e).journal[t], t)
  <2>1. ToSet(Empty(e).ring) = {} /\ Empty(e).journal[t] = NoEntry
    BY <1>1, ToSetEmpty
  <2> QED BY <2>1 DEF Paired, NoEntry
<1>4. \A t \in Threads : Agrees(Empty(e), due, in, l, f, W, x, t)
  BY <1>2 DEF Agrees
<1>5. Requested(Empty(e))
  BY <1>1 DEF Requested
<1> QED BY <1>2, <1>3, <1>4, <1>5 DEF Good

\* At the start the phone has seen nothing.
LEMMA AgreeInit == Init => AgreeInv
<1> SUFFICES ASSUME Init PROVE AgreeInv
  OBVIOUS
<1>1. /\ hub = Empty(1) /\ link = Unlinked /\ phone.cursor.epoch = 0 /\ hub.up
  <2>1. hub = Empty(1) /\ link = Unlinked /\ phone.cursor.epoch = 0
    BY DEF Init, None
  <2> QED BY <2>1 DEF Empty
<1>2. ~ Served /\ ~ Unanswered /\ Seen = phone.cursor /\ View.seen = phone.cursor /\ ~ View.served
  BY <1>1 DEF Served, Unanswered, Seen, View, Unlinked
<1>3. 1 \in Nat /\ View.seen.epoch # 1
  BY <1>1, <1>2
<1>4. Good(hub, Due(hub), inbox, lost, fresher, WireOf(link), View, Threads) /\ Requested(hub)
  <2> HIDE DEF View, Due
  <2> QED BY <1>1, <1>2, <1>3, EmptyGood
<1> QED BY <1>1, <1>2, <1>4 DEF AgreeInv, UpAgrees

\* A crash leaves a file that is not clean.
LEMMA CrashAgrees == EventsInv /\ AgreeInv /\ Crash => AgreeInv'
<1> SUFFICES ASSUME EventsInv, Crash PROVE AgreeInv'
  OBVIOUS
<1>1. hub.up /\ hub' = [Empty(hub.epoch) EXCEPT !.up = FALSE] /\ saved' = saved /\ ~ saved.clean
  BY DEF Crash, EventsInv, FileInv
<1>2. ~ hub'.up
  <2>1. hub.epoch \in Nat
    BY <1>1, Running
  <2> QED BY <1>1, <2>1, DownSound
<1> QED BY <1>1, <1>2 DEF AgreeInv

\* A start takes the clean file for the hub, or begins an epoch no phone knows.
LEMMA StartAgrees == EventsInv /\ AgreeInv /\ Start => AgreeInv'
<1> SUFFICES ASSUME EventsInv, AgreeInv, Start PROVE AgreeInv'
  OBVIOUS
<1>1. /\ ~ hub.up /\ link = Unlinked /\ UNCHANGED <<inbox, link, phone, lost, fresher>>
      /\ saved.clean => hub' = Restored(saved)
      /\ ~ saved.clean => hub' = Empty(hub.epoch + 1)
  BY DEF Start, EventsInv, WireInv, Restored
<1>2. /\ hub.epoch \in Nat /\ phone.cursor \in Cursors /\ phone.cursor.epoch <= hub.epoch
  BY DEF EventsInv, HubInv, HubOK, HubSound, Hubs, VarsOK, Phones, WireInv
<1>3. /\ ~ Served' /\ ~ Unanswered' /\ Seen' = phone.cursor /\ View'.seen = phone.cursor /\ ~ View'.served
      /\ View' = View
  BY <1>1 DEF Served, Unanswered, Seen, View, Unlinked
<1>4. CASE saved.clean
  <2>1. Good(Restored(saved), {}, inbox, lost, fresher, {}, View, Threads) /\ hub' = Restored(saved)
    BY <1>1, <1>4 DEF AgreeInv
  <2>2. hub'.up /\ hub'.inFlight = {} /\ hub'.pending = <<>> /\ hub'.held = [t \in Threads |-> 0]
    BY <2>1, RestoredFields
  <2>3. Due(hub') = {} /\ Requested(hub')
    BY <2>2, ToSetEmpty DEF Due, Requested
  <2>4. WireOf(link') = {}
    <3>1. <<>> \o <<>> = <<>>
      OBVIOUS
    <3> QED BY <1>1, <3>1, ToSetEmpty DEF WireOf, Unlinked
  <2> QED BY <1>1, <1>3, <2>1, <2>2, <2>3, <2>4 DEF AgreeInv, UpAgrees
<1>5. CASE ~ saved.clean
  <2>1. hub.epoch + 1 \in Nat /\ View'.seen.epoch # hub.epoch + 1 /\ hub' = Empty(hub.epoch + 1)
    BY <1>1, <1>2, <1>3, <1>5 DEF Cursors
  <2>2. Good(hub', Due(hub'), inbox', lost', fresher', WireOf(link'), View', Threads) /\ Requested(hub')
    BY <1>3, <2>1, EmptyGood
  <2>3. hub'.up
    BY <2>1, EmptySound
  <2> QED BY <1>3, <2>2, <2>3 DEF AgreeInv, UpAgrees
<1> QED BY <1>4, <1>5

\* The file a hub writes stands for it, when every summary has been told or deferred.
LEMMA FileStands ==
  ASSUME NEW h \in Hubs, HubSound(h), NEW in, NEW l, NEW f, NEW W, NEW x,
         Good(h, {}, in, l, f, W, x, Threads),
         NEW k, k.epoch = h.epoch, k.seq = h.seq, k.journal = h.journal, k.journalFloor = h.journalFloor,
         NEW m, NEW p, \A t \in Threads \ m : t \notin l /\ h.held[t] = 0,
         NEW y, ~ y.served, y.seen.seq \in Nat, Covered(h, y.seen) => y.seen = x.seen /\ y.all = x.all, y.list = x.list
  PROVE  Good(Restored(k), {}, in, m, p, {}, y, Threads)
<1> DEFINE R == ToSet(h.ring)
           F == h.ringFloor
           G == h.journalFloor
           n == h.seq
           r == Restored(k)
<1>1. /\ RingSet(R, F, n) /\ F \in Nat /\ G \in Nat /\ n \in Nat /\ F <= n
      /\ \A t \in Threads : h.journal[t] \in JournalEntries
  BY RingIsSet
<1>2. {e \in R : e.seq > n} = {}
  <2> HIDE DEF R, n, F
  <2>1. \A e \in R : e.seq \in Nat /\ e.seq <= n
    BY <1>1, Numbers DEF RingSet
  <2> QED BY <1>1, <2>1
<1>3. /\ ToSet(r.ring) = {} /\ r.ringFloor = n /\ r.journalFloor = G /\ r.journal = h.journal /\ r.epoch = h.epoch
      /\ r.held = [t \in Threads |-> 0] /\ r.last = [t \in Threads |-> None]
  BY RestoredFields, ToSetEmpty
<1> HIDE DEF r
<1>4. ASSUME NEW t \in Threads
      PROVE  Paired(ToSet(r.ring), r.ringFloor, r.journalFloor, r.journal[t], t)
  <2> DEFINE j == h.journal[t]
  <2>1. Paired(R, F, G, j, t)
    BY DEF Good
  <2>2. j \in JournalEntries
    BY <1>1
  <2> HIDE DEF R, F, G, n, j
  <2>3. Paired({}, n, G, j, t)
    BY <1>1, <1>2, <2>1, <2>2, TrimPaired
  <2> QED BY <1>3, <2>3 DEF j
<1>5. ASSUME NEW t \in Threads, NEW v \in Values, Owes(r, {}, in, m, p, t, v), Covered(r, y.seen)
      PROVE  Off(ToSet(r.ring), r.ringFloor, r.journalFloor, r.journal[t], y.seen.seq,
                 t, v, y.all \/ y.list[t] = v)
  <2> DEFINE j == h.journal[t]
             c == y.seen.seq
             listed == y.all \/ y.list[t] = v
  <2>1. Covered(h, y.seen) /\ (c >= n \/ c >= G) /\ c \in Nat
    BY <1>1, <1>3, <1>5 DEF Covered
  <2>2. Owes(h, {}, in, l, f, t, v)
    BY <1>3, <1>5 DEF Owes
  <2>3. Agrees(h, {}, in, l, f, W, x, t)
    BY DEF Good
  <2>4. Off(R, F, G, j, c, t, v, listed)
    BY <2>1, <2>2, <2>3 DEF Agrees
  <2>5. Paired(R, F, G, j, t)
    BY DEF Good
  <2>6. j \in JournalEntries
    BY <1>1
  <2> HIDE DEF R, F, G, n, j, c, listed
  <2>7. Off({}, n, G, j, c, t, v, listed)
    BY <1>1, <1>2, <2>1, <2>4, <2>5, <2>6, TrimOff
  <2> QED BY <1>3, <2>7 DEF j, c, listed
<1>6. \A t \in Threads : Agrees(r, {}, in, m, p, {}, y, t)
  BY <1>5 DEF Agrees
<1> QED BY <1>4, <1>6 DEF Good, r

\* stop
LEMMA StopAgrees == EventsInv /\ AgreeInv /\ Stop => AgreeInv'
<1> SUFFICES ASSUME EventsInv, AgreeInv, Stop PROVE AgreeInv'
  OBVIOUS
<1>1. /\ hub.up /\ UpAgrees /\ link' = Unlinked /\ ~ link.ahead /\ UNCHANGED <<inbox, phone, fresher>>
  BY DEF Stop, AgreeInv
<1>2. PICK flying \in SetToSeqs(hub.inFlight \ ToSet(hub.pending)) :
        LET h == FoldLeft(Defer, hub, hub.pending \o flying)
        IN  /\ saved' = [clean |-> TRUE, epoch |-> h.epoch, seq |-> h.seq,
                         journal |-> h.journal, journalFloor |-> h.journalFloor]
            /\ hub' = [Empty(h.epoch) EXCEPT !.up = FALSE]
            /\ lost' = lost \cup h.slipped \cup {t \in Threads : h.held[t] > 0}
  BY Zenon DEF Stop
<1> DEFINE s == hub.pending \o flying
           h == FoldLeft(Defer, hub, s)
           T == Reach(hub.seq, hub.epoch, events)
           Done(n) == {s[i] : i \in 1 .. n}
           D(n) == {t \in Threads : inbox[t] = Unlisted \/ t \notin ToSet(s) \/ t \in Done(n)}
           P == [n \in Nat |-> {x \in T : Fit(x, {}, inbox, D(n))}]
<1>3. s \in Seq(Threads) /\ Due(hub) \subseteq ToSet(s)
  <2> DEFINE F == hub.inFlight \ ToSet(hub.pending)
  <2>1. IsFiniteSet(hub.inFlight) /\ hub.inFlight \in SUBSET Threads /\ hub.pending \in Seq(Threads)
    BY <1>1, Running DEF HubSound, Hubs
  <2>2. F \in SUBSET Threads /\ F \in SUBSET hub.inFlight
    BY <2>1
  <2> HIDE DEF F
  <2>3. IsFiniteSet(F)
    BY <2>1, <2>2, FS_Subset
  <2>4. flying \in Seq(F) /\ ToSet(flying) = F
    BY <1>2, <2>3, Enumerated DEF F
  <2>5. flying \in Seq(Threads) /\ ToSet(flying) = F
    BY <2>2, <2>4
  <2>6. ToSet(s) = ToSet(hub.pending) \cup F
    BY <2>1, <2>5, ToSetConcat
  <2> QED BY <2>1, <2>5, <2>6 DEF Due, F
<1>4. /\ events \in Nat /\ Fit(hub, Due(hub), inbox, Threads) /\ hub.seq \in Nat /\ hub \in Hubs
  BY <1>1, HubFits, LimitsAssumption DEF EventsInv, VarsOK
<1>5. /\ saved' = [clean |-> TRUE, epoch |-> h.epoch, seq |-> h.seq,
                   journal |-> h.journal, journalFloor |-> h.journalFloor]
      /\ hub' = [Empty(h.epoch) EXCEPT !.up = FALSE]
      /\ lost' = lost \cup h.slipped \cup {t \in Threads : h.held[t] > 0}
  BY <1>2, Zenon
<1> HIDE DEF s
<1>6. hub \in T
  BY <1>1, <1>4, HubReach
<1>7. \A x \in T, t \in Threads : Defer(x, t) \in T
  BY <1>4, DeferStays
<1>8. /\ Len(s) \in Nat /\ \A n \in 1 .. Len(s) : n \in Nat /\ n - 1 \in Nat /\ s[n] \in Threads
      /\ Done(0) = {} /\ Done(Len(s)) = ToSet(s)
      /\ \A n \in 1 .. Len(s) : Done(n) = Done(n - 1) \cup {s[n]}
  <2>1. Len(s) \in Nat /\ \A n \in 1 .. Len(s) : n \in Nat /\ n - 1 \in Nat /\ s[n] \in Threads
    BY <1>3
  <2>2. Done(0) = {}
    OBVIOUS
  <2>3. Done(Len(s)) = ToSet(s)
    BY <1>3 DEF ToSet
  <2>4. ASSUME NEW n \in 1 .. Len(s) PROVE Done(n) = Done(n - 1) \cup {s[n]}
    <3>1. \A i : i \in 1 .. n <=> i \in 1 .. (n - 1) \/ i = n
      BY <2>1
    <3> QED BY <3>1
  <2> QED BY <2>1, <2>2, <2>3, <2>4
<1>9. hub \in P[0]
  <2>1. \A t \in D(0), v \in Values : Owes(hub, {}, inbox, LostBy(hub), FresherBy(hub), t, v)
                                      => Owes(hub, Due(hub), inbox, LostBy(hub), FresherBy(hub), t, v)
    BY <1>3, <1>8 DEF Owes
  <2>2. D(0) \subseteq Threads /\ SameEvents(hub, hub) /\ Requested(hub)
    BY <1>4 DEF SameEvents, Fit
  <2>3. P[0] = {x \in T : Fit(x, {}, inbox, D(0))}
    OBVIOUS
  <2> HIDE DEF D, P
  <2>4. Fit(hub, {}, inbox, D(0))
    BY <1>4, <1>6, <2>1, <2>2, EditFits
  <2> QED BY <1>6, <2>3, <2>4
<1>10. ASSUME NEW n \in 1 .. Len(s), NEW x \in T, x \in P[n - 1] PROVE Defer(x, s[n]) \in P[n]
  <2>1. /\ n \in Nat /\ n - 1 \in Nat /\ s[n] \in Threads /\ Defer(x, s[n]) \in T
        /\ Done(n) = Done(n - 1) \cup {s[n]}
    BY <1>7, <1>8
  <2>2. /\ D(n - 1) \subseteq Threads /\ D(n) \subseteq D(n - 1) \cup {s[n]}
        /\ inbox[s[n]] = Unlisted => s[n] \in D(n - 1)
    BY <2>1
  <2> HIDE DEF D, Done, T
  <2>3. Fit(x, {}, inbox, D(n - 1))
    BY <1>10, <2>1
  <2>4. Fit(Defer(x, s[n]), {}, inbox, D(n))
    BY <1>4, <2>1, <2>2, <2>3, DeferFits
  <2> QED BY <2>1, <2>4
<1>11. h \in P[Len(s)]
  <2> HIDE DEF P, T
  <2> QED BY <1>3, <1>6, <1>7, <1>9, <1>10, FoldDeferBy
<1>12. Fit(h, {}, inbox, Threads)
  <2>1. D(Len(s)) = Threads
    BY <1>8
  <2> HIDE DEF D, T, h
  <2> QED BY <1>8, <1>11, <2>1
<1> HIDE DEF h, T, P, D, Done
<1>13. PICK b \in Nat : h \in Reach(hub.seq, hub.epoch, b)
  BY <1>12 DEF Fit
<1>14. h \in Hubs /\ HubSound(h) /\ h.epoch = hub.epoch /\ h.held \in [Threads -> Nat]
       /\ h.ringFloor \in Nat /\ h.journalFloor \in Nat /\ h.epoch \in Nat
  BY <1>13 DEF Reach, Hubs
<1>15. /\ ~ Served' /\ ~ Unanswered' /\ View'.seen = phone.cursor /\ ~ View'.served
       /\ View'.list = View.list /\ View'.all = phone.stale
  <2>1. link'.mode = "none" /\ link'.reply = <<>> /\ phone' = phone
    BY <1>1 DEF Unlinked
  <2>2. ~ Served' /\ ~ Unanswered'
    BY <2>1 DEF Served, Unanswered
  <2>3. Seen' = phone.cursor
    BY <2>1, <2>2 DEF Seen
  <2>4. View' = [served |-> Served', seen |-> Seen', all |-> phone'.stale \/ Unanswered', list |-> phone'.list]
    BY DEF View
  <2>5. View.list = phone.list
    BY DEF View
  <2>6. phone.stale \/ Unanswered' <=> phone.stale
    BY <2>2
  <2>7. phone.stale \in BOOLEAN
    BY <1>1, Running DEF VarsOK, Phones
  <2>8. (phone.stale \/ Unanswered') = phone.stale
    BY <2>6, <2>7
  <2>9. View' = [served |-> Served', seen |-> phone.cursor, all |-> phone.stale, list |-> phone.list]
    BY <2>1, <2>3, <2>4, <2>8
  <2> QED BY <2>2, <2>5, <2>9
<1>16. Covered(h, phone.cursor) => View'.seen = View.seen /\ View'.all = View.all
  <2>1. CASE Unanswered
    <3>1. ~ Covered(hub, phone.cursor)
      BY <1>1, <2>1 DEF UpAgrees
    <3>2. hub.ringFloor <= h.ringFloor /\ hub.journalFloor <= h.journalFloor
      BY <1>12 DEF Fit
    <3>3. hub.ringFloor \in Nat /\ hub.journalFloor \in Nat /\ phone.cursor.seq \in Nat
      BY <1>1, <1>4, Running DEF Hubs, Cursors
    <3> QED BY <1>14, <3>1, <3>2, <3>3 DEF Covered
  <2>2. CASE ~ Unanswered
    BY <1>15, <2>2 DEF View, Seen
  <2> QED BY <2>1, <2>2
<1>17. \A t \in Threads \ lost' : t \notin LostBy(h) /\ h.held[t] = 0
  BY <1>5, <1>14 DEF LostBy
<1>18. Good(h, {}, inbox, LostBy(h), FresherBy(h), WireBy(h), View, Threads)
  BY <1>12 DEF Fit
<1>19. saved'.epoch = h.epoch /\ saved'.seq = h.seq /\ saved'.journal = h.journal /\ saved'.journalFloor = h.journalFloor
  BY <1>5
<1>20. phone.cursor.seq \in Nat
  BY <1>1, Running DEF Cursors
<1>21. Good(Restored(saved'), {}, inbox, lost', fresher', {}, View', Threads)
  <2>1. View'.seen.seq \in Nat /\ (Covered(h, View'.seen) => View'.seen = View.seen /\ View'.all = View.all)
    BY <1>15, <1>16, <1>20
  <2> QED BY <1>14, <1>15, <1>17, <1>18, <1>19, <2>1, FileStands
<1>22. ~ hub'.up
  BY <1>5, <1>14, DownSound
<1> QED BY <1>1, <1>21, <1>22 DEF AgreeInv

--------------------------------------------------------------------------------
(* The phone.                                                                *)

\* The wire that serves a phone which has taken the reply is above its cursor.
LEMMA WireIsSet ==
  ASSUME EventsInv, hub.up
  PROVE  /\ RingSet(WireOf(link), 0, hub.seq) /\ link.pushes \o link.queued \in Seq(Entries)
         /\ phone.cursor.epoch = hub.epoch => RingSet(WireOf(link), phone.cursor.seq, hub.seq)
         /\ Unanswered => RingSet(WireOf(link), Seen.seq, hub.seq) /\ Seen.epoch = hub.epoch
         /\ Seen.seq \in Nat
<1> DEFINE w == link.pushes \o link.queued
           r == link.reply[1]
<1>1. /\ link \in Links /\ WireSound(link, phone.cursor, hub.epoch, hub.seq) /\ hub.seq \in Nat
      /\ phone.cursor \in Cursors
  BY Running
<1>2. w \in Seq(Entries)
  BY <1>1, Joining DEF Links
<1>3. /\ Rising(w) /\ Between(w, 0, hub.seq)
      /\ phone.cursor.epoch = hub.epoch => Between(w, phone.cursor.seq, hub.seq)
      /\ Unanswered => r.epoch = hub.epoch /\ Between(w, r.seq, hub.seq)
  BY <1>1 DEF WireSound, Unanswered
<1>4. phone.cursor.seq \in Nat /\ (Unanswered => r.seq \in Nat)
  <2>1. link.reply \in Seq(Replies) /\ (link.reply # <<>> => Len(link.reply) # 0)
    BY <1>1 DEF Links
  <2>2. link.reply # <<>> => r \in Replies
    BY <2>1
  <2> QED BY <1>1, <2>2 DEF Cursors, Replies, Unanswered
<1>5. /\ Unanswered => Seen.epoch = r.epoch /\ Seen.seq = r.seq
      /\ ~ Unanswered => Seen = phone.cursor
  BY DEF Seen
<1> HIDE DEF w, r
<1>6. \A low \in Nat : Between(w, low, hub.seq) => RingSet(ToSet(w), low, hub.seq)
  BY <1>1, <1>2, <1>3, RisingSet
<1>7. ToSet(w) = WireOf(link)
  BY DEF w, WireOf
<1> QED BY <1>2, <1>3, <1>4, <1>5, <1>6, <1>7 DEF w

\* The phone lists the threads anew: it lists what it is owed, and of what slipped
\* nothing older is to come.
LEMMA RefetchAgrees == EventsInv /\ AgreeInv /\ Refetch => AgreeInv'
<1> SUFFICES ASSUME EventsInv, AgreeInv, Refetch PROVE AgreeInv'
  OBVIOUS
<1>1. /\ hub.up /\ UpAgrees /\ Served /\ link.reply = <<>> /\ phone.stale /\ phone \in Phones
      /\ phone' = [phone EXCEPT !.list = inbox, !.stale = FALSE]
      /\ lost' = lost \cap Coming
      /\ fresher' = {t \in Threads : inbox[t] # hub.last[t]} \cup (fresher \cap Coming)
      /\ UNCHANGED <<inbox, hub, link>>
  <2>1. hub.up
    BY DEF EventsInv, WireInv, Refetch, Unlinked
  <2> QED BY <2>1, Running DEF AgreeInv, Refetch, Served
<1> DEFINE c == phone.cursor.seq
           R == ToSet(hub.ring)
           F == hub.ringFloor
           G == hub.journalFloor
           W == WireOf(link)
<1>2. ~ Unanswered /\ Seen = phone.cursor /\ phone.cursor.epoch = hub.epoch
  BY <1>1 DEF Unanswered, Seen, UpAgrees
<1>3. /\ ~ Unanswered' /\ Seen' = phone.cursor /\ Served' /\ WireOf(link') = W
  BY <1>1, <1>2 DEF Unanswered, Seen, Served, Phones
<1>4. /\ phone'.stale = FALSE /\ phone'.list = inbox
  BY <1>1 DEF Phones
<1>5. /\ View.served /\ View.seen = phone.cursor
      /\ View'.served /\ View'.seen = phone.cursor /\ View'.list = inbox
  BY <1>1, <1>2, <1>3, <1>4 DEF View
<1>6. \A e \in W : c < e.seq /\ e.seq \in Nat
  BY <1>1, <1>2, WireIsSet, Numbers DEF RingSet
<1>7. c \in Nat /\ R \subseteq Entries /\ \A t \in Threads : hub.journal[t].seq \in Nat
  BY <1>1, Running, RingIsSet DEF Cursors, RingSet
<1>8. \A t \in Threads \ Coming :
        /\ \A e \in W : e.thread # t
        /\ Silent(R, c, t)
        /\ ~ (hub.journal[t].seq > c /\ hub.journal[t].kind = "removed")
  <2>1. ToSet(link.pushes \o link.queued \o hub.ring) = W \cup R
    <3> DEFINE w == link.pushes \o link.queued
    <3>1. w \in Seq(Entries) /\ hub.ring \in Seq(Entries)
      BY <1>1, WireIsSet, Running DEF Hubs
    <3> HIDE DEF w
    <3>2. ToSet(w \o hub.ring) = ToSet(w) \cup ToSet(hub.ring)
      BY <3>1, ToSetConcat
    <3> QED BY <3>2 DEF WireOf, W, R, w
  <2>2. ASSUME NEW t \in Threads \ Coming, NEW e \in W \cup R, e.thread = t PROVE ~ (e.seq > c)
    BY <2>1, <2>2 DEF Coming
  <2>3. \A e \in R : e.seq \in Nat
    BY <1>7, Numbers
  <2> QED BY <1>6, <1>7, <2>2, <2>3 DEF Coming, Silent
<1> HIDE DEF c, R, F, G, W
<1>9. ASSUME NEW t \in Threads PROVE Agrees(hub, Due(hub), inbox, lost', fresher', W, View', t)
  <2> SUFFICES ASSUME NEW v \in Values, Owes(hub, Due(hub), inbox, lost', fresher', t, v)
               PROVE  LET listed == View'.all \/ View'.list[t] = v
                      IN  /\ Covered(hub, phone.cursor) => Off(R, F, G, hub.journal[t], c, t, v, listed)
                          /\ On(R, F, G, hub.journal[t], W, t, v, listed)
    BY <1>5 DEF Agrees, c, R, F, G
  <2> DEFINE listed == View'.all \/ View'.list[t] = v
  <2>1. v = inbox[t]
    BY <1>1 DEF Owes
  <2>2. listed
    BY <1>5, <2>1
  <2> HIDE DEF listed
  <2>3. CASE Owes(hub, Due(hub), inbox, lost, fresher, t, v)
    <3>1. Agrees(hub, Due(hub), inbox, lost, fresher, W, View, t)
      BY <1>1 DEF UpAgrees, Good, W
    <3> DEFINE before == View.all \/ View.list[t] = v
    <3>2. /\ Covered(hub, phone.cursor) => Off(R, F, G, hub.journal[t], c, t, v, before)
          /\ On(R, F, G, hub.journal[t], W, t, v, before)
      BY <1>5, <2>3, <3>1 DEF Agrees, c, R, F, G
    <3> HIDE DEF before
    <3> QED BY <2>2, <3>2, OffListed, OnListed DEF listed
  <2>4. CASE ~ Owes(hub, Due(hub), inbox, lost, fresher, t, v)
    <3>1. t \notin Coming
      BY <1>1, <2>4 DEF Owes
    <3>2. On(R, F, G, hub.journal[t], W, t, v, listed)
      BY <1>8, <2>2, <3>1 DEF On, LastFor
    <3>3. Off(R, F, G, hub.journal[t], c, t, v, listed)
      BY <1>8, <2>2, <3>1 DEF Off, Drops
    <3> QED BY <3>2, <3>3 DEF listed
  <2> QED BY <2>3, <2>4
<1>10. Good(hub, Due(hub), inbox, lost', fresher', W, View', Threads)
  BY <1>1, <1>5, <1>9 DEF UpAgrees, Good, W
<1>11. UpAgrees'
  <2>1. Due(hub)' = Due(hub) /\ Requested(hub)' /\ Seen'.epoch = hub'.epoch
    BY <1>1, <1>2, <1>3 DEF Due, Requested, UpAgrees
  <2> QED BY <1>1, <1>3, <1>10, <2>1 DEF UpAgrees
<1> QED BY <1>1, <1>11 DEF AgreeInv

\* What is left on the wire W when its first event is read: for a thread v that the
\* wire ends with, the phone has it or the rest ends with it.
LEMMA HeadOn ==
  ASSUME NEW W, NEW e \in W, \A d \in W : d.seq \in Nat, \A d \in W : d = e \/ e.seq < d.seq,
         NEW V, V = W \ {e}, NEW F, NEW G, NEW R, NEW j, NEW t, NEW v, NEW a, NEW b,
         On(R, F, G, j, W, t, v, a), e.thread # t /\ a => b, e.thread = t /\ v = e.value => b
  PROVE  On(R, F, G, j, V, t, v, b)
<1>1. \A d \in V : LastFor(d, V, t) => d \in W /\ LastFor(d, W, t)
  BY DEF LastFor
<1>2. (\A d \in V : d.thread # t) => b
  <2>1. CASE e.thread = t
    <3>1. (\A d \in V : d.thread # t) => LastFor(e, W, t)
      BY <2>1 DEF LastFor
    <3>2. LastFor(e, W, t) => e.value = v
      BY DEF On
    <3> QED BY <2>1, <3>1, <3>2
  <2>2. CASE e.thread # t
    BY <2>2 DEF On
  <2> QED BY <2>1, <2>2
<1> QED BY <1>1, <1>2 DEF On

\* The rest of the wire still backs ring and journal.
LEMMA HeadBacked ==
  ASSUME NEW R \in SUBSET Entries, NEW j, NEW W, NEW e \in W, \A d \in W : d = e \/ e.seq < d.seq,
         \A d \in W : d.seq \in Nat, \A t \in Threads : j[t].seq \in Nat,
         NEW V, V = W \ {e}, Backed(R, j, W)
  PROVE  Backed(R, j, V)
<1>1. ASSUME NEW t, NEW m \in Nat, Reached(W, t, m) PROVE Reached(V, t, m)
  <2>1. CASE \E d \in V : d.thread = t /\ m <= d.seq
    BY <2>1 DEF Reached
  <2>2. CASE e.thread = t /\ m <= e.seq
    BY <2>2 DEF Reached
  <2>3. CASE \A d \in W : m <= d.seq
    BY <2>3 DEF Reached
  <2> QED BY <1>1, <2>1, <2>2, <2>3 DEF Reached
<1> QED BY <1>1, Numbers DEF Backed

\* The phone reads an event: what it knows then ends as the wire does.
LEMMA PushAgrees == EventsInv /\ AgreeInv /\ TakePush => AgreeInv'
<1> SUFFICES ASSUME EventsInv, AgreeInv, TakePush PROVE AgreeInv'
  OBVIOUS
<1> DEFINE e == Head(link.pushes)
           W == WireOf(link)
           V == W \ {e}
           R == ToSet(hub.ring)
           F == hub.ringFloor
           G == hub.journalFloor
           J == hub.journal
<1>1. /\ hub.up /\ UpAgrees /\ link.pushes # <<>> /\ link \in Links /\ phone \in Phones
      /\ link' = [link EXCEPT !.pushes = Tail(@), !.ahead = @ \/ link.reply # <<>>]
      /\ UNCHANGED <<inbox, hub, lost, fresher>>
  <2>1. hub.up
    BY DEF EventsInv, WireInv, TakePush, Unlinked
  <2> QED BY <2>1, Running DEF AgreeInv, TakePush
<1>2. /\ link'.mode = link.mode /\ link'.pushes = Tail(link.pushes) /\ link'.queued = link.queued
      /\ link'.reply = link.reply /\ (link.reply # <<>> => link'.ahead)
  BY <1>1 DEF Links
<1>3. Served /\ View.served /\ Backed(R, J, W) /\ Seen.epoch = hub.epoch
  <2>1. Served
    BY <1>1, Running DEF WireSound, Links, Served
  <2> QED BY <1>1, <2>1 DEF View, UpAgrees, Good
<1>4. WireOf(link') = V /\ e \in W /\ \A d \in W : d = e \/ e.seq < d.seq
  <2> DEFINE p == link.pushes
             y == Tail(p)
             q == link.queued
  <2>1. /\ p \in Seq(Entries) /\ q \in Seq(Entries) /\ p # <<>>
        /\ Rising(p \o q) /\ p \o q \in Seq(Entries)
    BY <1>1, Running, WireIsSet DEF Links, WireSound
  <2> DEFINE w == p \o q
             z == y \o q
  <2>2. w = p \o q /\ z = Tail(p) \o q /\ e = Head(p)
    OBVIOUS
  <2> HIDE DEF p, q, y, e, w, z
  <2>3. /\ w \in Seq(Entries) /\ z \in Seq(Entries) /\ Rising(w)
        /\ Len(w) = Len(z) + 1 /\ Len(z) \in Nat /\ w[1] = e
        /\ \A i \in 1 .. Len(z) : z[i] = w[i + 1]
    BY <2>1, <2>2, TailJoined
  <2>4. ToSet(w) = {w[i] : i \in 1 .. Len(w)} /\ ToSet(z) = {z[i] : i \in 1 .. Len(z)}
    BY <2>3 DEF ToSet
  <2>5. 1 \in 1 .. Len(w)
    BY <2>3
  <2>6. \A i \in 1 .. Len(w) : i = 1 \/ (e.seq < w[i].seq /\ i - 1 \in 1 .. Len(z) /\ w[i] = z[i - 1])
    <3> SUFFICES ASSUME NEW i \in 1 .. Len(w), i # 1
                 PROVE  e.seq < w[i].seq /\ i - 1 \in 1 .. Len(z) /\ w[i] = z[i - 1]
      OBVIOUS
    <3>1. i - 1 \in 1 .. Len(z) /\ (i - 1) + 1 = i /\ 1 < i
      BY <2>3
    <3> QED BY <2>3, <2>5, <3>1 DEF Rising
  <2>7. e.seq \in Nat /\ \A i \in 1 .. Len(w) : w[i].seq \in Nat
    BY <2>3, <2>5, EntryNumbers
  <2>8. e \in ToSet(w) /\ \A d \in ToSet(w) : d = e \/ (e.seq < d.seq /\ d \in ToSet(z))
    <3> SUFFICES ASSUME NEW i \in 1 .. Len(w), i # 1 PROVE e.seq < w[i].seq /\ w[i] \in ToSet(z)
      BY <2>3, <2>4, <2>5
    <3> QED BY <2>4, <2>6
  <2>9. ToSet(z) \subseteq ToSet(w) /\ \A d \in ToSet(z) : e.seq < d.seq
    <3>1. ASSUME NEW i \in 1 .. Len(z) PROVE z[i] \in ToSet(w) /\ e.seq < z[i].seq
      <4>1. i + 1 \in 1 .. Len(w) /\ i + 1 # 1
        BY <2>3
      <4>2. z[i] = w[i + 1]
        BY <2>3
      <4> QED BY <2>4, <2>6, <4>1, <4>2
    <3> QED BY <2>4, <3>1
  <2>10. ToSet(z) = ToSet(w) \ {e}
    BY <2>7, <2>8, <2>9
  <2>11. W = ToSet(w) /\ WireOf(link') = ToSet(z)
    BY <1>2 DEF WireOf, w, z, p, q, y
  <2> QED BY <2>8, <2>10, <2>11
<1>5. /\ W \subseteq Entries /\ \A d \in W : d.seq \in Nat /\ d.seq <= hub.seq
      /\ e.thread \in Threads /\ e.value \in Values /\ e.seq \in Nat
  <2>1. W \subseteq Entries /\ \A d \in W : d.seq <= hub.seq
    BY <1>1, WireIsSet DEF RingSet
  <2> HIDE DEF W, e
  <2> QED BY <1>4, <2>1, Numbers
<1>6. /\ R \subseteq Entries /\ F \in Nat /\ G \in Nat /\ hub.seq \in Nat /\ \A d \in R : F < d.seq /\ d.seq \in Nat
      /\ \A t \in Threads : J[t] \in JournalEntries /\ J[t].seq \in Nat
  BY <1>1, Running, RingIsSet, Numbers DEF RingSet
<1>7. Served' /\ Unanswered' = Unanswered /\ View'.served
  BY <1>2, <1>3 DEF Served, Unanswered, View
<1>8. Backed(R, J, V)
  BY <1>3, <1>4, <1>5, <1>6, HeadBacked
<1>9. \A t \in Threads : Paired(R, F, G, J[t], t) /\ Agrees(hub, Due(hub), inbox, lost, fresher, W, View, t)
  BY <1>1 DEF UpAgrees, Good
<1>10. phone' = IF phone.cursor.epoch \notin {None, hub.epoch}
                    THEN [phone EXCEPT !.cursor = [epoch |-> hub.epoch, seq |-> e.seq], !.stale = TRUE]
                    ELSE IF phone.cursor.epoch = hub.epoch /\ e.seq <= phone.cursor.seq
                      THEN phone
                      ELSE [phone EXCEPT !.cursor = [epoch |-> hub.epoch, seq |-> e.seq],
                                         !.list[e.thread] = e.value]
  BY DEF TakePush
<1> HIDE DEF e, W, V, R, F, G, J
<1>11. CASE Unanswered
  <2>1. Seen' = Seen /\ View'.seen = View.seen /\ View.seen = Seen
    BY <1>2, <1>7, <1>11 DEF Seen, View, Unanswered
  <2>2. View'.all /\ View.all
    BY <1>7, <1>11 DEF View
  <2>3. ASSUME NEW t \in Threads PROVE Agrees(hub, Due(hub), inbox, lost, fresher, V, View', t)
    <3> SUFFICES ASSUME NEW v \in Values, Owes(hub, Due(hub), inbox, lost, fresher, t, v)
                 PROVE  LET listed == View'.all \/ View'.list[t] = v
                        IN  /\ Covered(hub, Seen) => Off(R, F, G, J[t], Seen.seq, t, v, listed)
                            /\ On(R, F, G, J[t], V, t, v, listed)
      BY <1>7, <2>1 DEF Agrees, R, F, G, J
    <3> DEFINE listed == View'.all \/ View'.list[t] = v
               before == View.all \/ View.list[t] = v
    <3>1. /\ Covered(hub, Seen) => Off(R, F, G, J[t], Seen.seq, t, v, before)
          /\ On(R, F, G, J[t], W, t, v, before)
      BY <1>3, <1>9, <2>1 DEF Agrees, R, F, G, J
    <3>2. listed /\ before
      BY <2>2
    <3> HIDE DEF listed, before
    <3>3. On(R, F, G, J[t], V, t, v, listed)
      BY <1>4, <1>5, <3>1, <3>2, HeadOn DEF V
    <3> QED BY <3>1, <3>2, <3>3, OffListed DEF listed
  <2>4. Seen'.epoch = hub.epoch
    BY <1>3, <2>1
  <2>5. Good(hub, Due(hub), inbox, lost, fresher, V, View', Threads)
    BY <1>8, <1>9, <2>3 DEF Good, R, F, G, J
  <2>6. link'.ahead
    BY <1>2, <1>11 DEF Unanswered
  <2>7. Due(hub)' = Due(hub) /\ Requested(hub)'
    BY <1>1 DEF Due, Requested, UpAgrees
  <2>8. UpAgrees'
    BY <1>1, <1>4, <2>4, <2>5, <2>6, <2>7 DEF UpAgrees
  <2> QED BY <1>1, <2>8 DEF AgreeInv
<1>12. CASE ~ Unanswered
  <2>1. Seen = phone.cursor /\ Seen' = phone'.cursor
    BY <1>7, <1>12 DEF Seen
  <2>2. RingSet(W, phone.cursor.seq, hub.seq) /\ phone.cursor.epoch = hub.epoch
    BY <1>1, <1>3, <2>1, WireIsSet DEF W
  <2>3. phone.cursor.seq < e.seq /\ phone.cursor.seq \in Nat
    BY <1>1, <1>4, <2>1, <2>2, WireIsSet DEF RingSet
  <2>4. phone' = [phone EXCEPT !.cursor = [epoch |-> hub.epoch, seq |-> e.seq], !.list[e.thread] = e.value]
    BY <1>5, <1>10, <2>2, <2>3
  <2>5. /\ phone'.cursor = [epoch |-> hub.epoch, seq |-> e.seq] /\ phone'.stale = phone.stale
        /\ \A t \in Threads : phone'.list[t] = IF t = e.thread THEN e.value ELSE phone.list[t]
    BY <1>1, <1>5, <2>4 DEF Phones
  <2>6. /\ View'.seen = phone'.cursor /\ View.all = phone.stale /\ View'.all = phone.stale
        /\ View'.list = phone'.list /\ View.list = phone.list
    <3>1. (phone.stale \/ Unanswered) = phone.stale /\ (phone'.stale \/ Unanswered') = phone.stale
      BY <1>1, <1>7, <1>12, <2>5 DEF Phones
    <3> QED BY <2>1, <3>1 DEF View
  <2>7. ASSUME NEW t \in Threads PROVE Agrees(hub, Due(hub), inbox, lost, fresher, V, View', t)
    <3> SUFFICES ASSUME NEW v \in Values, Owes(hub, Due(hub), inbox, lost, fresher, t, v)
                 PROVE  LET listed == View'.all \/ View'.list[t] = v
                        IN  /\ Covered(hub, phone'.cursor) => Off(R, F, G, J[t], e.seq, t, v, listed)
                            /\ On(R, F, G, J[t], V, t, v, listed)
      BY <1>7, <2>5, <2>6 DEF Agrees, R, F, G, J
    <3> DEFINE listed == View'.all \/ View'.list[t] = v
               before == View.all \/ View.list[t] = v
    <3>1. On(R, F, G, J[t], W, t, v, before)
      BY <1>3, <1>9 DEF Agrees, R, F, G, J
    <3>2. (e.thread # t /\ before => listed) /\ (e.thread = t /\ v = e.value => listed)
      BY <2>5, <2>6
    <3> HIDE DEF listed, before
    <3>3. On(R, F, G, J[t], V, t, v, listed)
      BY <1>4, <1>5, <3>1, <3>2, HeadOn DEF V
    <3>4. ASSUME Covered(hub, phone'.cursor) PROVE Off(R, F, G, J[t], e.seq, t, v, listed)
      <4>1. e.seq >= F \/ e.seq >= G
        BY <2>5, <3>4 DEF Covered, F, G
      <4>2. ASSUME NEW m \in Nat, e.seq < m, NEW u, Reached(W, u, m)
            PROVE  \E d \in V : d.thread = u /\ m <= d.seq
        BY <1>4, <1>5, <4>2 DEF Reached, V
      <4>3. \A x \in R : x.thread = t /\ e.seq < x.seq => \E d \in V : d.thread = t /\ x.seq <= d.seq
        BY <1>3, <1>6, <4>2 DEF Backed
      <4>4. J[t].kind = "removed" /\ e.seq < J[t].seq => \E d \in V : d.thread = t
        BY <1>3, <1>6, <4>2 DEF Backed
      <4>5. V \subseteq Entries /\ \A d \in V : e.seq < d.seq /\ d.seq <= hub.seq
        BY <1>4, <1>5 DEF V
      <4>6. J[t] \in JournalEntries /\ (J[t].kind = "none" => J[t] = NoEntry)
        BY <1>6, <1>9 DEF Paired
      <4> QED BY <1>5, <1>6, <3>3, <4>1, <4>3, <4>4, <4>5, <4>6, OffFromOn
    <3> QED BY <3>3, <3>4 DEF listed
  <2>8. Seen'.epoch = hub.epoch
    BY <2>1, <2>5
  <2>9. Good(hub, Due(hub), inbox, lost, fresher, V, View', Threads)
    BY <1>8, <1>9, <2>7 DEF Good, R, F, G, J
  <2>10. ~ Unanswered'
    BY <1>7, <1>12
  <2>11. Due(hub)' = Due(hub) /\ Requested(hub)'
    BY <1>1 DEF Due, Requested, UpAgrees
  <2>12. UpAgrees'
    BY <1>1, <1>4, <2>8, <2>9, <2>10, <2>11 DEF UpAgrees
  <2> QED BY <1>1, <2>12 DEF AgreeInv
<1> QED BY <1>11, <1>12

--------------------------------------------------------------------------------
(* The replay.                                                               *)

\* What a resume after number k has of thread t before it is compacted, when f was
\* fetched of it
Item(R, F, j, k, t, f, e) ==
  \/ e \in R /\ e.thread = t /\ e.seq > k
  \/ j.seq > k /\ Fetches(j, F) /\ f # Unlisted /\ e = [seq |-> j.seq, thread |-> t, value |-> f]
  \/ j.seq > k /\ Drops(j, F) /\ e = [seq |-> j.seq, thread |-> t, value |-> Unlisted]

\* The set W is what is left of it: of summaries only the last.
Replayed(W, R, F, j, k, t, f) ==
  /\ \A e \in W : e.thread = t => Item(R, F, j, k, t, f, e)
  /\ \A e : Item(R, F, j, k, t, f, e) =>
       (e \in W <=> \/ e.value = Unlisted
                    \/ \A d : Item(R, F, j, k, t, f, d) /\ d.value # Unlisted => d.seq <= e.seq)

\* The replay ends with what is owed, when what was fetched is.
LEMMA ReplayOn ==
  ASSUME NEW F \in Nat, NEW G \in Nat, NEW n, NEW R, RingSet(R, F, n), NEW k \in Nat,
         NEW t, NEW j \in JournalEntries, Paired(R, F, G, j, t),
         j.kind = "deferred" => \A e \in R : e.seq # j.seq,
         NEW f, NEW W, W \subseteq Entries, \A d, e \in W : d.seq = e.seq => d = e,
         Replayed(W, R, F, j, k, t, f),
         NEW v, NEW listed, Off(R, F, G, j, k, t, v, listed), j.seq > k /\ Fetches(j, F) => v = f
  PROVE  On(R, F, G, j, W, t, v, listed)
<1>1. /\ \A e \in R : e.seq \in Nat /\ F < e.seq
      /\ \A d, e \in R : d.seq = e.seq => d = e
      /\ j.seq \in Nat /\ j.kind \in {"none", "summary", "deferred", "removed"}
      /\ R \subseteq Entries
  BY Numbers DEF RingSet, JournalEntries, Seqs
<1>2. /\ \A e \in R : e.thread = t => e.seq <= j.seq \/ (j = NoEntry /\ e.seq <= G)
      /\ j.kind = "none" => j = NoEntry
  BY DEF Paired
<1>3. CASE j.seq > k /\ Fetches(j, F) /\ f # Unlisted
  <2> DEFINE i == [seq |-> j.seq, thread |-> t, value |-> f]
  <2>1. Item(R, F, j, k, t, f, i) /\ i.seq = j.seq /\ i.thread = t /\ i.value = f
    BY <1>3 DEF Item
  <2>2. j # NoEntry /\ ~ Drops(j, F)
    BY <1>3 DEF Fetches, Drops, NoEntry
  <2>3. \A d : Item(R, F, j, k, t, f, d) => d.seq <= j.seq
    BY <1>1, <1>2, <2>2 DEF Item
  <2>4. i \in W
    BY <2>1, <2>3 DEF Replayed
  <2> HIDE DEF i
  <2>5. ASSUME NEW e \in W, LastFor(e, W, t) PROVE e = i
    <3>1. i.seq <= e.seq
      BY <2>1, <2>4, <2>5 DEF LastFor
    <3>2. e.seq <= j.seq
      BY <2>3, <2>5 DEF LastFor, Replayed
    <3>3. e.seq \in Nat
      BY Numbers
    <3>4. e.seq = i.seq
      BY <1>1, <2>1, <3>1, <3>2, <3>3
    <3> QED BY <2>4, <3>4
  <2>6. j.seq > F => j.kind = "deferred"
    BY <1>1, <1>3 DEF Fetches
  <2>7. j.kind # "removed"
    BY <1>3 DEF Fetches
  <2> QED BY <1>3, <2>1, <2>4, <2>5, <2>6, <2>7 DEF On
<1>4. CASE j.seq > k /\ Drops(j, F)
  <2> DEFINE i == [seq |-> j.seq, thread |-> t, value |-> Unlisted]
  <2>1. Item(R, F, j, k, t, f, i) /\ i.seq = j.seq /\ i.thread = t /\ i.value = Unlisted
    BY <1>4 DEF Item
  <2>2. j # NoEntry /\ ~ Fetches(j, F) /\ v = Unlisted /\ j.kind = "removed" /\ j.seq <= F
    BY <1>4 DEF Fetches, Drops, NoEntry, Off
  <2>3. \A d : Item(R, F, j, k, t, f, d) => d.seq <= j.seq
    BY <1>1, <1>2, <2>2 DEF Item
  <2>4. i \in W
    BY <2>1 DEF Replayed
  <2> HIDE DEF i
  <2>5. ASSUME NEW e \in W, LastFor(e, W, t) PROVE e = i
    <3>1. i.seq <= e.seq
      BY <2>1, <2>4, <2>5 DEF LastFor
    <3>2. e.seq <= j.seq
      BY <2>3, <2>5 DEF LastFor, Replayed
    <3>3. e.seq \in Nat
      BY Numbers
    <3>4. e.seq = i.seq
      BY <1>1, <2>1, <3>1, <3>2, <3>3
    <3> QED BY <2>4, <3>4
  <2>6. ~ (j.seq > F)
    BY <1>1, <2>2
  <2> QED BY <2>1, <2>2, <2>4, <2>5, <2>6 DEF On
<1>5. CASE ~ (j.seq > k /\ Fetches(j, F) /\ f # Unlisted) /\ ~ (j.seq > k /\ Drops(j, F))
  <2>1. \A e : Item(R, F, j, k, t, f, e) <=> e \in R /\ e.thread = t /\ e.seq > k
    BY <1>5 DEF Item
  <2>2. CASE Silent(R, k, t) /\ listed
    <3>1. \A e \in W : e.thread # t
      <4>1. \A e \in W : e.thread = t => e \in R /\ e.seq > k
        BY <2>1 DEF Replayed
      <4> QED BY <1>1, <2>2, <4>1 DEF Silent
    <3> QED BY <2>2, <3>1 DEF On, LastFor
  <2>3. CASE RingTells(R, k, t, v)
    <3>1. PICK r \in R : LastFor(r, R, t) /\ k < r.seq /\ r.value = v
      BY <2>3 DEF RingTells
    <3>2. Item(R, F, j, k, t, f, r)
      BY <1>1, <2>1, <3>1 DEF LastFor
    <3>3. \A d : Item(R, F, j, k, t, f, d) => d.seq <= r.seq
      BY <2>1, <3>1 DEF LastFor
    <3>4. r \in W
      BY <3>2, <3>3 DEF Replayed
    <3>5. ASSUME NEW e \in W, LastFor(e, W, t) PROVE e = r
      <4>1. r.seq <= e.seq /\ e.seq <= r.seq /\ e.seq \in Nat /\ r.seq \in Nat
        BY <3>1, <3>3, <3>4, <3>5, Numbers DEF LastFor, Replayed
      <4>2. r.seq = e.seq
        BY <4>1
      <4> QED BY <3>4, <4>2
    <3>6. \/ j = NoEntry /\ r.seq <= G
          \/ j.seq = r.seq /\ (v = Unlisted <=> j.kind = "removed")
          \/ j.seq > r.seq /\ Fetches(j, F) /\ v = Unlisted /\ r.seq <= G
      <4>1. CASE j = NoEntry /\ r.seq <= G
        BY <4>1
      <4>2. CASE r.seq <= j.seq
        <5>1. j.seq > k /\ j.kind # "none"
          BY <1>1, <1>2, <3>1, <4>2 DEF NoEntry
        <5>2. CASE Fetches(j, F)
          <6>1. v = Unlisted
            BY <1>5, <5>1, <5>2
          <6>2. ~ Silent(R, k, t)
            BY <1>1, <3>1 DEF Silent, LastFor
          <6>3. Silent(R, G, t)
            BY <5>1, <5>2, <6>1, <6>2 DEF Off
          <6>4. r.seq <= G
            BY <3>1, <6>3 DEF Silent, LastFor
          <6>5. r.seq # j.seq
            BY <1>1, <3>1, <5>2 DEF Fetches
          <6> QED BY <1>1, <3>1, <4>2, <5>2, <6>1, <6>4, <6>5
        <5>3. CASE ~ Fetches(j, F)
          <6>1. j.kind \in {"summary", "removed"} /\ j.seq > F
            BY <1>1, <1>5, <5>1, <5>3 DEF Fetches, Drops
          <6>2. PICK d \in R : d.thread = t /\ d.seq = j.seq /\ (d.value = Unlisted <=> j.kind = "removed")
            BY <6>1 DEF Paired
          <6>3. d.seq = r.seq
            BY <1>1, <3>1, <4>2, <6>2 DEF LastFor
          <6> QED BY <1>1, <3>1, <6>2, <6>3
        <5> QED BY <5>2, <5>3
      <4> QED BY <1>2, <3>1, <4>1, <4>2 DEF LastFor
    <3>7. r.thread = t
      BY <3>1 DEF LastFor
    <3> QED BY <3>1, <3>4, <3>5, <3>6, <3>7 DEF On
  <2> QED BY <1>5, <2>2, <2>3 DEF Off
<1> QED BY <1>3, <1>4, <1>5

\* What the ring and the journal tell is in the replay, or the replay is past it.
LEMMA ReplayReaches ==
  ASSUME NEW F \in Nat, NEW G \in Nat, NEW n \in Nat, NEW R, RingSet(R, F, n), NEW k \in Nat,
         NEW t \in Threads, NEW j \in JournalEntries, j.seq <= n, Paired(R, F, G, j, t), NEW f \in Values,
         NEW W, \A e \in W : e.seq \in Nat /\ k < e.seq, Replayed(W, R, F, j, k, t, f)
  PROVE  /\ \A e \in R : e.thread = t => Reached(W, t, e.seq)
         /\ j.kind = "removed" => Reached(W, t, j.seq)
<1>1. /\ \A e \in R : e.seq \in Nat /\ F < e.seq /\ e.seq <= n
      /\ R \subseteq Entries /\ j.seq \in Nat
  BY Numbers DEF RingSet, JournalEntries, Seqs
<1> DEFINE I == {e \in Entries : Item(R, F, j, k, t, f, e)}
           S == {e \in I : e.value # Unlisted}
<1>2. \A e : Item(R, F, j, k, t, f, e) => e \in Entries /\ e.thread = t /\ e.seq \in Nat /\ e.seq <= n
  <2>1. ASSUME NEW v \in Values PROVE [seq |-> j.seq, thread |-> t, value |-> v] \in Entries
    BY <1>1 DEF Entries, Seqs
  <2>2. Unlisted \in Values
    BY DEF Values
  <2> QED BY <1>1, <2>1, <2>2 DEF Item
<1>3. ASSUME NEW e, Item(R, F, j, k, t, f, e) PROVE Reached(W, t, e.seq)
  <2>1. CASE e.value = Unlisted
    BY <1>2, <1>3, <2>1 DEF Replayed, Reached
  <2>2. CASE e.value # Unlisted
    <3>1. e \in S /\ S \subseteq Entries /\ \A d \in S : d.seq <= n /\ d.thread = t
      BY <1>2, <1>3, <2>2
    <3> HIDE DEF S
    <3>2. PICK d \in S : LastFor(d, S, t)
      BY <3>1, LastThere
    <3>3. /\ Item(R, F, j, k, t, f, d)
          /\ \A i : Item(R, F, j, k, t, f, i) /\ i.value # Unlisted => i.seq <= d.seq
      BY <1>2, <3>1, <3>2 DEF LastFor, S
    <3>4. d \in W /\ d.thread = t /\ e.seq <= d.seq
      BY <1>2, <1>3, <2>2, <3>3 DEF Replayed
    <3> QED BY <3>4 DEF Reached
  <2> QED BY <2>1, <2>2
<1>4. ASSUME NEW m \in Nat, ~ (m > k) PROVE Reached(W, t, m)
  BY <1>4 DEF Reached
<1>5. ASSUME NEW e \in R, e.thread = t PROVE Reached(W, t, e.seq)
  <2>1. e.seq > k => Item(R, F, j, k, t, f, e)
    BY <1>5 DEF Item
  <2> QED BY <1>1, <1>3, <1>4, <2>1
<1>6. ASSUME j.kind = "removed" PROVE Reached(W, t, j.seq)
  <2>1. CASE ~ (j.seq > k)
    BY <1>1, <1>4, <2>1
  <2>2. CASE j.seq > k /\ Drops(j, F)
    <3> DEFINE i == [seq |-> j.seq, thread |-> t, value |-> Unlisted]
    <3>1. Item(R, F, j, k, t, f, i)
      BY <2>2 DEF Item
    <3>2. Reached(W, t, i.seq)
      BY <1>3, <3>1
    <3> QED BY <3>2
  <2>3. CASE ~ Drops(j, F)
    <3>1. j.seq > F
      BY <1>1, <1>6, <2>3 DEF Drops
    <3>2. PICK e \in R : e.thread = t /\ e.seq = j.seq
      BY <1>6, <3>1 DEF Paired
    <3> QED BY <1>5, <3>2
  <2> QED BY <2>1, <2>2, <2>3
<1> QED BY <1>5, <1>6

\* The replay of commitResume
LEMMA CommitReplayed ==
  ASSUME HubSound(hub), link \in Links, NEW k \in Nat, NEW t \in Threads
  PROVE  Replayed(ToSet(Replay(k)), ToSet(hub.ring), hub.ringFloor, hub.journal[t], k, t, link.fetched[t].value)
<1> DEFINE R == ToSet(hub.ring)
           F == hub.ringFloor
           J == hub.journal
           v(u) == link.fetched[u].value
           S == {e \in R : e.seq > k} \cup FromJournal(k)
           W == ToSet(Replay(k))
           Of(e) == Item(R, F, J[t], k, t, v(t), e)
<1>1. W = Compacted(S)
  BY ReplayRises
<1>2. \A e : e \in FromJournal(k) <=>
        \/ \E u \in Threads : /\ J[u].seq > k /\ Fetches(J[u], F) /\ v(u) # Unlisted
                              /\ e = [seq |-> J[u].seq, thread |-> u, value |-> v(u)]
        \/ \E u \in Threads : /\ J[u].seq > k /\ Drops(J[u], F)
                              /\ e = [seq |-> J[u].seq, thread |-> u, value |-> Unlisted]
  BY DEF FromJournal, JournalSummaryIds, Fetches, Drops
<1>3. \A e : e \in S /\ e.thread = t <=> Of(e)
  <2> HIDE DEF R, F, J, v
  <2>1. \A e : e \in FromJournal(k) /\ e.thread = t <=>
          \/ /\ J[t].seq > k /\ Fetches(J[t], F) /\ v(t) # Unlisted
             /\ e = [seq |-> J[t].seq, thread |-> t, value |-> v(t)]
          \/ /\ J[t].seq > k /\ Drops(J[t], F)
             /\ e = [seq |-> J[t].seq, thread |-> t, value |-> Unlisted]
    BY <1>2
  <2> QED BY <2>1 DEF Item
<1> HIDE DEF S, Of, W
<1>4. \A e \in W : e.thread = t => Of(e)
  BY <1>1, <1>3 DEF Compacted
<1>5. ASSUME NEW e, Of(e)
      PROVE  e \in W <=> e.value = Unlisted \/ \A d : Of(d) /\ d.value # Unlisted => d.seq <= e.seq
  <2>1. e \in S /\ e.thread = t
    BY <1>3, <1>5
  <2> QED BY <1>1, <1>3, <2>1 DEF Compacted
<1>6. Replayed(W, R, F, J[t], k, t, v(t))
  BY <1>4, <1>5 DEF Replayed, Of
<1> QED BY <1>6 DEF W

\* The phone is served again, from a replay or to list anew.
LEMMA CommitAgrees == EventsInv /\ AgreeInv /\ CommitResume => AgreeInv'
<1> SUFFICES ASSUME EventsInv, AgreeInv, CommitResume PROVE AgreeInv'
  OBVIOUS
<1> DEFINE resumed == Resumable(link.from)
           c == phone.cursor
           k == c.seq
           q == IF resumed THEN Replay(k) ELSE <<>>
           R == ToSet(hub.ring)
           F == hub.ringFloor
           G == hub.journalFloor
           J == hub.journal
           f(t) == link.fetched[t].value
           ids == JournalSummaryIds(link.from.seq)
           used == {t \in ids : f(t) # Unlisted}
           outdated == {t \in ids : /\ f(t) # inbox[t] /\ hub.held[t] = 0
                                    /\ inbox[t] = Unlisted \/ t \notin Wanted}
           deferred == {t \in used : J[t].kind = "deferred"}
           reply == [epoch |-> hub.epoch, seq |-> hub.seq, resumed |-> resumed]
<1>1. /\ hub.up /\ UpAgrees /\ link.mode = "resuming" /\ link \in Links /\ hub \in Hubs /\ HubSound(hub)
      /\ link.pushes = <<>> /\ link.reply = <<>> /\ link.from = c /\ c \in Cursors /\ phone \in Phones
      /\ UNCHANGED <<inbox, phone>>
  <2>1. hub.up /\ link.mode = "resuming"
    BY DEF EventsInv, WireInv, CommitResume, Unlinked
  <2> QED BY <2>1, Running DEF AgreeInv, CommitResume, WireSound
<1>2. link' = [link EXCEPT !.mode = "replaying", !.through = hub.seq, !.queued = q, !.reply = <<reply>>]
  BY <1>1 DEF CommitResume
<1>3. /\ resumed => /\ hub' = [hub EXCEPT !.last = [t \in Threads |->
                                 IF t \in deferred THEN None ELSE hub.last[t]]]
                    /\ fresher' = fresher \cup {t \in ids : f(t) # hub.last[t]}
                    /\ lost' = (lost \ {t \in used : f(t) = inbox[t]}) \cup outdated
      /\ ~ resumed => UNCHANGED <<hub, fresher, lost>>
  BY DEF CommitResume
<1>4. /\ RingSet(R, F, hub.seq) /\ F \in Nat /\ G \in Nat /\ hub.seq \in Nat /\ k \in Nat
      /\ \A t \in Threads : J[t] \in JournalEntries /\ J[t].seq \in Nat /\ J[t].seq <= hub.seq
      /\ c.epoch = hub.epoch => c.seq <= hub.seq
  BY <1>1, Running, RingIsSet DEF Cursors, WireSound
<1>5. /\ link'.mode = "replaying" /\ link'.pushes = <<>> /\ link'.queued = q /\ link'.reply = <<reply>>
      /\ link'.ahead = link.ahead
  BY <1>1, <1>2 DEF Links
<1>6. Served' /\ (Unanswered' <=> ~ resumed) /\ ~ Unanswered /\ Seen = c
  BY <1>1, <1>5 DEF Served, Unanswered, Seen
<1>7. WireOf(link') = ToSet(q)
  <2>1. q \in Seq(Entries)
    <3>1. Replay(k) \in Seq(Entries)
      BY <1>1, <1>4, ReplayRises
    <3>2. <<>> \in Seq(Entries)
      OBVIOUS
    <3> HIDE DEF resumed, k
    <3> QED BY <3>1, <3>2
  <2>2. <<>> \o q = q
    BY <2>1, Joining
  <2> QED BY <1>5, <2>2 DEF WireOf
<1>8. /\ SameRecords(hub', hub) /\ hub'.pending = hub.pending /\ hub'.up /\ hub'.asked = hub.asked
      /\ hub'.inFlight = hub.inFlight /\ hub'.held = hub.held
  BY <1>1, <1>3 DEF Hubs, SameRecords
<1>9. Due(hub') = Due(hub) /\ Requested(hub')
  BY <1>1, <1>8 DEF Due, Requested, UpAgrees
<1>10. \A t \in Threads : /\ Paired(R, F, G, J[t], t)
                          /\ Agrees(hub, Due(hub), inbox, lost, fresher, WireOf(link), View, t)
  BY <1>1 DEF UpAgrees, Good
<1>11. /\ hub'.epoch = hub.epoch /\ ToSet(hub'.ring) = R /\ hub'.ringFloor = F
       /\ hub'.journal = J /\ hub'.journalFloor = G
  BY <1>8 DEF SameRecords
<1>12. View'.served /\ View'.seen = Seen' /\ View'.list = phone.list
  BY <1>1, <1>6 DEF View
<1>13. CASE ~ resumed
  <2>1. Unanswered' /\ Seen' = [epoch |-> hub.epoch, seq |-> hub.seq] /\ View'.all
    <3>1. Unanswered'
      BY <1>6, <1>13
    <3>2. Seen' = [epoch |-> link'.reply[1].epoch, seq |-> link'.reply[1].seq]
      BY <3>1 DEF Seen
    <3>3. link'.reply[1] = reply
      BY <1>5
    <3>4. View'.all
      BY <3>1 DEF View
    <3> QED BY <3>1, <3>2, <3>3, <3>4
  <2>2. WireOf(link') = {}
    BY <1>7, <1>13, ToSetEmpty
  <2>3. Backed(R, J, {})
    BY DEF Backed, Reached
  <2> HIDE DEF R, F, G, J
  <2>4. ASSUME NEW t \in Threads, NEW due, NEW in, NEW l, NEW p
        PROVE  Agrees(hub', due, in, l, p, {}, View', t)
    <3> SUFFICES ASSUME NEW v \in Values
                 PROVE  LET listed == View'.all \/ View'.list[t] = v
                        IN  Off(R, F, G, J[t], hub.seq, t, v, listed) /\ On(R, F, G, J[t], {}, t, v, listed)
      BY <1>11, <1>12, <2>1 DEF Agrees
    <3>1. ~ (J[t].seq > hub.seq) /\ Silent(R, hub.seq, t)
      BY <1>4, Numbers DEF RingSet, Silent
    <3> QED BY <2>1, <3>1 DEF Off, On
  <2>5. Good(hub', Due(hub'), inbox', lost', fresher', WireOf(link'), View', Threads)
    BY <1>10, <1>11, <2>2, <2>3, <2>4 DEF Good
  <2>6. ~ Covered(hub', phone'.cursor)
    <3>1. ~ Covered(hub, c)
      BY <1>1, <1>4, <1>13 DEF Resumable, Covered, F, G
    <3> QED BY <1>1, <1>11, <3>1 DEF Covered, F, G
  <2>7. Seen'.epoch = hub'.epoch
    BY <1>11, <2>1
  <2>8. UpAgrees'
    BY <1>9, <2>5, <2>6, <2>7 DEF UpAgrees
  <2> QED BY <1>8, <2>8 DEF AgreeInv
<1>14. CASE resumed
  <2> DEFINE W == ToSet(q)
  <2>1. Covered(hub, c) /\ c.epoch = hub.epoch
    BY <1>1, <1>14 DEF Resumable, Covered
  <2>2. /\ W \subseteq Entries /\ \A e \in W : e.seq \in Nat /\ k < e.seq
        /\ \A d, e \in W : d.seq = e.seq => d = e
    <3>1. /\ Replay(k) \in Seq(Entries) /\ Rising(Replay(k)) /\ Between(Replay(k), k, hub.seq)
      BY <1>1, <1>4, ReplayRises
    <3>2. RingSet(W, k, hub.seq)
      BY <1>4, <1>14, <3>1, RisingSet
    <3> HIDE DEF W
    <3> QED BY <3>2, Numbers DEF RingSet
  <2>3. \A t \in Threads : Replayed(W, R, F, J[t], k, t, f(t))
    BY <1>1, <1>4, <1>14, CommitReplayed
  <2>4. \A t \in Threads : f(t) \in Values
    BY <1>1 DEF Links, Fetched
  <2>5. \A t \in Threads, e \in R : J[t].kind = "deferred" => e.seq # J[t].seq
    <3>1. \A t \in Threads, i \in 1 .. Len(hub.ring) : J[t].kind = "deferred" => hub.ring[i].seq # J[t].seq
      BY <1>1 DEF HubSound, Apart
    <3>2. \A e \in R : \E i \in 1 .. Len(hub.ring) : e = hub.ring[i]
      BY <1>1 DEF ToSet, Hubs
    <3> QED BY <3>1, <3>2
  <2>6. Seen' = c /\ View'.all = phone.stale /\ View.all = phone.stale /\ View.seen = c /\ View.list = phone.list
    <3>1. (phone.stale \/ Unanswered) = phone.stale /\ (phone'.stale \/ Unanswered') = phone.stale
      BY <1>1, <1>6, <1>14 DEF Phones
    <3> QED BY <1>1, <1>6, <1>14, <3>1 DEF View, Seen
  <2>7. /\ \A t \in Threads : t \in ids <=> J[t].seq > k /\ Fetches(J[t], F)
        /\ hub'.last = [t \in Threads |-> IF t \in deferred THEN None ELSE hub.last[t]]
    BY <1>1, <1>3, <1>14 DEF JournalSummaryIds, Fetches, Hubs
  <2>8. Due(hub) = Wanted
    BY DEF Due, Wanted
  <2>9. \A e \in R : e \in Entries /\ e.seq \in Nat /\ e.thread \in Threads
    BY <1>4, Numbers DEF RingSet
  <2>10. /\ fresher' = fresher \cup {t \in ids : f(t) # hub.last[t]}
         /\ lost' = (lost \ {t \in used : f(t) = inbox[t]}) \cup outdated
    BY <1>3, <1>14
  <2> HIDE DEF W, R, F, G, J, f, ids
  <2>11. Backed(R, J, W)
    <3>1. \A t \in Threads : /\ \A e \in R : e.thread = t => Reached(W, t, e.seq)
                             /\ J[t].kind = "removed" => Reached(W, t, J[t].seq)
      BY <1>4, <1>10, <2>2, <2>3, <2>4, ReplayReaches
    <3> QED BY <2>9, <3>1 DEF Backed
  <2>12. ASSUME NEW t \in Threads, NEW v \in Values, Owes(hub', Due(hub'), inbox, lost', fresher', t, v)
         PROVE  /\ t \in ids => v = f(t)
                /\ (t \in ids /\ v # Unlisted) \/ Owes(hub, Due(hub), inbox, lost, fresher, t, v)
    <3>1. t \notin lost' /\ hub.held[t] = 0
      BY <1>8, <2>12 DEF Owes
    <3>2. CASE v = inbox[t] /\ (v = Unlisted \/ t \notin Wanted)
      <4>1. t \in ids => v = f(t)
        BY <2>10, <3>1, <3>2
      <4>2. t \in lost => t \in ids /\ v # Unlisted
        BY <2>10, <3>1, <3>2
      <4> QED BY <2>8, <3>1, <3>2, <4>1, <4>2 DEF Owes
    <3>3. CASE v = hub'.last[t] /\ v # None /\ t \notin fresher'
      <4>1. v = hub.last[t] /\ t \notin fresher
        BY <2>7, <2>10, <3>3
      <4>2. t \in ids => v = f(t)
        BY <2>10, <3>3, <4>1
      <4>3. v # Unlisted
        BY <3>3 DEF None, Unlisted
      <4>4. t \in lost => t \in ids
        BY <2>10, <3>1
      <4> QED BY <3>1, <3>3, <4>1, <4>2, <4>3, <4>4 DEF Owes
    <3> QED BY <1>9, <2>8, <2>12, <3>2, <3>3 DEF Owes
  <2>13. ASSUME NEW t \in Threads PROVE Agrees(hub', Due(hub'), inbox, lost', fresher', W, View', t)
    <3> SUFFICES ASSUME NEW v \in Values, Owes(hub', Due(hub'), inbox, lost', fresher', t, v)
                 PROVE  LET listed == View'.all \/ View'.list[t] = v
                        IN  Off(R, F, G, J[t], k, t, v, listed) /\ On(R, F, G, J[t], W, t, v, listed)
      BY <1>11, <1>12, <2>6 DEF Agrees
    <3> DEFINE listed == View'.all \/ View'.list[t] = v
    <3>1. listed = (View.all \/ View.list[t] = v)
      BY <1>12, <2>6
    <3>2. Off(R, F, G, J[t], k, t, v, listed)
      <4>1. CASE t \in ids /\ v # Unlisted
        <5>1. J[t].seq > k /\ Fetches(J[t], F) /\ ~ Drops(J[t], F)
          BY <2>7, <4>1 DEF Fetches, Drops
        <5> QED BY <4>1, <5>1 DEF Off
      <4>2. CASE Owes(hub, Due(hub), inbox, lost, fresher, t, v)
        BY <1>10, <2>1, <2>6, <3>1, <4>2 DEF Agrees, R, F, G, J
      <4> QED BY <2>12, <4>1, <4>2
    <3> HIDE DEF listed
    <3>3. J[t].seq > k /\ Fetches(J[t], F) => v = f(t)
      BY <2>7, <2>12
    <3>4. On(R, F, G, J[t], W, t, v, listed)
      BY <1>4, <1>10, <2>2, <2>3, <2>5, <3>2, <3>3, ReplayOn
    <3> QED BY <3>2, <3>4 DEF listed
  <2>14. Good(hub', Due(hub'), inbox', lost', fresher', WireOf(link'), View', Threads)
    <3>1. WireOf(link') = W /\ inbox' = inbox
      BY <1>1, <1>7 DEF W
    <3> QED BY <1>10, <1>11, <2>11, <2>13, <3>1 DEF Good
  <2>15. UpAgrees'
    <3>1. ~ Unanswered' /\ Seen'.epoch = hub'.epoch
      BY <1>6, <1>11, <1>14, <2>1, <2>6
    <3> QED BY <1>9, <2>14, <3>1 DEF UpAgrees
  <2> QED BY <1>8, <2>15 DEF AgreeInv
<1> QED BY <1>13, <1>14

--------------------------------------------------------------------------------
(* The theorems.                                                             *)

\* Every step keeps the invariant.
LEMMA StepAgrees == EventsInv /\ AgreeInv /\ [Next]_vars => AgreeInv'
<1> SUFFICES ASSUME EventsInv, AgreeInv, [Next]_vars PROVE AgreeInv'
  OBVIOUS
<1>1. CASE ServerStep
  BY <1>1, ServerAgrees
<1>2. CASE HubStep
  BY <1>2, FlushAgrees, SummaryAgrees, VisibilityAgrees, FetchAgrees, CommitAgrees, LinkAgrees,
     StopAgrees, CrashAgrees, StartAgrees DEF HubStep
<1>3. CASE PhoneStep
  BY <1>3, LinkAgrees, DisconnectAgrees, ReplyAgrees, PushAgrees, RefetchAgrees DEF PhoneStep
<1>4. CASE UNCHANGED vars
  BY <1>4 DEF vars, AgreeInv, UpAgrees, Requested, Due, View, Seen, Served, Unanswered
<1> QED BY <1>1, <1>2, <1>3, <1>4 DEF Next

(* The inductive invariant: of every thread that no history names, the wire   *)
(* and any resume the hub answers end with what the server lists, and with    *)
(* what the hub appended last, unless something newer is still to be asked    *)
(* for (RemoteEventHub, EventCursorTracker, remoteEventState.ts).             *)
THEOREM AgreeInvariant == Spec => [](EventsInv /\ AgreeInv)
<1>1. Init => EventsInv /\ AgreeInv
  BY Initially, AgreeInit
<1>2. (EventsInv /\ AgreeInv) /\ [Next]_vars => (EventsInv /\ AgreeInv)'
  BY StepKeeps, StepAgrees
<1> QED BY <1>1, <1>2, PTL DEF Spec

(* When all is quiet a phone lists what the server lists, but for the threads *)
(* of which the hub let a change slip: for every number of threads, every     *)
(* limit of ring and journal and any crashes, restarts, reconnections and     *)
(* failed lookups (RemoteEventHub, EventCursorTracker).                       *)
THEOREM QuietInboxAgrees == Spec => []InboxAgrees
<1>1. EventsInv /\ AgreeInv => InboxAgrees
  <2> SUFFICES ASSUME EventsInv, AgreeInv, Quiet, NEW t \in Threads \ lost PROVE phone.list[t] = inbox[t]
    BY DEF InboxAgrees
  <2>1. /\ hub.up /\ UpAgrees /\ hub.pending = <<>> /\ hub.asked = <<>> /\ link.mode = "live"
        /\ link.pushes = <<>> /\ link.reply = <<>> /\ ~ phone.stale
    BY DEF Quiet, AgreeInv
  <2>2. hub \in Hubs /\ HubSound(hub) /\ WireSound(link, phone.cursor, hub.epoch, hub.seq) /\ VarsOK
    BY <2>1, Running
  <2>3. hub.held[t] = 0 /\ Due(hub) = {}
    <3>1. hub.held[t] \in Nat /\ hub.inFlight \subseteq Threads
      BY <2>2 DEF Hubs
    <3>2. ToSet(hub.asked) = {} /\ ToSet(hub.pending) = {}
      BY <2>1, ToSetEmpty
    <3>3. /\ \A u \in hub.inFlight : FALSE
          /\ ~ (hub.held[t] > 0)
      BY <2>1, <3>1, <3>2 DEF UpAgrees, Requested
    <3> QED BY <3>1, <3>2, <3>3 DEF Due
  <2>4. WireOf(link) = {}
    <3>1. link.queued = <<>> /\ <<>> \o <<>> = <<>>
      BY <2>1, <2>2 DEF WireSound
    <3> QED BY <2>1, <3>1, ToSetEmpty DEF WireOf
  <2>5. Owes(hub, Due(hub), inbox, lost, fresher, t, inbox[t]) /\ inbox[t] \in Values
    BY <2>2, <2>3 DEF Owes, VarsOK
  <2>6. View.served /\ View.list = phone.list /\ ~ View.all
    BY <2>1 DEF View, Served, Unanswered
  <2>7. Agrees(hub, Due(hub), inbox, lost, fresher, {}, View, t)
    BY <2>1, <2>4 DEF UpAgrees, Good
  <2>8. On(ToSet(hub.ring), hub.ringFloor, hub.journalFloor, hub.journal[t], {}, t, inbox[t],
           View.all \/ View.list[t] = inbox[t])
    BY <2>5, <2>6, <2>7 DEF Agrees
  <2> QED BY <2>6, <2>8 DEF On
<1> QED BY <1>1, AgreeInvariant, PTL
=================================================================================
