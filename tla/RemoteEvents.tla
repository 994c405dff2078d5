----------------------------- MODULE RemoteEvents -----------------------------
(***************************************************************************)
(* The remote event hub (remote/remoteEventHub.ts), the file that carries  *)
(* its state over a restart (remote/remoteEventState.ts) and one phone     *)
(* (EventCursorTracker, DesktopLink and RemoteStore of the iOS app), as    *)
(* far as the inbox goes: which threads the phone lists, with which        *)
(* summary.                                                                *)
(*                                                                         *)
(* The hub hears the events of the server, asks it for summaries and       *)
(* numbers what it tells the phone.  What a phone that was away missed     *)
(* comes from a ring of recent events and from a journal of the last event *)
(* per thread; a summary the hub could not tell anybody is "deferred": the *)
(* journal has a number for it and the ring has no event.                  *)
(*                                                                         *)
(* Requests to the server, its answers and its events share one ordered    *)
(* channel, so an answer is what holds when the hub takes it; hub.asked is *)
(* the queue of requests.  Events of an open thread and run statuses are   *)
(* left out, and so is the age limit of the ring: it shortens the ring     *)
(* like the other one.                                                     *)
(*                                                                         *)
(* The code does let changes slip.  The history variable `lost` has the    *)
(* threads about which that happened, each case marked Slip or `lost` and  *)
(* named by a comment: the properties say that there is no other case.     *)
(***************************************************************************)
EXTENDS Naturals, Sequences, FiniteSets, SequencesExt, Filter

CONSTANTS
  Threads,
  Versions,      \* contents of a summary
  BufferLimit,
  JournalLimit,
  MaxEvents,     \* bound on the events of the server
  MaxLinks,      \* bound on the connections of the phone
  MaxStarts      \* bound on the starts of the hub

ASSUME LimitsAssumption ==
  /\ BufferLimit \in Nat \ {0}
  /\ JournalLimit \in Nat \ {0}
  /\ MaxEvents \in Nat
  /\ MaxLinks \in Nat
  /\ MaxStarts \in Nat \ {0}   \* the hub has started once
ASSUME VersionsAssumption == Versions \subseteq Nat \ {0}

VARIABLES
  inbox,      \* the server's inbox: the summary of each thread, or Unlisted
  events,     \* events so far
  links,      \* connections so far
  starts,     \* starts of the hub so far
  hub,        \* the RemoteEventHub
  saved,      \* the state file
  link,       \* the connection: the hub's subscriber, and what is on the wire
  phone,      \* cursor, list, and whether the list must be fetched anew
  lost,       \* history: threads with a change the hub let slip
  fresher     \* history: threads of which the phone has, or is told, a summary
              \* that was fetched and is not the last one appended

vars == <<inbox, events, links, starts, hub, saved, link, phone, lost, fresher>>

Unlisted == 0
None == 0       \* no summary appended yet; no epoch
Values == Versions \cup {Unlisted}
Seqs == Nat
NoEntry == [seq |-> 0, kind |-> "none"]
JournalEntries == [seq : Seqs, kind : {"none", "summary", "deferred", "removed"}]
Entries == [seq : Seqs, thread : Threads, value : Values]
Requests == [kind : {"summary", "visible", "resume"}, thread : Threads]
NotFetched == [value |-> Unlisted, here |-> FALSE]

HubTypeOK ==
  /\ hub.up \in BOOLEAN
  /\ hub.epoch \in 0..MaxStarts
  /\ hub.seq \in Seqs
  /\ hub.ring \in Seq(Entries) /\ Len(hub.ring) <= BufferLimit
  /\ hub.ringFloor \in 0..hub.seq
  /\ hub.journal \in [Threads -> JournalEntries]
  /\ Cardinality({t \in Threads : hub.journal[t] # NoEntry}) <= JournalLimit
  /\ hub.journalFloor \in 0..hub.seq
  /\ hub.pending \in Seq(Threads)
  /\ hub.inFlight \subseteq Threads
  /\ hub.asked \in Seq(Requests)
  /\ hub.last \in [Threads -> Values]
  /\ hub.held \in [Threads -> 0..MaxEvents]
  /\ hub.visible \in [Threads -> {"unknown", "yes", "no"}]

(* Type invariant, with the limits of the ring and of the journal.            *)
TypeOK ==
  /\ inbox \in [Threads -> Values]
  /\ events \in 0..MaxEvents /\ links \in 0..MaxLinks /\ starts \in 1..MaxStarts
  /\ HubTypeOK
  /\ link.mode \in {"none", "idle", "resuming", "replaying", "live"}
  /\ link.through \in Seqs
  /\ link.queued \in Seq(Entries) /\ link.pushes \in Seq(Entries)
  /\ phone.list \in [Threads -> Values]
  /\ phone.stale \in BOOLEAN
  /\ lost \subseteq Threads /\ fresher \subseteq Threads

-----------------------------------------------------------------------------
(* The hub's own steps, as functions of its state.                           *)

Empty(epoch) ==
  [up |-> TRUE, epoch |-> epoch, seq |-> 0, ring |-> <<>>, ringFloor |-> 0,
   journal |-> [t \in Threads |-> NoEntry], journalFloor |-> 0,
   pending |-> <<>>, inFlight |-> {}, asked |-> <<>>,
   last |-> [t \in Threads |-> None], held |-> [t \in Threads |-> 0],
   visible |-> [t \in Threads |-> "unknown"], outgoing |-> <<>>,
   slipped |-> {}]

\* History: a change of these threads slips.
Slip(h, threads) == [h EXCEPT !.slipped = @ \cup threads]

\* The entry the journal evicts: the one updated first.
Oldest(journal) ==
  CHOOSE t \in Threads :
    /\ journal[t] # NoEntry
    /\ \A u \in Threads : journal[u] # NoEntry => journal[t].seq <= journal[u].seq

EvictNothing(h) == h

\* The end of updateJournal.  The ring goes on answering for cursors it covers,
\* and it has no event of a deferral: the change slips.
Evict(h) ==
  IF Cardinality({t \in Threads : h.journal[t] # NoEntry}) <= JournalLimit
    THEN h
    ELSE LET t == Oldest(h.journal)
             old == h.journal[t]
         IN  Slip([h EXCEPT !.journal[t] = NoEntry,
                            !.journalFloor = IF @ < old.seq THEN old.seq ELSE @],
                  IF old.kind = "deferred" /\ old.seq > h.ringFloor THEN {t} ELSE {})

\* updateJournal with the number just given
Record(h, t, kind) == Evict([h EXCEPT !.journal[t] = [seq |-> h.seq, kind |-> kind]])

TrimSilently(h) == [h EXCEPT !.ring = SubSeq(@, IF Len(@) > BufferLimit THEN 2 ELSE 1, Len(@))]

Trim(h) ==
  IF Len(h.ring) <= BufferLimit
    THEN h
    ELSE LET drop == Len(h.ring) - BufferLimit
         IN  [h EXCEPT !.ring = SubSeq(@, drop + 1, Len(@)), !.ringFloor = h.ring[drop].seq]

\* append, recordJournal and the caller's update of lastSummaries
Append1(h, t, v) ==
  LET entry == [seq |-> h.seq + 1, thread |-> t, value |-> v]
      kept  == Trim([h EXCEPT !.seq = @ + 1, !.ring = Append(@, entry)])
  IN  [Record(kept, t, IF v = Unlisted THEN "removed" ELSE "summary")
         EXCEPT !.outgoing = Append(@, entry), !.last[t] = v, !.slipped = @ \ {t}]

\* deferSummary.  A phone that is being served is told nothing, and the next
\* event takes its cursor past the deferral; and the journal forgets a removal.
Defer(h, t) ==
  Slip(Record([h EXCEPT !.seq = @ + 1, !.last[t] = None], t, "deferred"),
       IF \/ link.mode \in {"replaying", "live"}
          \/ h.journal[t].kind = "removed" /\ inbox[t] = Unlisted
         THEN {t} ELSE {})

\* refreshSummary
Refresh(h, t) ==
  IF link.mode = "none"
    THEN Defer([h EXCEPT !.inFlight = @ \ {t}], t)
    ELSE [h EXCEPT !.inFlight = @ \cup {t},
                   !.asked = Append(@, [kind |-> "summary", thread |-> t])]

\* flushPending
Flushed(h) ==
  FoldLeft(Refresh, [h EXCEPT !.pending = <<>>], h.pending)

\* queueSummary
Queued(h, t) ==
  [h EXCEPT !.pending = IF t \in ToSet(@) THEN @ ELSE Append(@, t)]

\* appendVisible for thread.removed: the first one waits for a lookup.
AppendRemoved(h, t) ==
  IF h.held[t] > 0
    THEN [h EXCEPT !.held[t] = @ + 1]
    ELSE IF h.visible[t] = "unknown"
           THEN [h EXCEPT !.held[t] = 1,
                          !.asked = Append(@, [kind |-> "visible", thread |-> t])]
           ELSE IF h.visible[t] = "yes" THEN Append1(h, t, Unlisted) ELSE Slip(h, {t})

\* releaseHeld for a thread the phones may see.  The removal is told as the
\* latest news, though the thread may be listed again.
AppendHeld(h, t) ==
  Slip(FoldLeft(LAMBDA g, u : Append1(g, u, Unlisted),
                [h EXCEPT !.held[t] = 0, !.visible[t] = "yes"],
                [i \in 1..h.held[t] |-> t]),
       IF inbox[t] # Unlisted /\ t \notin ToSet(h.pending) \cup h.inFlight THEN {t} ELSE {})

-----------------------------------------------------------------------------
(* Delivery to the phone.                                                    *)

DeliverAtOnce(h) ==
  IF link.mode \in {"live", "replaying"}
    THEN [link EXCEPT !.pushes = @ \o h.outgoing]
    ELSE link

\* deliver: live subscribers get what was appended, replaying ones queue it.
Deliver(h) ==
  LET wanted == Kept(h.outgoing, {e \in ToSet(h.outgoing) : e.seq > link.through})
  IN  CASE link.mode = "live" /\ wanted # <<>> ->
             [link EXCEPT !.pushes = @ \o wanted, !.through = wanted[Len(wanted)].seq]
        [] link.mode = "replaying" -> [link EXCEPT !.queued = @ \o wanted]
        [] OTHER -> link

\* The hub becomes h, and what it has to say is delivered.
Become(h) ==
  LET told == {e.thread : e \in ToSet(h.outgoing)}
  IN  /\ hub' = [h EXCEPT !.outgoing = <<>>, !.slipped = {}]
      /\ link' = Deliver(h)
      /\ lost' = (lost \ told) \cup h.slipped
      /\ fresher' = fresher \ told

-----------------------------------------------------------------------------
(* Events of the server.  While the hub is down nobody hears them.           *)

Event(t, v, h) ==
  /\ events < MaxEvents
  /\ events' = events + 1
  /\ inbox' = [inbox EXCEPT ![t] = v]
  /\ IF hub.up
       THEN Become(h)
       ELSE /\ lost' = lost \cup (IF v = inbox[t] THEN {} ELSE {t})
            /\ UNCHANGED <<hub, link, fresher>>
  /\ UNCHANGED <<links, starts, saved, phone>>

\* thread.updated, run.created and the like; on a thread that is not listed too
Updated(t, v) ==
  /\ inbox[t] = Unlisted => v = Unlisted
  /\ inbox[t] # Unlisted => v \in Versions
  /\ Event(t, v, Queued(hub, t))

\* thread.created, thread.restored
Listed(t, v) ==
  /\ inbox[t] = Unlisted
  /\ v \in Versions
  /\ Event(t, v, Queued(hub, t))

\* thread.archived
Archived(t) ==
  /\ inbox[t] # Unlisted
  /\ Event(t, Unlisted, AppendRemoved(Flushed(hub), t))

-----------------------------------------------------------------------------
(* The hub.                                                                  *)

\* The timer of scheduleFlush.
Flush ==
  /\ hub.up
  /\ hub.pending # <<>>
  /\ Become(Flushed(hub))
  /\ UNCHANGED <<inbox, events, links, starts, saved, phone>>

Answered(kind) ==
  /\ hub.up
  /\ hub.asked # <<>>
  /\ Head(hub.asked).kind = kind

\* The request whose answer refreshSummary still waits for.
Current(t) ==
  /\ t \in hub.inFlight
  /\ [kind |-> "summary", thread |-> t] \notin ToSet(Tail(hub.asked))

\* getThreadSummary answers refreshSummary.  A summary like the last one is not
\* appended, whatever the phone has fetched meanwhile.
SummaryAnswered ==
  /\ Answered("summary")
  /\ LET t == Head(hub.asked).thread
         h == [hub EXCEPT !.asked = Tail(@)]
         g == [h EXCEPT !.inFlight = @ \ {t}]
     IN  IF ~Current(t)
           THEN Become(h)
           ELSE IF inbox[t] = Unlisted
                  THEN Become(g)
                  ELSE IF hub.last[t] # inbox[t]
                         THEN Become(Append1(g, t, inbox[t]))
                         ELSE /\ hub' = g
                              /\ lost' = lost \cup ({t} \cap fresher)
                              /\ UNCHANGED <<link, fresher>>
  /\ UNCHANGED <<inbox, events, links, starts, saved, phone>>

SummaryFails ==
  /\ Answered("summary")
  /\ LET t == Head(hub.asked).thread
         h == [hub EXCEPT !.asked = Tail(@)]
     IN  IF Current(t)
           THEN Become(Defer([h EXCEPT !.inFlight = @ \ {t}], t))
           ELSE Become(h)
  /\ UNCHANGED <<inbox, events, links, starts, saved, phone>>

\* releaseHeld
VisibilityAnswered ==
  /\ Answered("visible")
  /\ Become(AppendHeld([hub EXCEPT !.asked = Tail(@)], Head(hub.asked).thread))
  /\ UNCHANGED <<inbox, events, links, starts, saved, phone>>

\* A lookup that fails hides the thread from then on.
VisibilityFails ==
  /\ Answered("visible")
  /\ LET t == Head(hub.asked).thread
     IN  /\ hub' = [hub EXCEPT !.asked = Tail(@), !.held[t] = 0, !.visible[t] = "no"]
         /\ lost' = lost \cup {t}
  /\ UNCHANGED <<inbox, events, links, starts, saved, link, phone, fresher>>

-----------------------------------------------------------------------------
(* A phone resumes.                                                          *)

Resumable(from) ==
  /\ from.epoch = hub.epoch
  /\ from.seq <= hub.seq
  /\ from.seq >= hub.ringFloor \/ from.seq >= hub.journalFloor

\* Entries of the journal that must be fetched: the ring has no event of them.
JournalSummaryIds(cursor) ==
  {t \in Threads :
     /\ hub.journal[t].seq > cursor
     /\ \/ hub.journal[t].kind = "deferred"
        \/ hub.journal[t].kind = "summary" /\ hub.journal[t].seq <= hub.ringFloor}

Connect ==
  /\ hub.up
  /\ link.mode = "none"
  /\ links < MaxLinks
  /\ links' = links + 1
  /\ link' = [link EXCEPT !.mode = "idle"]
  /\ UNCHANGED <<inbox, events, starts, hub, saved, phone, lost, fresher>>

\* events.subscribe with the phone's cursor
Subscribe ==
  /\ link.mode = "idle"
  /\ link' = [link EXCEPT !.mode = "resuming", !.from = phone.cursor,
                          !.fetched = [t \in Threads |-> NotFetched]]
  /\ UNCHANGED <<inbox, events, links, starts, hub, saved, phone, lost, fresher>>

Fetching == \E i \in 1..Len(hub.asked) : hub.asked[i].kind = "resume"
Missing == {t \in JournalSummaryIds(link.from.seq) : ~link.fetched[t].here}

\* One round of resume's loop: asks for what is missing.
FetchMissing ==
  /\ link.mode = "resuming" /\ ~Fetching
  /\ Resumable(link.from) /\ Missing # {}
  /\ \E order \in SetToSeqs(Missing) :
       hub' = [hub EXCEPT !.asked = @ \o [i \in 1..Len(order) |->
                                            [kind |-> "resume", thread |-> order[i]]]]
  /\ UNCHANGED <<inbox, events, links, starts, saved, link, phone, lost, fresher>>

ResumeAnswered ==
  /\ Answered("resume")
  /\ LET t == Head(hub.asked).thread
     IN  link' = [link EXCEPT !.fetched[t] = [value |-> inbox[t], here |-> TRUE]]
  /\ hub' = [hub EXCEPT !.asked = Tail(@)]
  /\ UNCHANGED <<inbox, events, links, starts, saved, phone, lost, fresher>>

\* What the phone missed: the events of the ring after the cursor and, for
\* threads the ring says nothing of, the journal; only the last summary of each.
FromJournal(cursor) ==
  {[seq |-> hub.journal[t].seq, thread |-> t, value |-> link.fetched[t].value] :
     t \in {u \in JournalSummaryIds(cursor) : link.fetched[u].value # Unlisted}}
  \cup
  {[seq |-> hub.journal[t].seq, thread |-> t, value |-> Unlisted] :
     t \in {u \in Threads : /\ hub.journal[u].kind = "removed"
                            /\ hub.journal[u].seq > cursor
                            /\ hub.journal[u].seq <= hub.ringFloor}}

Compacted(items) ==
  {e \in items : e.value = Unlisted \/
     \A f \in items : f.thread = e.thread /\ f.value # Unlisted => f.seq <= e.seq}

\* The items in the order of their numbers, which are distinct
Ascending(items) ==
  CHOOSE s \in SetToSeqs(items) : \A i, j \in 1..Len(s) : i < j => s[i].seq < s[j].seq

Replay(cursor) ==
  Ascending(Compacted({e \in ToSet(hub.ring) : e.seq > cursor} \cup FromJournal(cursor)))

\* Threads whose summary is still to be asked for or to be answered
Wanted == ToSet(hub.pending) \cup hub.inFlight

\* commitResume.  The phone is told what was fetched, and nobody looks whether it
\* is what holds by now: a change in between slips, unless news of it are held or
\* wanted.  What was fetched is not reckoned with the next time a summary is
\* compared with the last one (`fresher`).
CommitResume ==
  /\ link.mode = "resuming" /\ ~Fetching
  /\ Resumable(link.from) => Missing = {}
  /\ LET resumed == Resumable(link.from)
         ids == JournalSummaryIds(link.from.seq)
         used == {t \in ids : link.fetched[t].value # Unlisted}
         outdated == {t \in ids : /\ link.fetched[t].value # inbox[t] /\ hub.held[t] = 0
                                  /\ inbox[t] = Unlisted \/ t \notin Wanted}
         deferred == {t \in used : hub.journal[t].kind = "deferred"}
     IN  /\ link' = [link EXCEPT
                       !.mode = "replaying", !.through = hub.seq,
                       !.queued = IF resumed THEN Replay(link.from.seq) ELSE <<>>,
                       !.reply = <<[epoch |-> hub.epoch, seq |-> hub.seq, resumed |-> resumed]>>]
         /\ IF resumed
              THEN /\ hub' = [hub EXCEPT !.last = [t \in Threads |->
                                 IF t \in deferred THEN None ELSE hub.last[t]]]
                   /\ fresher' = fresher \cup {t \in ids : link.fetched[t].value # hub.last[t]}
                   /\ lost' = (lost \ {t \in used : link.fetched[t].value = inbox[t]}) \cup outdated
              ELSE UNCHANGED <<hub, fresher, lost>>
  /\ UNCHANGED <<inbox, events, links, starts, saved, phone>>

\* startDelivery
StartDelivery ==
  /\ link.mode = "replaying"
  /\ link' = [link EXCEPT
                !.mode = "live", !.queued = <<>>, !.pushes = @ \o link.queued,
                !.through = IF link.queued # <<>> /\ link.queued[Len(link.queued)].seq > @
                              THEN link.queued[Len(link.queued)].seq ELSE @]
  /\ UNCHANGED <<inbox, events, links, starts, hub, saved, phone, lost, fresher>>

\* DesktopLink.watch: a subscribe without a cursor, to change the open threads.
Watch ==
  /\ link.mode = "live" /\ link.reply = <<>>
  /\ link' = [link EXCEPT !.mode = "replaying", !.queued = <<>>, !.through = hub.seq]
  /\ UNCHANGED <<inbox, events, links, starts, hub, saved, phone, lost, fresher>>

Unlinked ==
  [mode |-> "none", through |-> 0, queued |-> <<>>, pushes |-> <<>>, reply |-> <<>>, ahead |-> FALSE,
   from |-> [epoch |-> None, seq |-> 0], fetched |-> [t \in Threads |-> NotFetched]]

WithoutResume(h) == [h EXCEPT !.asked = Kept(@, {r \in ToSet(@) : r.kind # "resume"})]

\* The connection closes, at the phone's will or not; what is on the wire is lost.
\* A phone that stops itself after it read a push, and before it read that the
\* list must be fetched anew, keeps the cursor of the push: everything slips.
Disconnect ==
  /\ link.mode # "none"
  /\ link' = Unlinked
  /\ hub' = WithoutResume(hub)
  /\ lost' = IF link.ahead /\ ~link.reply[1].resumed THEN Threads ELSE lost
  /\ UNCHANGED <<inbox, events, links, starts, saved, phone, fresher>>

-----------------------------------------------------------------------------
(* Restarts.                                                                 *)

\* stop: what is not told yet is deferred, and the state is written.  Removals
\* that wait for a lookup slip.
Stop ==
  /\ hub.up /\ ~link.ahead
  /\ \E flying \in SetToSeqs(hub.inFlight \ ToSet(hub.pending)) :
     LET untold == hub.pending \o flying
         h == FoldLeft(Defer, hub, untold)
     IN  /\ saved' = [clean |-> TRUE, epoch |-> h.epoch, seq |-> h.seq,
                      journal |-> h.journal, journalFloor |-> h.journalFloor]
         /\ hub' = [Empty(h.epoch) EXCEPT !.up = FALSE]
         /\ lost' = lost \cup h.slipped \cup {t \in Threads : h.held[t] > 0}
  /\ link' = Unlinked
  /\ UNCHANGED <<inbox, events, links, starts, phone, fresher>>

\* The process ends, or stop cannot write the state.
Crash ==
  /\ hub.up /\ ~link.ahead
  /\ hub' = [Empty(hub.epoch) EXCEPT !.up = FALSE]
  /\ link' = Unlinked
  /\ UNCHANGED <<inbox, events, links, starts, saved, phone, lost, fresher>>

\* The constructor and start: a file from a clean shutdown is restored and
\* marked in use.
Start ==
  /\ ~hub.up
  /\ starts < MaxStarts
  /\ starts' = starts + 1
  /\ IF saved.clean
       THEN hub' = [Empty(saved.epoch) EXCEPT
                      !.seq = saved.seq, !.ringFloor = saved.seq,
                      !.journal = saved.journal, !.journalFloor = saved.journalFloor]
       ELSE hub' = Empty(hub.epoch + 1)
  /\ saved' = [saved EXCEPT !.clean = FALSE]
  /\ UNCHANGED <<inbox, events, links, link, phone, lost, fresher>>

-----------------------------------------------------------------------------
(* The phone.                                                                *)

AcceptFurthest ==
  /\ link.reply # <<>>
  /\ LET r == link.reply[1]
         seq == IF phone.cursor.seq > r.seq THEN phone.cursor.seq ELSE r.seq
     IN  phone' = IF r.resumed THEN phone
                  ELSE [phone EXCEPT !.cursor = [epoch |-> r.epoch, seq |-> seq],
                                     !.stale = TRUE]
  /\ link' = [link EXCEPT !.reply = <<>>, !.ahead = FALSE]
  /\ UNCHANGED <<inbox, events, links, starts, hub, saved, lost, fresher>>

\* EventCursorTracker.accept.  Pushes are read by another task, which may be
\* ahead of the one that waits for the reply.
TakeReply ==
  /\ link.reply # <<>>
  /\ LET r == link.reply[1]
     IN  phone' = IF r.resumed THEN phone
                  ELSE [phone EXCEPT !.cursor = [epoch |-> r.epoch, seq |-> r.seq],
                                     !.stale = TRUE]
  /\ link' = [link EXCEPT !.reply = <<>>, !.ahead = FALSE]
  /\ UNCHANGED <<inbox, events, links, starts, hub, saved, lost, fresher>>

\* EventCursorTracker.observe
TakePush ==
  /\ link.pushes # <<>>
  /\ LET e == Head(link.pushes)
         cursor == [epoch |-> hub.epoch, seq |-> e.seq]
     IN  phone' = IF phone.cursor.epoch \notin {None, hub.epoch}
                    THEN [phone EXCEPT !.cursor = cursor, !.stale = TRUE]
                    ELSE IF phone.cursor.epoch = hub.epoch /\ e.seq <= phone.cursor.seq
                      THEN phone
                      ELSE [phone EXCEPT !.cursor = cursor, !.list[e.thread] = e.value]
  /\ link' = [link EXCEPT !.pushes = Tail(@),
                          !.ahead = @ \/ link.reply # <<>>]
  /\ UNCHANGED <<inbox, events, links, starts, hub, saved, lost, fresher>>

\* Threads of which the phone may still be told news above its cursor: by the wire,
\* by the ring or, when it resumes, by the journal
Coming ==
  {t \in Threads :
     \/ \E e \in ToSet(link.pushes \o link.queued \o hub.ring) :
          e.thread = t /\ e.seq > phone.cursor.seq
     \/ hub.journal[t].kind = "removed" /\ hub.journal[t].seq > phone.cursor.seq}

\* The phone lists the threads anew.  What slipped is made good, unless older
\* news of the thread are still to come.
Refetch ==
  /\ link.mode \in {"replaying", "live"} /\ link.reply = <<>>
  /\ phone.stale
  /\ phone' = [phone EXCEPT !.list = inbox, !.stale = FALSE]
  /\ lost' = lost \cap Coming
  /\ fresher' = {t \in Threads : inbox[t] # hub.last[t]} \cup (fresher \cap Coming)
  /\ UNCHANGED <<inbox, events, links, starts, hub, saved, link>>

-----------------------------------------------------------------------------
Init ==
  /\ inbox = [t \in Threads |-> Unlisted]
  /\ events = 0
  /\ links = 0
  /\ starts = 1
  /\ hub = Empty(1)
  /\ saved = [clean |-> FALSE, epoch |-> None, seq |-> 0,
              journal |-> [t \in Threads |-> NoEntry], journalFloor |-> 0]
  /\ link = Unlinked
  /\ phone = [cursor |-> [epoch |-> None, seq |-> 0],
              list |-> [t \in Threads |-> Unlisted], stale |-> TRUE]
  /\ lost = {}
  /\ fresher = {}

ServerStep ==
  \E t \in Threads : \/ \E v \in Values : Updated(t, v) \/ Listed(t, v)
                     \/ Archived(t)

HubStep ==
  \/ Flush \/ SummaryAnswered \/ SummaryFails \/ VisibilityAnswered \/ VisibilityFails
  \/ FetchMissing \/ ResumeAnswered \/ CommitResume \/ StartDelivery
  \/ Stop \/ Crash \/ Start

PhoneStep ==
  \/ Connect \/ Subscribe \/ Watch \/ Disconnect
  \/ TakeReply \/ TakePush \/ Refetch

Next == ServerStep \/ HubStep \/ PhoneStep

Spec == Init /\ [][Next]_vars

-----------------------------------------------------------------------------
(* Properties.                                                               *)

\* Nothing is on its way between the server, the hub and the phone.
Quiet ==
  /\ hub.up
  /\ hub.pending = <<>> /\ hub.asked = <<>>
  /\ link.mode = "live" /\ link.pushes = <<>> /\ link.reply = <<>>
  /\ ~phone.stale

(* When all is quiet a phone lists what the server lists, with the summaries  *)
(* the server has: whatever was missed while the phone was away, the          *)
(* connection broke, the ring and the journal dropped entries, summaries      *)
(* could not be fetched or the hub restarted is made good by the replay, by   *)
(* the journal or by a new list (RemoteEventHub, EventCursorTracker).  The    *)
(* threads in `lost` are the ones the code gives up, and no others.           *)
InboxAgrees ==
  Quiet => \A t \in Threads \ lost : phone.list[t] = inbox[t]

(* A phone never holds a number the hub has still to give: after a restart    *)
(* from the state file, or from nothing, no event would be skipped as one     *)
(* that was seen before (EventCursorTracker.observe, isResumable).            *)
CursorWithinHead ==
  hub.up /\ phone.cursor.epoch = hub.epoch => phone.cursor.seq <= hub.seq

(* Replay and live events reach the phone in one increasing sequence above    *)
(* its cursor, so that it applies every one of them: none is skipped as seen  *)
(* already (startDelivery, deliver, deliveredThrough).                        *)
NothingSkipped ==
  LET wire == link.pushes \o link.queued
  IN  /\ \A i, j \in 1..Len(wire) : i < j => wire[i].seq < wire[j].seq
      /\ phone.cursor.epoch = hub.epoch =>
           \A i \in 1..Len(wire) : wire[i].seq > phone.cursor.seq

(* What refreshSummary says when the summary cannot be fetched: "Keep the     *)
(* change resumable even though no summary could be sent now."  A phone whose *)
(* cursor has passed a deferral will not be given it by a resume, so it must  *)
(* have the summary of a listed thread already.                               *)
DeferredIsResumable ==
  Quiet => \A t \in Threads :
    (/\ inbox[t] # Unlisted
     /\ hub.journal[t].kind = "deferred"
     /\ phone.cursor.seq >= hub.journal[t].seq)
      => phone.list[t] = inbox[t]
=============================================================================
