------------------------------ MODULE MessageInbox ------------------------------
(***************************************************************************)
(* What a conversation promises about the messages sent to it, without a   *)
(* word about runs, drafts or requests.  A message waits in a box or has   *)
(* been said.  Boxes keep the order of arrival; a box is said as a whole,  *)
(* or poured as a whole before or behind what another box holds.  What     *)
(* leaves otherwise was taken back by the user, latest message first, or   *)
(* was in a fragile box that got lost.                                     *)
(***************************************************************************)
EXTENDS Naturals, Sequences

CONSTANTS
  Msgs,
  Boxes,
  Fragile,       \* boxes whose content may get lost
  Retractable    \* messages the user can take back

VARIABLES
  box,           \* [Boxes -> Seq(Msgs)], what waits where
  said,          \* the conversation so far
  gone           \* messages taken back or lost

inboxVars == <<box, said, gone>>

Elements(s) == {s[i] : i \in DOMAIN s}
Waiting == UNION {Elements(box[b]) : b \in Boxes}
Known == Waiting \cup Elements(said) \cup gone

Init == box = [b \in Boxes |-> <<>>] /\ said = <<>> /\ gone = {}

Say(m) ==
  /\ m \notin Known
  /\ said' = Append(said, m)
  /\ UNCHANGED <<box, gone>>

Put(m, b) ==
  /\ m \notin Known
  /\ box' = [box EXCEPT ![b] = Append(@, m)]
  /\ UNCHANGED <<said, gone>>

\* What ends the wait of one box may be the end of fragile ones.
SayBox(b) ==
  \E lost \in SUBSET (Fragile \ {b}) :
    /\ said' = said \o box[b]
    /\ box' = [c \in Boxes |-> IF c \in lost \cup {b} THEN <<>> ELSE box[c]]
    /\ gone' = gone \cup UNION {Elements(box[c]) : c \in lost}

Pour(from, into) ==
  /\ from # into
  /\ \E joined \in {box[from] \o box[into], box[into] \o box[from]} :
       box' = [box EXCEPT ![from] = <<>>, ![into] = joined]
  /\ UNCHANGED <<said, gone>>

TakeBack(b) ==
  /\ \E kept \in 0 .. Len(box[b]) :
       LET back == Elements(SubSeq(box[b], kept + 1, Len(box[b]))) IN
       /\ back \subseteq Retractable
       /\ box' = [box EXCEPT ![b] = SubSeq(@, 1, kept)]
       /\ gone' = gone \cup back
  /\ UNCHANGED said

Lose(b) ==
  /\ b \in Fragile
  /\ gone' = gone \cup Elements(box[b])
  /\ box' = [box EXCEPT ![b] = <<>>]
  /\ UNCHANGED said

Next ==
  \/ \E m \in Msgs : Say(m) \/ \E b \in Boxes : Put(m, b)
  \/ \E b \in Boxes : SayBox(b) \/ TakeBack(b) \/ Lose(b)
  \/ \E from, into \in Boxes : Pour(from, into)

Spec == Init /\ [][Next]_inboxVars
================================================================================
