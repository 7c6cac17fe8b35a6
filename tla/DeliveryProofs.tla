--------------------------- MODULE DeliveryProofs ---------------------------
(***************************************************************************)
(* Proofs about the delivery of hook events: the inductive invariant IInv  *)
(* of Delivery, from which AckedIsHanded follows, and the implementation   *)
(* of EventFeed.                                                           *)
(***************************************************************************)
EXTENDS Delivery, SequenceTheorems, TLAPS

-----------------------------------------------------------------------------
(* Cursors and the spool.                                                  *)

Msg == [at : Cursor, gen : Gens \cup {0}]

\* Cursors are ordered totally, by day and then by offset.
LEMMA CursorOrder ==
  /\ \A a \in Cursor : AtMost(a, a)
  /\ \A a, b \in Cursor : Before(a, b) <=> ~AtMost(b, a)
  /\ \A a, b \in Cursor : AtMost(a, b) /\ AtMost(b, a) => a = b
  /\ \A a, b, c \in Cursor : AtMost(a, b) /\ AtMost(b, c) => AtMost(a, c)
  /\ \A a, b \in Cursor : AtMost(a, b) => a.day <= b.day
  /\ \A a, b \in Cursor : a.day < b.day => Before(a, b)
  BY DEF Cursor, AtMost, Before

\* The events of the spool, spelt out.
LEMMA EventsDef ==
  ASSUME files \in [Days -> Seq(Record)]
  PROVE  \A c : c \in Events <=> /\ c \in Cursor /\ c.day \in Days
                                 /\ c.off \in 1 .. Len(files[c.day])
                                 /\ files[c.day][c.off].reported
  <1>1. \A d \in Days : Len(files[d]) \in Nat
    BY LenProperties
  <1>2. \A c : c \in Written <=> /\ c \in Cursor /\ c.day \in Days
                                 /\ c.off \in 1 .. Len(files[c.day])
    BY <1>1 DEF Written, make_cursor, Cursor, Days
  <1> QED
    BY <1>2 DEF Events, LineAt

\* The same of the next state.
LEMMA EventsDefP ==
  ASSUME files' \in [Days -> Seq(Record)]
  PROVE  \A c : c \in Events' <=> /\ c \in Cursor /\ c.day \in Days
                                  /\ c.off \in 1 .. Len(files'[c.day])
                                  /\ files'[c.day][c.off].reported
  <1>1. \A d \in Days : Len(files'[d]) \in Nat
    BY LenProperties
  <1>2. \A c : c \in Written' <=> /\ c \in Cursor /\ c.day \in Days
                                  /\ c.off \in 1 .. Len(files'[c.day])
    BY <1>1 DEF Written, make_cursor, Cursor, Days
  <1> QED
    BY <1>2 DEF Events, LineAt

\* What is in the queue is a cursor with its generation.
LEMMA QueueType ==
  ASSUME TypeOK
  PROVE  \A k \in DOMAIN queue : queue[k].at \in Cursor
  <1>1. queue \in Seq(Msg)
    BY DEF TypeOK, Msg
  <1>2. \A k \in DOMAIN queue : queue[k] \in Msg
    BY <1>1, ElementOfSeq, LenProperties
  <1> QED
    BY <1>2 DEF Msg

\* The cursors of the lines that were written.
LEMMA WrittenDef ==
  ASSUME files \in [Days -> Seq(Record)]
  PROVE  \A c : c \in Written <=> /\ c \in Cursor /\ c.day \in Days
                                  /\ c.off \in 1 .. Len(files[c.day])
  <1>1. \A d \in Days : Len(files[d]) \in Nat
    BY LenProperties
  <1> QED
    BY <1>1 DEF Written, make_cursor, Cursor, Days

\* Actions that leave the spool and the clock alone.
LEMMA HostFrame ==
  ASSUME UNCHANGED hostVars
  PROVE  /\ Events' = Events /\ TooOld' = TooOld
         /\ \A c : Past(c)' <=> Past(c)
         /\ \A c : LineAt(c)' = LineAt(c)
         /\ Stamps' <=> Stamps
  BY DEF hostVars, Events, Written, TooOld, Past, LineAt, GraceOver, Stamps

\* An event that is not after a past cursor is past itself.
LEMMA PastDown ==
  ASSUME TypeOK, NEW c \in Events, NEW q \in Cursor, Past(q), AtMost(c, q)
  PROVE  Past(c)
  <1>1. /\ c \in Cursor /\ c.day \in Days
        /\ c.off \in 1 .. Len(files[c.day])
    BY EventsDef DEF TypeOK
  <1> QED
    BY <1>1 DEF Past, AtMost, GraceOver, Cursor, Days, TypeOK

\* Actions of a session that only move cursors about: what is to be shown.
LEMMA AppFrame ==
  ASSUME UNCHANGED <<hostVars, applied, dropped, queue>>
  PROVE  /\ Gone' = Gone /\ Queued' = Queued
         /\ \A q : Covered(q)' <=> Covered(q)
  BY HostFrame DEF Gone, Queued, Covered

\* Order depends on nothing but the files and what the app holds.
LEMMA OrderFrame ==
  ASSUME Order, UNCHANGED <<hostVars, applied, dropped, queue, last>>
  PROVE  Order'
  BY HostFrame, AppFrame DEF Order

-----------------------------------------------------------------------------
\* Nothing was written, acknowledged or sent at first.
LEMMA InitInv == Init => IInv
  <1> SUFFICES ASSUME Init PROVE IInv
    OBVIOUS
  <1>1. TypeOK
    <2>1. <<>> \in Seq(Record) /\ <<>> \in Seq(Msg)
      OBVIOUS
    <2>2. Origin \in Cursor /\ 1 \in Days /\ 0 \in 0 .. MaxGen /\ 0 \in 0 .. MaxFaults
      BY DeliveryAssumption DEF Origin, Cursor, Days
    <2> QED
      BY <2>1, <2>2 DEF Init, TypeOK, Msg
  <1>2. Events = {} /\ DOMAIN queue = {}
    BY <1>1, EventsDef DEF Init, TypeOK
  <1>3. Stamps
    BY DEF Init, Stamps
  <1>4. Links
    BY <1>2 DEF Init, Links, Past, Covered, Origin
  <1>5. Order
    BY <1>2 DEF Init, Order, Past, Origin
  <1> QED
    BY <1>1, <1>3, <1>4, <1>5 DEF IInv

\* A hook stamps its record with the day it is.
LEMMA StampInv ==
  ASSUME IInv, NEW p \in Panes, NEW r \in BOOLEAN, Stamp(p, r)
  PROVE  IInv'
  <1> USE DEF IInv, Stamp
  <1>1. TypeOK'
    BY DEF TypeOK, Hook, sessVars, appVars
  <1>2. Stamps'
    BY DEF Stamps, TypeOK
  <1>3. /\ Events' = Events /\ TooOld' = TooOld /\ Gone' = Gone /\ Queued' = Queued
        /\ \A c : (Past(c)' <=> Past(c)) /\ LineAt(c)' = LineAt(c)
        /\ \A c : Covered(c)' <=> Covered(c)
    BY DEF Events, Written, TooOld, Past, LineAt, GraceOver, Gone, Queued, Covered, appVars
  <1>4. Links'
    BY <1>3 DEF Links, sessVars
  <1>5. Order'
    BY <1>3 DEF Order, appVars
  <1> QED
    BY <1>1, <1>2, <1>4, <1>5

\* A line that a hook appends comes after every past cursor.
LEMMA AppendedIsNew ==
  ASSUME TypeOK, Stamps, NEW h \in stamped, NEW q \in Cursor, Past(q)
  PROVE  Before(q, make_cursor(h.day, Len(files[h.day]) + 1))
  <1>1. h.day \in Days /\ Len(files[h.day]) \in Nat
    BY LenProperties DEF TypeOK, Hook
  <1>2. h.day = today \/ (h.day + 1 = today /\ grace)
    BY DEF Stamps
  <1> QED
    BY <1>1, <1>2 DEF Past, Before, make_cursor, GraceOver, Cursor, Days, TypeOK

\* What a hook's append does to the spool: one line more, and every earlier
\* line stays where and what it is.
LEMMA Appended ==
  ASSUME IInv, NEW h \in stamped, HookAppend(h),
         NEW x, x = make_cursor(h.day, Len(files[h.day]) + 1)
  PROVE  /\ x \in Cursor /\ x \notin Events
         /\ files' \in [Days -> Seq(Record)]
         /\ \A d \in Days : Len(files[d]) \in Nat /\ Len(files[d]) <= Len(files'[d])
         /\ Events \subseteq Events' /\ Events' \subseteq Events \cup {x}
         /\ \A c \in Events : LineAt(c)' = LineAt(c)
         /\ x.day = h.day /\ LineAt(x)'.pane = h.pane /\ (x \in Events' <=> h.reported)
  <1> USE DEF IInv
  <1> DEFINE line == [pane |-> h.pane, reported |-> h.reported]
  <1>1. /\ h.day \in Days /\ line \in Record
        /\ files \in [Days -> Seq(Record)] /\ files[h.day] \in Seq(Record)
        /\ files' = [files EXCEPT ![h.day] = Append(files[h.day], line)]
    BY DEF TypeOK, Hook, Record, HookAppend
  <1>2. /\ Append(files[h.day], line) \in Seq(Record)
        /\ Len(Append(files[h.day], line)) = Len(files[h.day]) + 1
        /\ Len(files[h.day]) \in Nat
        /\ \A k \in 1 .. Len(files[h.day]) : Append(files[h.day], line)[k] = files[h.day][k]
        /\ Append(files[h.day], line)[Len(files[h.day]) + 1] = line
    BY <1>1, AppendProperties, LenProperties
  <1>3. files' \in [Days -> Seq(Record)]
    BY <1>1, <1>2
  <1>4. /\ \A d \in Days : Len(files[d]) \in Nat /\ Len(files'[d]) \in Nat
        /\ \A d \in Days : Len(files[d]) <= Len(files'[d])
        /\ \A d \in Days : \A k \in 1 .. Len(files[d]) : files'[d][k] = files[d][k]
    BY <1>1, <1>2, LenProperties
  <1>5. /\ x \in Cursor /\ x.day = h.day /\ x.off = Len(files[h.day]) + 1
        /\ Len(files'[h.day]) = Len(files[h.day]) + 1
        /\ files'[x.day][x.off] = line
    BY <1>1, <1>2 DEF make_cursor, Cursor, Days
  <1>6. Events \subseteq Events' /\ Events' \subseteq Events \cup {x}
    <2>1. ASSUME NEW c \in Events PROVE c \in Events'
      <3>1. /\ c \in Cursor /\ c.day \in Days /\ c.off \in 1 .. Len(files[c.day])
            /\ files[c.day][c.off].reported
        BY <1>1, EventsDef
      <3>2. c.off \in 1 .. Len(files'[c.day]) /\ files'[c.day][c.off].reported
        BY <3>1, <1>4
      <3> QED
        BY <1>3, <3>1, <3>2, EventsDefP
    <2>2. ASSUME NEW c \in Events', c # x PROVE c \in Events
      <3>1. /\ c \in Cursor /\ c.day \in Days /\ c.off \in 1 .. Len(files'[c.day])
            /\ files'[c.day][c.off].reported
        BY <1>3, EventsDefP
      <3>2. c.off \in 1 .. Len(files[c.day])
        BY <1>1, <1>2, <2>2, <3>1 DEF make_cursor, Cursor
      <3> QED
        BY <1>1, <1>4, <3>1, <3>2, EventsDef
    <2> QED
      BY <2>1, <2>2
  <1>7. \A c \in Events : LineAt(c)' = LineAt(c)
    BY <1>1, <1>4, EventsDef DEF LineAt
  <1>8. x \notin Events
    BY <1>1, <1>2, <1>5, EventsDef
  <1>9. LineAt(x)'.pane = h.pane
    BY <1>5 DEF LineAt
  <1>10. x \in Events' <=> h.reported
    BY <1>1, <1>2, <1>3, <1>5, EventsDefP
  <1> QED
    BY <1>3, <1>4, <1>5, <1>6, <1>7, <1>8, <1>9, <1>10

\* A line appended late is past no cursor: the grace of its day is not over.
LEMMA HookAppendInv ==
  ASSUME IInv, NEW h \in stamped, HookAppend(h)
  PROVE  IInv'
  <1> USE DEF IInv
  <1> DEFINE x == make_cursor(h.day, Len(files[h.day]) + 1)
  <1>3. TypeOK'
    <2>1. files' \in [Days -> Seq(Record)]
      BY Appended
    <2> QED
      BY <2>1 DEF TypeOK, HookAppend, sessVars, appVars
  <1>4. \A d \in Days : Len(files[d]) \in Nat /\ Len(files'[d]) \in Nat
                         /\ Len(files[d]) <= Len(files'[d])
    BY <1>3, Appended, LenProperties DEF TypeOK
  <1>5. \A c \in Cursor : Past(c) => Past(c)'
    BY <1>4 DEF Past, GraceOver, HookAppend, Cursor
  <1>6. Events \subseteq Events' /\ Events' \subseteq Events \cup {x}
    BY Appended
  <1>7. \A c \in Events : LineAt(c)' = LineAt(c)
    BY Appended
  <1>8. \A q \in Cursor : Past(q) => Before(q, x)
    BY AppendedIsNew
  <1>9. Gone \subseteq Gone' /\ Queued' = Queued
    BY <1>6 DEF Gone, TooOld, Queued, HookAppend, appVars
  <1>10. x \in Cursor
    BY Appended
  <1> HIDE DEF x
  <1>11. \A q \in Cursor, c \in Events' : Past(q) /\ AtMost(c, q) => c \in Events
    BY <1>6, <1>8, <1>10, CursorOrder
  <1>12. Stamps'
    BY DEF Stamps, HookAppend
  <1>13. Links'
    <2>1. UNCHANGED <<ack, acks, read, inbox, app>>
      BY DEF HookAppend, sessVars
    <2>2. ack \in Cursor /\ \A s \in Sessions : read[s] \in Cursor /\ acks[s] \subseteq Cursor
      BY DEF TypeOK
    <2>3. \A q \in Cursor : Past(q) /\ Covered(q) => Covered(q)'
      BY <1>9, <1>11 DEF Covered
    <2> QED
      BY <1>5, <1>6, <1>9, <1>11, <2>1, <2>2, <2>3 DEF Links
  <1>14. Order'
    <2>1. UNCHANGED <<queue, last, applied, dropped>>
      BY DEF HookAppend, appVars
    <2>2. /\ \A k \in DOMAIN queue : queue[k].at \in Cursor
          /\ \A p \in Panes : last[p] \in Cursor
      BY QueueType DEF TypeOK
    <2>3. ASSUME NEW k \in DOMAIN queue
          PROVE  /\ queue[k].at \in Events' /\ Past(queue[k].at)'
                 /\ \A c \in Events' : AtMost(c, queue[k].at)
                      => c \in Gone' \/ \E j \in 1 .. k : queue[j].at = c
      <3>1. queue[k].at \in Events /\ Past(queue[k].at) /\ queue[k].at \in Cursor
        BY <2>2 DEF Order
      <3>2. Past(queue[k].at)'
        BY <1>5, <2>1, <3>1
      <3>3. ASSUME NEW c \in Events', AtMost(c, queue[k].at)
            PROVE  c \in Gone' \/ \E j \in 1 .. k : queue[j].at = c
        BY <1>9, <1>11, <3>1, <3>3 DEF Order
      <3> QED
        BY <1>6, <3>1, <3>2, <3>3
    <2>4. \A p \in Panes : Past(last[p])'
      BY <1>5, <2>1, <2>2 DEF Order
    <2>5. ASSUME NEW c \in Events', AtMost(c, last[LineAt(c)'.pane])
          PROVE  c \in Gone'
      <3>1. LineAt(c)'.pane \in Panes
        <4>1. files'[c.day][c.off] \in Record
          BY <1>3, EventsDefP, ElementOfSeq DEF TypeOK
        <4> QED
          BY <4>1 DEF LineAt, Record
      <3>2. c \in Events
        BY <1>11, <2>2, <2>5, <3>1 DEF Order
      <3> QED
        BY <1>7, <1>9, <2>5, <3>2 DEF Order
    <2> QED
      BY <1>6, <1>7, <2>1, <2>3, <2>4, <2>5 DEF Order
  <1> QED
    BY <1>3, <1>12, <1>13, <1>14

\* A day's grace ends only when nothing of the day before is still to come.
LEMMA ClockInv == ASSUME IInv, Clock PROVE IInv'
  <1> USE DEF IInv
  <1>1. TypeOK'
    <2>1. today' \in Days
      BY DeliveryAssumption DEF TypeOK, Clock, Days
    <2>2. grace' \in BOOLEAN
      BY DEF TypeOK, Clock
    <2> QED
      BY <2>1, <2>2 DEF TypeOK, Clock, sessVars, appVars
  <1>2. \A d \in Days : GraceOver(d) => GraceOver(d)'
    BY DEF TypeOK, Clock, GraceOver, Days
  <1>3. \A c : Past(c) => Past(c)'
    BY <1>2 DEF Past, Clock
  <1>4. /\ Events' = Events /\ TooOld' = TooOld /\ Gone' = Gone /\ Queued' = Queued
        /\ \A c : LineAt(c)' = LineAt(c)
        /\ \A c : Covered(c)' <=> Covered(c)
    BY DEF Events, Written, TooOld, LineAt, Gone, Queued, Covered, Clock, appVars
  <1>5. Stamps'
    <2>1. CASE grace
      BY <2>1 DEF Stamps, Clock, TypeOK
    <2>2. CASE ~grace
      BY <2>2, DeliveryAssumption DEF Stamps, Clock, TypeOK, Days
    <2> QED
      BY <2>1, <2>2
  <1>6. Links'
    BY <1>3, <1>4 DEF Links, Clock, sessVars
  <1>7. Order'
    BY <1>3, <1>4 DEF Order, Clock, appVars
  <1> QED
    BY <1>1, <1>5, <1>6, <1>7

\* What a serve sends is all there is between its old and its new cursor.
LEMMA TickInv == ASSUME IInv, NEW s \in Sessions, Tick(s) PROVE IInv'
  <1> USE DEF IInv
  <1> DEFINE new == ReadAfter(read[s], deleted')
  <1>1. PICK end \in new \cup {read[s]} :
          /\ \A c \in new : AtMost(c, end)
          /\ read' = [read EXCEPT ![s] = end]
    BY DEF Tick
  <1>2. /\ inbox' = [inbox EXCEPT ![s] = @ \cup (new \cap Events)]
        /\ UNCHANGED <<today, grace, stamped, files, ack, probe, acks, app, queue, last,
                       applied, dropped>>
        /\ app[s]
    BY DEF Tick, appVars
  <1>3. /\ deleted \subseteq deleted' /\ deleted' \subseteq Days
        /\ \A d \in deleted' : d \in deleted \/ d + KeepDays < today
    BY DEF Tick, Expired, TypeOK
  <1>4. /\ Events' = Events /\ Written' = Written /\ Queued' = Queued
        /\ \A c : LineAt(c)' = LineAt(c)
        /\ \A c : Past(c)' <=> Past(c)
    BY <1>2 DEF Events, Written, LineAt, Queued, Past, GraceOver
  <1>5. Gone \subseteq Gone' /\ \A c \in Events : c.day \in deleted' => c \in Gone'
    BY <1>2, <1>3, <1>4 DEF Gone, TooOld
  <1>6. \A c : c \in new <=> /\ c \in Written /\ Before(read[s], c)
                             /\ c.day \notin deleted'
                             /\ (c.day > read[s].day => GraceOver(c.day))
    BY DEF ReadAfter
  <1>7. /\ \A c : c \in Written <=> /\ c \in Cursor /\ c.day \in Days
                                    /\ c.off \in 1 .. Len(files[c.day])
        /\ Events \subseteq Written
    BY WrittenDef DEF TypeOK, Events
  <1> HIDE DEF new
  <1>8. /\ read[s] \in Cursor /\ end \in Cursor
        /\ \A c \in Events : c \in Cursor /\ c.day \in Days
    <2>1. read[s] \in Cursor
      BY DEF TypeOK
    <2>2. \A c \in new : c \in Cursor
      BY <1>6, <1>7
    <2> QED
      BY <1>1, <1>7, <2>1, <2>2
  <1>9. AtMost(read[s], end)
    <2>1. \A c \in new : Before(read[s], c) /\ c \in Cursor
      BY <1>6, <1>7
    <2> QED
      BY <1>1, <1>8, <2>1 DEF Before, AtMost, Cursor
  <1>10. Past(end)
    <2>1. CASE end = read[s]
      BY <2>1 DEF Links
    <2>2. CASE end \in new
      <3>1. Past(read[s])
        BY DEF Links
      <3> QED
        BY <1>6, <1>7, <1>8, <2>2, <3>1 DEF Past, Before, Cursor, Days
    <2> QED
      BY <1>1, <2>1, <2>2
  <1>11. ASSUME NEW c \in Events, AtMost(c, end)
         PROVE  c \in Gone' \cup Queued' \cup inbox'[s]
    <2>1. CASE AtMost(c, read[s])
      BY <1>2, <1>4, <1>5, <2>1 DEF Links, TypeOK
    <2>2. CASE ~AtMost(c, read[s]) /\ c.day \notin deleted'
      <3>1. Before(read[s], c)
        BY <1>8, <2>2, CursorOrder
      <3>2. GraceOver(c.day)
        BY <1>8, <1>10, <1>11 DEF Past, AtMost, GraceOver, Cursor, Days, TypeOK
      <3>3. c \in new
        BY <1>6, <1>7, <2>2, <3>1, <3>2
      <3> QED
        BY <1>2, <3>3 DEF TypeOK
    <2> QED
      BY <1>5, <2>1, <2>2
  <1>12. ASSUME NEW c \in inbox'[s] PROVE c \in Events /\ AtMost(c, end)
    <2>1. CASE c \in inbox[s]
      BY <1>8, <1>9, <2>1, CursorOrder DEF Links
    <2>2. CASE c \in new \cap Events
      BY <1>1, <2>2
    <2> QED
      BY <1>2, <2>1, <2>2 DEF TypeOK
  <1>13. TypeOK'
    <2>1. read' \in [Sessions -> Cursor] /\ inbox' \in [Sessions -> SUBSET Cursor]
      BY <1>1, <1>2, <1>8 DEF TypeOK
    <2> QED
      BY <1>3, <2>1 DEF TypeOK, Tick, appVars
  <1>14. Stamps'
    BY <1>2, <1>3 DEF Stamps
  <1>15. Links'
    <2>1. \A q : Covered(q) => Covered(q)'
      BY <1>4, <1>5 DEF Covered
    <2>2. Past(ack)' /\ Covered(ack)'
      BY <1>2, <1>4, <2>1 DEF Links
    <2>3. \A t \in Sessions, a \in Cursor :
            a \in acks'[t] => a \in Events' /\ Past(a)' /\ Covered(a)'
      BY <1>2, <1>4, <2>1 DEF Links
    <2>4. ASSUME NEW t \in Sessions
          PROVE  /\ Past(read[t])'
                 /\ \A c \in Events' : app'[t] /\ AtMost(c, read'[t])
                                        => c \in Gone' \cup Queued' \cup inbox'[t]
                 /\ \A c \in inbox'[t] : app'[t] /\ c \in Events' /\ AtMost(c, read'[t])
      <3>1. CASE t = s
        <4>1. read'[t] = end
          BY <1>1, <3>1 DEF TypeOK
        <4>2. Past(read[t])'
          BY <1>4, <1>10, <4>1
        <4> QED
          BY <1>2, <1>4, <1>11, <1>12, <3>1, <4>1, <4>2
      <3>2. CASE t # s
        <4>1. read'[t] = read[t] /\ inbox'[t] = inbox[t]
          BY <1>1, <1>2, <3>2 DEF TypeOK
        <4>2. Past(read[t])'
          BY <1>4, <4>1 DEF Links
        <4> QED
          BY <1>2, <1>4, <1>5, <4>1, <4>2 DEF Links
      <3> QED
        BY <3>1, <3>2
    <2>5. \A t \in Sessions : acks'[t] \subseteq Cursor
      BY <1>2 DEF TypeOK
    <2> QED
      BY <2>2, <2>3, <2>4, <2>5 DEF Links
  <1>16. Order'
    BY <1>2, <1>4, <1>5 DEF Order
  <1> QED
    BY <1>13, <1>14, <1>15, <1>16

\* A cursor that was acknowledged is covered when it is stored, too.
LEMMA StoreAckInv == ASSUME IInv, NEW s \in Sessions, StoreAck(s) PROVE IInv'
  <1> USE DEF IInv
  <1>1. UNCHANGED <<hostVars, probe, read, inbox, app, owner, appVars, faults>>
    BY DEF StoreAck
  <1>2. PICK a \in acks[s] : /\ acks' = [acks EXCEPT ![s] = @ \ {a}]
                             /\ ack' = a \/ ack' = ack
    BY DEF StoreAck
  <1>3. TypeOK'
    BY <1>1, <1>2 DEF TypeOK, hostVars, appVars
  <1>4. UNCHANGED <<hostVars, applied, dropped, queue, last>>
    BY <1>1 DEF appVars
  <1>5. /\ Events' = Events /\ Gone' = Gone /\ Queued' = Queued
        /\ \A q : (Past(q)' <=> Past(q)) /\ (Covered(q)' <=> Covered(q))
    BY <1>4, HostFrame, AppFrame
  <1>6. Past(ack)' /\ Covered(ack)'
    <2>1. Past(ack') /\ Covered(ack')
      BY <1>2 DEF Links
    <2> QED
      BY <1>5, <2>1
  <1>7. \A t \in Sessions : acks'[t] \subseteq acks[t]
    BY <1>2 DEF TypeOK
  <1>8. Links'
    BY <1>1, <1>5, <1>6, <1>7 DEF Links
  <1>9. Stamps' /\ Order'
    BY <1>4, HostFrame, OrderFrame
  <1> QED
    BY <1>3, <1>8, <1>9

\* Actions that hang up some sessions, end some serve processes, or start one
\* at the ack, and touch nothing else of what the invariant is about.
LEMMA SessionInv ==
  ASSUME IInv, UNCHANGED <<hostVars, ack, applied, dropped, queue, last>>,
         \A s \in Sessions :
           /\ acks'[s] \subseteq acks[s]
           /\ \/ read'[s] = Origin /\ ~app'[s] /\ inbox'[s] = {}
              \/ read'[s] = ack /\ inbox'[s] \subseteq inbox[s] /\ inbox[s] = {}
              \/ read'[s] = read[s] /\ inbox'[s] = inbox[s] /\ app'[s] = app[s]
  PROVE  Stamps' /\ Links' /\ Order'
  <1> USE DEF IInv
  <1>1. /\ Events' = Events /\ Gone' = Gone /\ Queued' = Queued
        /\ \A q : (Past(q)' <=> Past(q)) /\ (Covered(q)' <=> Covered(q))
    BY HostFrame, AppFrame
  <1>2. ASSUME NEW s \in Sessions
        PROVE  /\ Past(read'[s])
               /\ \A c \in Events : app'[s] /\ AtMost(c, read'[s])
                                     => c \in Gone \cup Queued \cup inbox'[s]
               /\ \A c \in inbox'[s] : app'[s] /\ c \in Events /\ AtMost(c, read'[s])
    <2>1. CASE read'[s] = Origin /\ ~app'[s] /\ inbox'[s] = {}
      BY <2>1 DEF Past, Origin
    <2>2. CASE read'[s] = ack /\ inbox'[s] \subseteq inbox[s] /\ inbox[s] = {}
      BY <2>2 DEF Links, Covered
    <2>3. CASE read'[s] = read[s] /\ inbox'[s] = inbox[s] /\ app'[s] = app[s]
      BY <2>3 DEF Links
    <2> QED
      BY <2>1, <2>2, <2>3
  <1>3. \A s \in Sessions : Past(read[s])'
    BY <1>1, <1>2
  <1>4. \A s \in Sessions : \A a \in acks'[s] : a \in Events /\ Past(a)' /\ Covered(a)'
    BY <1>1 DEF Links
  <1>5. Past(ack)' /\ Covered(ack)'
    BY <1>1 DEF Links
  <1>6. Links'
    BY <1>1, <1>2, <1>3, <1>4, <1>5 DEF Links
  <1> QED
    BY <1>6, HostFrame, OrderFrame

\* Hanging up leaves the links well-typed.
LEMMA HangUpType ==
  ASSUME TypeOK, NEW S, HangUp(S)
  PROVE  /\ app' \in [Sessions -> BOOLEAN] /\ owner' \in [Sessions -> Gens \cup {0}]
         /\ read' \in [Sessions -> Cursor] /\ inbox' \in [Sessions -> SUBSET Cursor]
         /\ \A s \in Sessions :
              \/ read'[s] = Origin /\ ~app'[s] /\ inbox'[s] = {}
              \/ read'[s] = read[s] /\ inbox'[s] = inbox[s] /\ app'[s] = app[s]
  <1>1. Origin \in Cursor
    BY DEF Origin, Cursor
  <1> QED
    BY <1>1 DEF HangUp, TypeOK

\* Faults are bounded.
LEMMA FaultType == ASSUME TypeOK, Fault PROVE faults' \in 0 .. MaxFaults
  BY DeliveryAssumption DEF TypeOK, Fault

\* A serve process that ends takes its unhandled acknowledgements along.
LEMMA ServeEndsInv == ASSUME IInv, NEW s \in Sessions, ServeEnds(s) PROVE IInv'
  <1>1. TypeOK'
    BY FaultType DEF IInv, TypeOK, ServeEnds, hostVars, appVars
  <1>2. UNCHANGED <<hostVars, ack, applied, dropped, queue, last, read, inbox, app>>
    BY DEF ServeEnds, appVars
  <1>3. \A t \in Sessions : acks'[t] \subseteq acks[t]
    BY DEF IInv, TypeOK, ServeEnds
  <1> QED
    BY <1>1, <1>2, <1>3, SessionInv DEF IInv

\* A new serve starts at the stored cursor, which is covered.
LEMMA ConnectInv ==
  ASSUME IInv, NEW g \in Gens, NEW s \in Sessions, Connect(g, s)
  PROVE  IInv'
  <1>1. ~app[s]
    BY DEF Connect, First
  <1>2. TypeOK'
    BY FaultType DEF IInv, TypeOK, Connect, hostVars, appVars
  <1>3. UNCHANGED <<hostVars, ack, applied, dropped, queue, last, inbox>>
    BY DEF Connect, appVars
  <1>4. \A t \in Sessions : acks'[t] \subseteq acks[t]
    BY DEF IInv, TypeOK, Connect
  <1>5. inbox[s] = {}
    BY <1>1 DEF IInv, Links
  <1>6. ASSUME NEW t \in Sessions
        PROVE  \/ read'[t] = ack /\ inbox'[t] \subseteq inbox[t] /\ inbox[t] = {}
               \/ read'[t] = read[t] /\ inbox'[t] = inbox[t] /\ app'[t] = app[t]
    BY <1>3, <1>5 DEF IInv, TypeOK, Connect
  <1> QED
    BY <1>2, <1>3, <1>4, <1>6, SessionInv DEF IInv

\* What was on a lost link is after the stored cursor, or handed already.
LEMMA LinkLostInv == ASSUME IInv, NEW s \in Sessions, LinkLost(s) PROVE IInv'
  <1>1. TypeOK'
    BY FaultType, HangUpType DEF IInv, TypeOK, LinkLost, hostVars, appVars
  <1>2. UNCHANGED <<hostVars, ack, applied, dropped, queue, last, acks>>
    BY DEF LinkLost, appVars
  <1> QED
    BY <1>1, <1>2, SessionInv, HangUpType DEF IInv, LinkLost

\* A host task that stops hangs up.
LEMMA TaskStopsInv == ASSUME IInv, NEW g \in Gens, TaskStops(g) PROVE IInv'
  <1>1. TypeOK'
    BY HangUpType DEF IInv, TypeOK, TaskStops, hostVars
  <1>2. UNCHANGED <<hostVars, ack, applied, dropped, queue, last, acks>>
    BY DEF TaskStops
  <1> QED
    BY <1>1, <1>2, SessionInv, HangUpType DEF IInv, TaskStops

\* An event is in the monitor's queue before its acknowledgement is sent.
LEMMA HostRecvInv == ASSUME IInv, NEW s \in Sessions, HostRecv(s) PROVE IInv'
  <1> USE DEF IInv
  <1>1. PICK m \in inbox[s] :
          /\ IsOldest(m, inbox[s])
          /\ queue' = Append(queue, [at |-> m, gen |-> owner[s]])
          /\ \/ /\ inbox' = [inbox EXCEPT ![s] = @ \ {m}]
                /\ acks' = IF probe[s] THEN [acks EXCEPT ![s] = @ \cup {m}] ELSE acks
                /\ UNCHANGED <<app, owner, read, faults>>
             \/ Fault /\ HangUp({s}) /\ UNCHANGED acks
    BY DEF HostRecv
  <1>2. UNCHANGED <<hostVars, ack, probe, task, current, added, last, applied, took,
                   dropped>>
    BY DEF HostRecv
  <1>3. /\ queue \in Seq(Msg) /\ [at |-> m, gen |-> owner[s]] \in Msg
        /\ m \in Events /\ AtMost(m, read[s]) /\ app[s]
        /\ m \in Cursor /\ read[s] \in Cursor /\ inbox[s] \subseteq Cursor
    BY <1>1 DEF TypeOK, Msg, Links
  <1>4. /\ queue' \in Seq(Msg) /\ Len(queue) \in Nat /\ Len(queue') = Len(queue) + 1
        /\ DOMAIN queue = 1 .. Len(queue) /\ DOMAIN queue' = 1 .. Len(queue) + 1
        /\ \A k \in 1 .. Len(queue) : queue'[k] = queue[k]
        /\ queue'[Len(queue) + 1].at = m
    <2>1. /\ queue' \in Seq(Msg) /\ Len(queue') = Len(queue) + 1
          /\ \A k \in 1 .. Len(queue) : queue'[k] = queue[k]
          /\ queue'[Len(queue) + 1] = [at |-> m, gen |-> owner[s]]
      BY <1>1, <1>3, AppendProperties
    <2> QED
      BY <1>3, <2>1, LenProperties
  <1>5. TypeOK'
    <2>1. faults' \in 0 .. MaxFaults
      BY <1>1, FaultType DEF TypeOK
    <2>2. /\ app' \in [Sessions -> BOOLEAN] /\ owner' \in [Sessions -> Gens \cup {0}]
          /\ read' \in [Sessions -> Cursor] /\ inbox' \in [Sessions -> SUBSET Cursor]
          /\ acks' \in [Sessions -> SUBSET Cursor]
      <3>1. CASE HangUp({s}) /\ UNCHANGED acks
        <4>1. TypeOK /\ acks \in [Sessions -> SUBSET Cursor]
          BY DEF TypeOK
        <4> HIDE DEF IInv
        <4> QED
          BY <3>1, <4>1, HangUpType
      <3>2. CASE /\ inbox' = [inbox EXCEPT ![s] = @ \ {m}]
                 /\ acks' = IF probe[s] THEN [acks EXCEPT ![s] = @ \cup {m}] ELSE acks
                 /\ UNCHANGED <<app, owner, read, faults>>
        BY <1>3, <3>2 DEF TypeOK
      <3> QED
        BY <1>1, <3>1, <3>2
    <2> QED
      BY <1>2, <1>4, <2>1, <2>2 DEF TypeOK, hostVars, Msg
  <1>6. /\ Events' = Events /\ Gone' = Gone
        /\ \A q : Past(q)' <=> Past(q)
        /\ \A c : LineAt(c)' = LineAt(c)
    BY <1>2, HostFrame DEF Gone
  <1>7. Queued' = Queued \cup {m}
    BY <1>4 DEF Queued
  <1>8. \A q : Covered(q) => Covered(q)'
    BY <1>6, <1>7 DEF Covered
  <1>9. Past(m)
    BY <1>3, PastDown DEF Links
  <1>10. ASSUME NEW c \in Events, AtMost(c, m) PROVE c \in Gone \cup Queued \cup {m}
    <2>1. c \in Cursor
      BY EventsDef DEF TypeOK
    <2>2. AtMost(c, read[s])
      BY <1>3, <1>10, <2>1, CursorOrder
    <2>3. c \in Gone \cup Queued \cup inbox[s]
      BY <1>3, <2>2 DEF Links
    <2> QED
      BY <1>1, <1>3, <1>10, <2>1, <2>3, CursorOrder DEF IsOldest
  <1>11. Covered(m)'
    BY <1>6, <1>7, <1>10 DEF Covered
  <1>12. Past(ack)' /\ Covered(ack)'
    <2>1. Past(ack) /\ Covered(ack)
      BY DEF Links
    <2> QED
      BY <1>2, <1>6, <1>8, <2>1
  <1>13. \A t \in Sessions : \A a \in acks'[t] : a \in Events /\ Past(a)' /\ Covered(a)'
    <2>1. \A t \in Sessions : acks'[t] \subseteq acks[t] \cup {m}
      BY <1>1 DEF TypeOK
    <2> QED
      BY <1>3, <1>6, <1>8, <1>9, <1>11, <2>1 DEF Links
  <1>14. ASSUME NEW t \in Sessions
         PROVE  /\ Past(read'[t])
                /\ \A c \in Events : app'[t] /\ AtMost(c, read'[t])
                                      => c \in Gone \cup Queued' \cup inbox'[t]
                /\ \A c \in inbox'[t] : app'[t] /\ c \in Events /\ AtMost(c, read'[t])
    <2>1. CASE read'[t] = Origin /\ ~app'[t] /\ inbox'[t] = {}
      BY <2>1 DEF Past, Origin
    <2>2. CASE /\ read'[t] = read[t] /\ app'[t] = app[t]
               /\ inbox'[t] = inbox[t] \/ inbox'[t] = inbox[t] \ {m}
      BY <1>7, <2>2 DEF Links
    <2>3. \/ read'[t] = Origin /\ ~app'[t] /\ inbox'[t] = {}
          \/ /\ read'[t] = read[t] /\ app'[t] = app[t]
             /\ inbox'[t] = inbox[t] \/ inbox'[t] = inbox[t] \ {m}
      BY <1>1, HangUpType DEF TypeOK
    <2> QED
      BY <2>1, <2>2, <2>3
  <1>15. \A t \in Sessions : Past(read[t])'
    BY <1>6, <1>14
  <1>16. Links'
    BY <1>6, <1>12, <1>13, <1>14, <1>15 DEF Links
  <1>17. Order'
    <2>1. ASSUME NEW k \in DOMAIN queue'
          PROVE  /\ queue'[k].at \in Events /\ Past(queue'[k].at)
                 /\ \A c \in Events : AtMost(c, queue'[k].at)
                      => c \in Gone \/ \E j \in 1 .. k : queue'[j].at = c
      <3>1. CASE k \in 1 .. Len(queue)
        BY <1>4, <3>1 DEF Order
      <3>2. CASE k = Len(queue) + 1
        <4>1. ASSUME NEW c \in Events, AtMost(c, m)
              PROVE  c \in Gone \/ \E j \in 1 .. k : queue'[j].at = c
          BY <1>4, <1>10, <3>2, <4>1 DEF Queued
        <4> QED
          BY <1>3, <1>4, <1>9, <3>2, <4>1
      <3> QED
        BY <1>4, <2>1, <3>1, <3>2
    <2>2. \A k \in DOMAIN queue' : Past(queue[k].at)'
      BY <1>6, <2>1
    <2>3. \A p \in Panes : Past(last[p])'
      BY <1>2, <1>6 DEF Order
    <2> QED
      BY <1>2, <1>6, <2>1, <2>2, <2>3 DEF Order
  <1>18. Stamps'
    BY <1>2, HostFrame
  <1> QED
    BY <1>5, <1>16, <1>17, <1>18

\* The head of the queue is taken, is known already, or is dropped.
LEMMA MonitorApplyInv == ASSUME IInv, MonitorApply PROVE IInv'
  <1> USE DEF IInv
  <1> DEFINE e == Head(queue)
  <1>1. /\ UNCHANGED <<hostVars, ack, sessVars, task, current, added, faults>>
        /\ queue # <<>> /\ queue' = Tail(queue)
    BY DEF MonitorApply
  <1>2. queue \in Seq(Msg) /\ Len(queue) \in Nat /\ DOMAIN queue = 1 .. Len(queue)
    BY LenProperties DEF TypeOK, Msg
  <1>3. /\ e \in Msg /\ e = queue[1] /\ queue' \in Seq(Msg) /\ 1 \in DOMAIN queue
        /\ DOMAIN queue' = 1 .. Len(queue) - 1
        /\ \A k \in 1 .. Len(queue) - 1 : queue'[k] = queue[k + 1]
    <2>1. /\ e \in Msg /\ queue' \in Seq(Msg) /\ Len(queue') = Len(queue) - 1
          /\ \A k \in 1 .. Len(queue) - 1 : queue'[k] = queue[k + 1]
      BY <1>1, <1>2, HeadTailProperties
    <2>2. e = queue[1]
      BY <1>1, <1>2
    <2>3. DOMAIN queue' = 1 .. Len(queue')
      BY <2>1, LenProperties
    <2>4. Len(queue) # 0
      BY <1>1, <1>2, EmptySeq
    <2> QED
      BY <1>2, <2>1, <2>2, <2>3, <2>4
  <1>4. /\ e.at \in Cursor /\ e.at \in Events /\ Past(e.at)
        /\ \A c \in Events : AtMost(c, e.at) => c \in Gone \cup {e.at}
    <2>1. e.at \in Cursor
      BY <1>3 DEF Msg
    <2>2. /\ queue[1].at \in Events /\ Past(queue[1].at)
          /\ \A c \in Events : AtMost(c, queue[1].at)
               => c \in Gone \/ \E j \in 1 .. 1 : queue[j].at = c
      BY <1>3 DEF Order
    <2> QED
      BY <1>3, <2>1, <2>2
  <1>5. \/ /\ e.gen # current /\ dropped' = dropped \cup {e.at}
           /\ UNCHANGED <<last, applied, took>>
        \/ e.gen = current /\ Seen(e.at) /\ UNCHANGED <<last, applied, took, dropped>>
        \/ /\ e.gen = current /\ ~Seen(e.at)
           /\ last' = [last EXCEPT ![LineAt(e.at).pane] = e.at]
           /\ applied' = applied \cup {e.at}
           /\ took' = took + 1
           /\ UNCHANGED dropped
    BY Zenon DEF MonitorApply
  <1> HIDE DEF e
  <1>6. /\ Events' = Events /\ TooOld' = TooOld
        /\ \A q : Past(q)' <=> Past(q)
        /\ \A c : LineAt(c)' = LineAt(c)
    BY <1>1, HostFrame
  <1>7. \A c \in Events : LineAt(c).pane \in Panes /\ c \in Cursor
    <2>1. \A c \in Events : files[c.day][c.off] \in Record /\ c \in Cursor
      BY EventsDef, ElementOfSeq DEF TypeOK
    <2> QED
      BY <2>1 DEF LineAt, Record
  <1>8. /\ Gone \subseteq Gone' /\ e.at \in Gone' /\ Gone' \subseteq Gone \cup {e.at}
    BY <1>4, <1>5, <1>6 DEF Gone, Order, Seen
  <1>9. Queued \subseteq Queued' \cup {e.at}
    <2>1. ASSUME NEW k \in DOMAIN queue PROVE queue[k].at \in Queued' \cup {e.at}
      <3>1. CASE k = 1
        BY <1>3, <3>1
      <3>2. CASE k # 1
        <4>1. k - 1 \in DOMAIN queue' /\ queue'[k - 1] = queue[k]
          BY <1>2, <1>3, <3>2
        <4> QED
          BY <4>1 DEF Queued
      <3> QED
        BY <3>1, <3>2
    <2> QED
      BY <2>1 DEF Queued
  <1>10. \A q : Covered(q) => Covered(q)'
    BY <1>6, <1>8, <1>9 DEF Covered
  <1>11. Links'
    <2>1. UNCHANGED <<ack, probe, read, inbox, acks, app>>
      BY <1>1 DEF sessVars
    <2> QED
      BY <1>6, <1>8, <1>9, <1>10, <2>1 DEF Links
  <1>12. TypeOK'
    <2>1. /\ last' \in [Panes -> Cursor] /\ took' \in Nat
          /\ applied' \subseteq Cursor /\ dropped' \subseteq Cursor
      BY <1>4, <1>5 DEF TypeOK
    <2>2. UNCHANGED <<today, grace, stamps, stamped, files, deleted, ack, probe, read, inbox,
                      acks, app, owner, task, current, added, faults>>
      BY <1>1 DEF hostVars, sessVars
    <2>3. queue' \in Seq([at : Cursor, gen : Gens \cup {0}])
      BY <1>3 DEF Msg
    <2> QED
      BY <2>1, <2>2, <2>3 DEF TypeOK
  <1>13. Order'
    <2>1. ASSUME NEW k \in DOMAIN queue'
          PROVE  /\ queue'[k].at \in Events /\ Past(queue'[k].at)
                 /\ \A c \in Events : AtMost(c, queue'[k].at)
                      => c \in Gone' \/ \E j \in 1 .. k : queue'[j].at = c
      <3>1. k + 1 \in DOMAIN queue /\ queue'[k] = queue[k + 1] /\ k \in Nat
        BY <1>2, <1>3
      <3>2. ASSUME NEW c \in Events, AtMost(c, queue'[k].at), c \notin Gone'
            PROVE  \E j \in 1 .. k : queue'[j].at = c
        <4>1. PICK j \in 1 .. k + 1 : queue[j].at = c
          BY <1>8, <3>1, <3>2 DEF Order
        <4>2. j # 1
          BY <1>3, <1>8, <3>2, <4>1
        <4>3. j - 1 \in 1 .. k /\ queue'[j - 1] = queue[j]
          BY <1>2, <1>3, <3>1, <4>1, <4>2
        <4> QED
          BY <4>1, <4>3
      <3> QED
        BY <3>1, <3>2 DEF Order
    <2>2. \A k \in DOMAIN queue' : Past(queue[k].at)'
      BY <1>6, <2>1
    <2>3. last' = last \/ /\ last' = [last EXCEPT ![LineAt(e.at).pane] = e.at]
                          /\ ~AtMost(e.at, last[LineAt(e.at).pane])
      BY <1>5 DEF Seen
    <2>4. ASSUME NEW p \in Panes
          PROVE  last'[p] \in {last[p], e.at} /\ AtMost(last[p], last'[p])
      <3>1. last[p] \in Cursor /\ last \in [Panes -> Cursor]
        BY DEF TypeOK
      <3>2. CASE last'[p] = last[p]
        BY <3>1, <3>2, CursorOrder
      <3>3. CASE last'[p] # last[p]
        <4>1. p = LineAt(e.at).pane /\ last'[p] = e.at /\ ~AtMost(e.at, last[p])
          BY <2>3, <3>1, <3>3
        <4> QED
          BY <1>4, <3>1, <4>1 DEF AtMost, Cursor
      <3> QED
        BY <3>2, <3>3
    <2>5. \A p \in Panes : Past(last[p])'
      BY <1>4, <1>6, <2>4 DEF Order
    <2>6. ASSUME NEW c \in Events, AtMost(c, last'[LineAt(c).pane])
          PROVE  c \in Gone'
      BY <1>4, <1>7, <1>8, <2>4, <2>6 DEF Order
    <2>7. ASSUME NEW c \in applied'
          PROVE  c \in Events /\ AtMost(c, last'[LineAt(c).pane])
      <3>1. CASE c \in applied
        <4>1. c \in Events /\ AtMost(c, last[LineAt(c).pane]) /\ LineAt(c).pane \in Panes
          BY <1>7, <3>1 DEF Order
        <4>2. /\ last[LineAt(c).pane] \in Cursor /\ last'[LineAt(c).pane] \in Cursor
              /\ c \in Cursor
          BY <1>7, <1>12, <4>1 DEF TypeOK
        <4> QED
          BY <2>4, <4>1, <4>2, CursorOrder
      <3>2. CASE c \notin applied
        <4>1. c = e.at /\ last' = [last EXCEPT ![LineAt(e.at).pane] = e.at]
          BY <1>5, <2>7, <3>2
        <4> QED
          BY <1>4, <1>7, <4>1, CursorOrder DEF TypeOK
      <3> QED
        BY <3>1, <3>2
    <2>8. dropped' \subseteq Events
      BY <1>4, <1>5 DEF Order
    <2> QED
      BY <1>6, <2>1, <2>2, <2>5, <2>6, <2>7, <2>8 DEF Order
  <1>14. Stamps'
    BY <1>1, HostFrame
  <1> QED
    BY <1>11, <1>12, <1>13, <1>14

\* Adding and removing the host changes no event's whereabouts.
LEMMA HostInv == ASSUME IInv, AddHost \/ RemoveHost PROVE IInv'
  <1>1. TypeOK'
    <2>1. CASE AddHost
      BY <2>1, DeliveryAssumption DEF IInv, TypeOK, AddHost, hostVars, sessVars, Gens
    <2>2. CASE RemoveHost
      BY <2>2 DEF IInv, TypeOK, RemoveHost, hostVars, sessVars
    <2> QED
      BY <2>1, <2>2
  <1>2. UNCHANGED <<hostVars, ack, applied, dropped, queue, last, acks, read, inbox, app>>
    BY DEF AddHost, RemoveHost, sessVars
  <1> QED
    BY <1>1, <1>2, SessionInv DEF IInv

\* A step that changes nothing.
LEMMA StutterInv == ASSUME IInv, UNCHANGED vars PROVE IInv'
  <1>1. TypeOK'
    BY DEF IInv, TypeOK, vars
  <1>2. UNCHANGED <<hostVars, ack, applied, dropped, queue, last, acks, read, inbox, app>>
    BY DEF vars, hostVars
  <1> QED
    BY <1>1, <1>2, SessionInv DEF IInv

\* The invariant is inductive.
LEMMA NextInv == IInv /\ [Next]_vars => IInv'
  <1> SUFFICES ASSUME IInv, [Next]_vars PROVE IInv'
    OBVIOUS
  <1>1. ASSUME NEW s \in Sessions, Session(s) PROVE IInv'
    BY <1>1, TickInv, StoreAckInv, ServeEndsInv, HostRecvInv, LinkLostInv DEF Session
  <1> QED
    BY <1>1, StampInv, HookAppendInv, ClockInv, ConnectInv, TaskStopsInv, HostInv,
       MonitorApplyInv, StutterInv
    DEF Next

\* The inductive invariant holds in every state: hooks only write behind every
\* cursor that was read, sent or acknowledged, and up to each of those cursors
\* no event is missing.
THEOREM Invariance == Spec => []IInv
  BY InitInv, NextInv, PTL DEF Spec

\* Every state of the delivery of hook events is well typed.
THEOREM TypeCorrect == Spec => []TypeOK
  <1>1. IInv => TypeOK
    BY DEF IInv
  <1> QED
    BY <1>1, Invariance, PTL

\* An acknowledged event has reached the monitor, for any number of records,
\* panes, days, connections, overlapping serve processes and failures.
THEOREM AcksAreSafe == Spec => []AckedIsHanded
  <1>1. IInv => AckedIsHanded
    BY DEF IInv, Links, Covered, Gone, AckedIsHanded
  <1> QED
    BY <1>1, Invariance, PTL

-----------------------------------------------------------------------------
(* Delivery implements EventFeed.                                          *)

\* What the members of a tagged set are.
LEMMA TaggedMember ==
  ASSUME NEW S
  PROVE  /\ \A t \in Tagged(S) : t.at \in S /\ t.pane = LineAt(t.at).pane
         /\ \A c \in S : [at |-> c, pane |-> LineAt(c).pane] \in Tagged(S)
  BY DEF Tagged

\* What the feed sees is the spool, what was deleted, taken and dropped.
LEMMA FeedFrame ==
  ASSUME UNCHANGED <<files, deleted, applied, took, dropped>>
  PROVE  UNCHANGED Feed!vars
  <1>1. Events' = Events /\ \A c : LineAt(c)' = LineAt(c)
    BY DEF Events, Written, LineAt
  <1>2. TooOld' = TooOld
    BY <1>1 DEF TooOld
  <1> QED
    BY <1>1, <1>2 DEF Feed!vars, Tagged

\* The feed starts empty.
LEMMA FeedInit == Init => Feed!Init
  <1> SUFFICES ASSUME Init PROVE Feed!Init
    OBVIOUS
  <1>1. Events = {}
    BY InitInv, EventsDef DEF Init, IInv, TypeOK
  <1> QED
    BY <1>1 DEF Feed!Init, Init, Tagged, TooOld

\* An appended line is the feed's Write, if it is reported.
LEMMA FeedHook ==
  ASSUME IInv, NEW h \in stamped, HookAppend(h)
  PROVE  Feed!Next \/ UNCHANGED Feed!vars
  <1>0. PICK x : x = make_cursor(h.day, Len(files[h.day]) + 1)
    OBVIOUS
  <1> DEFINE t == [at |-> x, pane |-> h.pane]
  <1>1. UNCHANGED <<applied, took, dropped, deleted>>
    BY DEF HookAppend, appVars
  <1>2. /\ x \in Cursor /\ x \notin Events /\ x.day = h.day
        /\ Events \subseteq Events' /\ Events' \subseteq Events \cup {x}
        /\ \A c \in Events : LineAt(c)' = LineAt(c)
        /\ LineAt(x)'.pane = h.pane /\ (x \in Events' <=> h.reported)
    BY <1>0, Appended
  <1>3. h.day \notin deleted
    <2>1. h.day \in Nat /\ today \in Nat /\ (h.day = today \/ h.day + 1 = today)
      BY DEF IInv, Stamps, TypeOK, Hook, Days
    <2>2. h.day \in deleted => h.day + KeepDays < today
      BY DEF IInv, Stamps
    <2> QED
      BY <2>1, <2>2, DeliveryAssumption
  <1>4. \A c \in Cursor : Past(c) => Before(c, x)
    BY <1>0, AppendedIsNew DEF IInv
  <1>5. TooOld' = TooOld
    BY <1>1, <1>2, <1>3 DEF TooOld
  <1>6. applied \subseteq Events /\ dropped \subseteq Events /\ TooOld \subseteq Events
    BY DEF IInv, Order, TooOld
  <1>7. /\ Tagged(applied)' = Tagged(applied)
        /\ Tagged(dropped \cup TooOld)' = Tagged(dropped \cup TooOld)
    BY <1>1, <1>2, <1>5, <1>6 DEF Tagged
  <1>8. CASE ~h.reported
    <2>1. Events' = Events
      BY <1>2, <1>8
    <2>2. Tagged(Events)' = Tagged(Events)
      BY <1>2, <2>1 DEF Tagged
    <2> QED
      BY <1>1, <1>7, <2>2 DEF Feed!vars
  <1>9. CASE h.reported
    <2>1. Tagged(Events)' = Tagged(Events) \cup {t}
      BY <1>2, <1>9 DEF Tagged
    <2>2. t \notin Tagged(Events)
      BY <1>2, TaggedMember
    <2>3. ASSUME NEW o \in Tagged(applied) PROVE Before(o.at, t.at)
      <3>1. o.at \in applied /\ o.at \in Events
        BY <1>6, TaggedMember
      <3>2. /\ o.at \in Cursor /\ LineAt(o.at).pane \in Panes
        <4>1. files[o.at.day][o.at.off] \in Record /\ o.at \in Cursor
          BY <3>1, EventsDef, ElementOfSeq DEF IInv, TypeOK
        <4> QED
          BY <4>1 DEF LineAt, Record
      <3>3. AtMost(o.at, last[LineAt(o.at).pane]) /\ Past(last[LineAt(o.at).pane])
        BY <3>1, <3>2 DEF IInv, Order
      <3>4. Past(o.at)
        BY <3>1, <3>2, <3>3, PastDown DEF IInv, TypeOK
      <3> QED
        BY <1>4, <3>2, <3>4
    <2> HIDE DEF t
    <2>4. Feed!Write(t)
      BY <1>1, <1>7, <2>1, <2>2, <2>3 DEF Feed!Write, Feed!Newest, Feed!Before, Before
    <2> QED
      BY <2>1, <2>4 DEF Feed!Next
  <1> QED
    BY <1>8, <1>9

\* Deleting old files is the feed's Lose.
LEMMA FeedTick ==
  ASSUME IInv, NEW s \in Sessions, Tick(s)
  PROVE  Feed!Next
  <1>1. UNCHANGED <<files, applied, took, dropped>> /\ deleted \subseteq deleted'
    BY DEF Tick, appVars
  <1>2. Events' = Events /\ \A c : LineAt(c)' = LineAt(c)
    BY <1>1 DEF Events, Written, LineAt
  <1>3. TooOld \subseteq TooOld' /\ TooOld' \subseteq Events
    BY <1>1, <1>2 DEF TooOld
  <1>4. Tagged(Events)' = Tagged(Events) /\ Tagged(applied)' = Tagged(applied)
    BY <1>1, <1>2 DEF Tagged
  <1>5. Tagged(dropped \cup TooOld)' = Tagged(dropped \cup TooOld) \cup Tagged(TooOld')
    BY <1>1, <1>2, <1>3 DEF Tagged
  <1>6. Tagged(TooOld') \in SUBSET Tagged(Events)
    BY <1>3 DEF Tagged
  <1> QED
    BY <1>1, <1>4, <1>5, <1>6 DEF Feed!Next, Feed!Lose

\* What the tracker does with an event is the feed's Take, Lose or nothing.
LEMMA FeedMonitor ==
  ASSUME IInv, MonitorApply
  PROVE  Feed!Next \/ UNCHANGED Feed!vars
  <1> DEFINE e == Head(queue)
             t == [at |-> e.at, pane |-> LineAt(e.at).pane]
  <1>1. UNCHANGED <<files, deleted>>
    BY DEF MonitorApply, hostVars
  <1>2. /\ e.at \in Cursor /\ e.at \in Events
        /\ \A c \in Events : AtMost(c, e.at) => c \in Gone \cup {e.at}
    <2>1. queue \in Seq(Msg) /\ Len(queue) \in Nat /\ DOMAIN queue = 1 .. Len(queue)
      BY LenProperties DEF IInv, TypeOK, Msg
    <2>2. queue # <<>>
      BY DEF MonitorApply
    <2>3. e \in Msg /\ e = queue[1] /\ 1 \in DOMAIN queue
      <3>1. Len(queue) # 0
        BY <2>1, <2>2, EmptySeq
      <3> QED
        BY <2>1, <2>2, <3>1, HeadTailProperties
    <2>4. /\ queue[1].at \in Events
          /\ \A c \in Events : AtMost(c, queue[1].at)
               => c \in Gone \/ \E j \in 1 .. 1 : queue[j].at = c
      BY <2>3 DEF IInv, Order
    <2> QED
      BY <2>3, <2>4 DEF Msg
  <1>3. \/ dropped' = dropped \cup {e.at} /\ UNCHANGED <<last, applied, took>>
        \/ UNCHANGED <<last, applied, took, dropped>>
        \/ /\ ~Seen(e.at) /\ applied' = applied \cup {e.at} /\ took' = took + 1
           /\ UNCHANGED dropped
    BY Zenon DEF MonitorApply
  <1> HIDE DEF e
  <1>4. Events' = Events /\ TooOld' = TooOld /\ \A c : LineAt(c)' = LineAt(c)
    BY <1>1 DEF Events, Written, LineAt, TooOld
  <1>5. Tagged(Events)' = Tagged(Events) /\ t \in Tagged(Events)
    BY <1>2, <1>4 DEF Tagged
  <1>6. CASE dropped' = dropped \cup {e.at} /\ UNCHANGED <<last, applied, took>>
    <2>1. Tagged(applied)' = Tagged(applied)
      BY <1>4, <1>6 DEF Tagged
    <2>2. Tagged(dropped \cup TooOld)' = Tagged(dropped \cup TooOld) \cup {t}
      BY <1>4, <1>6 DEF Tagged
    <2> QED
      BY <1>5, <1>6, <2>1, <2>2 DEF Feed!Next, Feed!Lose
  <1>7. CASE UNCHANGED <<last, applied, took, dropped>>
    BY <1>1, <1>7, FeedFrame
  <1>8. CASE /\ ~Seen(e.at) /\ applied' = applied \cup {e.at} /\ took' = took + 1
             /\ UNCHANGED dropped
    <2>1. Tagged(applied)' = Tagged(applied) \cup {t}
      BY <1>4, <1>8 DEF Tagged
    <2>2. Tagged(dropped \cup TooOld)' = Tagged(dropped \cup TooOld)
      BY <1>4, <1>8 DEF Tagged
    <2>3. ASSUME NEW c \in Events
          PROVE  c \in Cursor /\ LineAt(c).pane \in Panes /\ last[LineAt(c).pane] \in Cursor
      <3>1. files[c.day][c.off] \in Record /\ c \in Cursor
        BY EventsDef, ElementOfSeq DEF IInv, TypeOK
      <3> QED
        BY <3>1 DEF LineAt, Record, IInv, TypeOK
    <2>4. ASSUME NEW o \in Tagged(applied), o.pane = t.pane PROVE Before(o.at, t.at)
      <3>1. o.at \in applied /\ o.at \in Events /\ o.pane = LineAt(o.at).pane
        BY TaggedMember DEF IInv, Order
      <3>2. AtMost(o.at, last[o.pane]) /\ ~AtMost(e.at, last[o.pane])
        BY <1>8, <2>4, <3>1 DEF Seen, IInv, Order
      <3> QED
        BY <1>2, <2>3, <3>1, <3>2 DEF AtMost, Before, Cursor
    <2>5. ASSUME NEW o \in Tagged(Events), o.pane = t.pane, Before(o.at, t.at)
          PROVE  o \in Tagged(applied) \cup Tagged(dropped \cup TooOld)
      <3>1. o.at \in Events /\ o = [at |-> o.at, pane |-> LineAt(o.at).pane]
        BY DEF Tagged
      <3>2. AtMost(o.at, e.at) /\ o.at # e.at
        BY <1>2, <2>3, <2>5, <3>1 DEF AtMost, Before, Cursor
      <3>3. o.at \in applied \cup (dropped \cup TooOld)
        BY <1>2, <3>1, <3>2 DEF Gone
      <3> QED
        BY <3>1, <3>3 DEF Tagged
    <2> HIDE DEF t
    <2>6. Feed!Take(t)
      BY <1>5, <1>8, <2>1, <2>2, <2>4, <2>5 DEF Feed!Take, Feed!Newest, Feed!Before, Before
    <2> QED
      BY <1>5, <2>6 DEF Feed!Next
  <1> QED
    BY <1>3, <1>6, <1>7, <1>8

\* Every step is a step of the feed or leaves it alone.
LEMMA FeedNext == IInv /\ [Next]_vars => [Feed!Next]_Feed!vars
  <1> SUFFICES ASSUME IInv, [Next]_vars PROVE Feed!Next \/ UNCHANGED Feed!vars
    OBVIOUS
  <1>1. ASSUME UNCHANGED <<files, deleted, applied, took, dropped>> PROVE UNCHANGED Feed!vars
    BY <1>1, FeedFrame
  <1>2. ASSUME NEW s \in Sessions, Session(s), ~Tick(s)
        PROVE  UNCHANGED <<files, deleted, applied, took, dropped>>
    BY <1>2 DEF Session, StoreAck, ServeEnds, HostRecv, LinkLost, hostVars, appVars
  <1>3. ASSUME NEW p \in Panes, NEW r \in BOOLEAN, Stamp(p, r)
        PROVE  UNCHANGED <<files, deleted, applied, took, dropped>>
    BY <1>3 DEF Stamp, appVars
  <1>4. ASSUME NEW g \in Gens, TaskStops(g) \/ \E s \in Sessions : Connect(g, s)
        PROVE  UNCHANGED <<files, deleted, applied, took, dropped>>
    BY <1>4 DEF TaskStops, Connect, hostVars, appVars
  <1>5. ASSUME Clock \/ AddHost \/ RemoveHost \/ UNCHANGED vars
        PROVE  UNCHANGED <<files, deleted, applied, took, dropped>>
    BY <1>5 DEF Clock, AddHost, RemoveHost, vars, hostVars, appVars
  <1> QED
    BY <1>1, <1>2, <1>3, <1>4, <1>5, FeedHook, FeedTick, FeedMonitor DEF Next

\* The monitor takes the events of every pane once and in order, whatever the
\* serve processes, links, hosts and the clock do: Delivery implements
\* EventFeed.
THEOREM DeliveryImplementsFeed == Spec => OnceInOrder
  BY FeedInit, FeedNext, Invariance, PTL DEF Spec, OnceInOrder, Feed!Spec
=============================================================================
