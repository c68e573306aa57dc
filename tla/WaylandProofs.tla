--------------------------- MODULE WaylandProofs ---------------------------
(***************************************************************************)
(* What holds of a Wayland connection for any objects and any number of    *)
(* events: each event is dispatched with the file descriptor the           *)
(* compositor sent with it, however flushes cut the stream and objects     *)
(* come to their end.  And of one message, for any arguments: what the one *)
(* end puts is what the other reads, whatever the lengths of its strings.  *)
(***************************************************************************)
EXTENDS WaylandConn, WireFormat, Recursion, TLAPS

Bounded == MaxEvents \in Nat

Items(s) == {s[i] : i \in 1..Len(s)}

\* In increasing order: descriptors, and events by their numbers.
Rising(s)   == \A i, j \in 1..Len(s) : i < j => s[i] < s[j]
Numbered(s) == \A i, j \in 1..Len(s) : i < j => s[i].n < s[j].n

-----------------------------------------------------------------------------
\* Sequences and their items.

LEMMA ItemsAppend ==
  ASSUME NEW T, NEW s \in Seq(T), NEW x \in T
  PROVE  Append(s, x) \in Seq(T) /\ Items(Append(s, x)) = Items(s) \cup {x}
<1>1. /\ Append(s, x) \in Seq(T) /\ Len(Append(s, x)) = Len(s) + 1
      /\ \A i \in 1..Len(s) : Append(s, x)[i] = s[i]
      /\ Append(s, x)[Len(s) + 1] = x
  OBVIOUS
<1>2. Len(s) \in Nat
  OBVIOUS
<1> QED BY <1>1, <1>2 DEF Items

LEMMA ItemsConcat ==
  ASSUME NEW T, NEW s \in Seq(T), NEW t \in Seq(T)
  PROVE  s \o t \in Seq(T) /\ Items(s \o t) = Items(s) \cup Items(t)
<1>1. /\ s \o t \in Seq(T) /\ Len(s \o t) = Len(s) + Len(t)
      /\ Len(s) \in Nat /\ Len(t) \in Nat
      /\ \A i \in 1..Len(s) : (s \o t)[i] = s[i]
      /\ \A i \in 1..Len(t) : (s \o t)[Len(s) + i] = t[i]
  OBVIOUS
<1>2. ASSUME NEW i \in 1..(Len(s) + Len(t)) PROVE (s \o t)[i] \in Items(s) \cup Items(t)
  <2>1. CASE i <= Len(s)
    BY <1>1, <2>1 DEF Items
  <2>2. CASE i > Len(s)
    <3>1. i - Len(s) \in 1..Len(t) /\ i = Len(s) + (i - Len(s))
      BY <1>1, <2>2
    <3> QED BY <1>1, <3>1 DEF Items
  <2> QED BY <1>1, <2>1, <2>2
<1>3. Items(s) \subseteq Items(s \o t)
  BY <1>1 DEF Items
<1>4. Items(t) \subseteq Items(s \o t)
  <2>1. ASSUME NEW i \in 1..Len(t) PROVE t[i] \in Items(s \o t)
    <3>1. Len(s) + i \in 1..Len(s \o t)
      BY <1>1
    <3> QED BY <1>1, <3>1 DEF Items
  <2> QED BY <2>1 DEF Items
<1> QED BY <1>1, <1>2, <1>3, <1>4 DEF Items

LEMMA ItemsTail ==
  ASSUME NEW T, NEW s \in Seq(T), s # << >>
  PROVE  /\ Tail(s) \in Seq(T) /\ Head(s) \in T /\ Len(Tail(s)) = Len(s) - 1
         /\ Len(s) \in Nat /\ Len(s) >= 1
         /\ Items(s) = {Head(s)} \cup Items(Tail(s))
<1>1. /\ Tail(s) \in Seq(T) /\ Len(Tail(s)) = Len(s) - 1 /\ Len(s) \in Nat /\ Len(s) >= 1
      /\ Head(s) = s[1] /\ Head(s) \in T
      /\ \A i \in 1..(Len(s) - 1) : Tail(s)[i] = s[i + 1]
  OBVIOUS
<1>2. ASSUME NEW i \in 1..Len(s) PROVE s[i] \in {Head(s)} \cup Items(Tail(s))
  <2>1. CASE i = 1
    BY <1>1, <2>1
  <2>2. CASE i # 1
    <3>1. i - 1 \in 1..(Len(s) - 1) /\ Tail(s)[i - 1] = s[i]
      BY <1>1, <2>2
    <3> QED BY <1>1, <3>1 DEF Items
  <2> QED BY <2>1, <2>2
<1>3. ASSUME NEW i \in 1..(Len(s) - 1) PROVE Tail(s)[i] \in Items(s)
  <2>1. i + 1 \in 1..Len(s)
    BY <1>1
  <2> QED BY <1>1, <2>1 DEF Items
<1>4. Head(s) \in Items(s)
  BY <1>1 DEF Items
<1> QED BY <1>1, <1>2, <1>3, <1>4 DEF Items

\* What is no item of the empty sequence, and what is one of a typed one.
LEMMA ItemsTyped ==
  ASSUME NEW T, NEW s \in Seq(T)
  PROVE  Items(s) \subseteq T /\ (Items(s) = {} <=> s = << >>) /\ Items(<< >>) = {}
<1>1. Len(s) \in Nat /\ (\A i \in 1..Len(s) : s[i] \in T) /\ (Len(s) = 0 <=> s = << >>)
  OBVIOUS
<1> QED BY <1>1 DEF Items

LEMMA RisingAppend ==
  ASSUME NEW s \in Seq(Nat), NEW x \in Nat, Rising(s), \A d \in Items(s) : d < x
  PROVE  Rising(Append(s, x))
<1>1. /\ Len(Append(s, x)) = Len(s) + 1 /\ Len(s) \in Nat
      /\ \A i \in 1..Len(s) : Append(s, x)[i] = s[i]
      /\ Append(s, x)[Len(s) + 1] = x
  OBVIOUS
<1>2. ASSUME NEW i \in 1..(Len(s) + 1), NEW j \in 1..(Len(s) + 1), i < j
      PROVE  Append(s, x)[i] < Append(s, x)[j]
  <2>1. CASE j <= Len(s)
    BY <1>1, <1>2, <2>1 DEF Rising
  <2>2. CASE j = Len(s) + 1
    <3>1. i \in 1..Len(s)
      BY <1>1, <1>2, <2>2
    <3>2. Append(s, x)[i] \in Items(s)
      BY <1>1, <3>1 DEF Items
    <3> QED BY <1>1, <2>2, <3>2
  <2> QED BY <1>1, <2>1, <2>2
<1> QED BY <1>1, <1>2 DEF Rising

LEMMA RisingConcat ==
  ASSUME NEW s \in Seq(Nat), NEW t \in Seq(Nat), Rising(s), Rising(t),
         \A c \in Items(s), d \in Items(t) : c < d
  PROVE  Rising(s \o t)
<1>1. /\ Len(s \o t) = Len(s) + Len(t) /\ Len(s) \in Nat /\ Len(t) \in Nat
      /\ \A i \in 1..Len(s) : (s \o t)[i] = s[i]
      /\ \A i \in (Len(s) + 1)..(Len(s) + Len(t)) :
           (s \o t)[i] = t[i - Len(s)] /\ i - Len(s) \in 1..Len(t)
  OBVIOUS
<1> SUFFICES ASSUME NEW i \in 1..Len(s \o t), NEW j \in 1..Len(s \o t), i < j
             PROVE  (s \o t)[i] < (s \o t)[j]
  BY DEF Rising
<1>2. CASE j <= Len(s)
  BY <1>1, <1>2 DEF Rising
<1>3. CASE i > Len(s)
  <2>1. i - Len(s) \in 1..Len(t) /\ j - Len(s) \in 1..Len(t) /\ i - Len(s) < j - Len(s)
    BY <1>1, <1>3
  <2>2. t[i - Len(s)] < t[j - Len(s)]
    BY <2>1 DEF Rising
  <2> QED BY <1>1, <1>3, <2>2
<1>4. CASE i <= Len(s) /\ j > Len(s)
  <2>1. (s \o t)[i] \in Items(s) /\ (s \o t)[j] \in Items(t)
    <3>1. i \in 1..Len(s) /\ j - Len(s) \in 1..Len(t)
      BY <1>1, <1>4
    <3>2. (s \o t)[i] = s[i] /\ (s \o t)[j] = t[j - Len(s)]
      BY <1>1, <1>4, <3>1
    <3> QED BY <3>1, <3>2 DEF Items
  <2> QED BY <2>1
<1> QED BY <1>1, <1>2, <1>3, <1>4

LEMMA RisingTail ==
  ASSUME NEW s \in Seq(Nat), s # << >>, Rising(s)
  PROVE  Rising(Tail(s)) /\ \A d \in Items(Tail(s)) : Head(s) < d
<1>1. /\ Len(Tail(s)) = Len(s) - 1 /\ Len(s) \in Nat /\ Len(s) >= 1 /\ Head(s) = s[1]
      /\ \A i \in 1..(Len(s) - 1) : Tail(s)[i] = s[i + 1]
  OBVIOUS
<1>2. ASSUME NEW i \in 1..(Len(s) - 1) PROVE Head(s) < Tail(s)[i]
  <2>1. i + 1 \in 1..Len(s) /\ 1 \in 1..Len(s) /\ 1 < i + 1
    BY <1>1
  <2> QED BY <1>1, <2>1 DEF Rising
<1>3. ASSUME NEW i \in 1..(Len(s) - 1), NEW j \in 1..(Len(s) - 1), i < j
      PROVE  Tail(s)[i] < Tail(s)[j]
  <2>1. i + 1 \in 1..Len(s) /\ j + 1 \in 1..Len(s) /\ i + 1 < j + 1
    BY <1>1, <1>3
  <2> QED BY <1>1, <2>1 DEF Rising
<1> QED BY <1>1, <1>2, <1>3 DEF Rising, Items

LEMMA NumberedAppend ==
  ASSUME NEW T, \A e \in T : e.n \in Nat,
         NEW s \in Seq(T), NEW x \in T, Numbered(s), \A e \in Items(s) : e.n < x.n
  PROVE  Numbered(Append(s, x))
<1>1. /\ Len(Append(s, x)) = Len(s) + 1 /\ Len(s) \in Nat
      /\ \A i \in 1..Len(s) : Append(s, x)[i] = s[i]
      /\ Append(s, x)[Len(s) + 1] = x
  OBVIOUS
<1>2. ASSUME NEW i \in 1..(Len(s) + 1), NEW j \in 1..(Len(s) + 1), i < j
      PROVE  Append(s, x)[i].n < Append(s, x)[j].n
  <2>1. CASE j <= Len(s)
    BY <1>1, <1>2, <2>1 DEF Numbered
  <2>2. CASE j = Len(s) + 1
    <3>1. i \in 1..Len(s)
      BY <1>1, <1>2, <2>2
    <3>2. Append(s, x)[i] \in Items(s)
      BY <1>1, <3>1 DEF Items
    <3> QED BY <1>1, <2>2, <3>2
  <2> QED BY <1>1, <2>1, <2>2
<1> QED BY <1>1, <1>2 DEF Numbered

LEMMA NumberedConcat ==
  ASSUME NEW T, \A e \in T : e.n \in Nat,
         NEW s \in Seq(T), NEW t \in Seq(T), Numbered(s), Numbered(t),
         \A e \in Items(s), f \in Items(t) : e.n < f.n
  PROVE  Numbered(s \o t)
<1>1. /\ Len(s \o t) = Len(s) + Len(t) /\ Len(s) \in Nat /\ Len(t) \in Nat
      /\ \A i \in 1..Len(s) : (s \o t)[i] = s[i]
      /\ \A i \in (Len(s) + 1)..(Len(s) + Len(t)) :
           (s \o t)[i] = t[i - Len(s)] /\ i - Len(s) \in 1..Len(t)
  OBVIOUS
<1> SUFFICES ASSUME NEW i \in 1..Len(s \o t), NEW j \in 1..Len(s \o t), i < j
             PROVE  (s \o t)[i].n < (s \o t)[j].n
  BY DEF Numbered
<1>2. CASE j <= Len(s)
  BY <1>1, <1>2 DEF Numbered
<1>3. CASE i > Len(s)
  <2>1. i - Len(s) \in 1..Len(t) /\ j - Len(s) \in 1..Len(t) /\ i - Len(s) < j - Len(s)
    BY <1>1, <1>3
  <2>2. t[i - Len(s)].n < t[j - Len(s)].n
    BY <2>1 DEF Numbered
  <2> QED BY <1>1, <1>3, <2>2
<1>4. CASE i <= Len(s) /\ j > Len(s)
  <2>1. (s \o t)[i] \in Items(s) /\ (s \o t)[j] \in Items(t)
    <3>1. i \in 1..Len(s) /\ j - Len(s) \in 1..Len(t)
      BY <1>1, <1>4
    <3>2. (s \o t)[i] = s[i] /\ (s \o t)[j] = t[j - Len(s)]
      BY <1>1, <1>4, <3>1
    <3> QED BY <3>1, <3>2 DEF Items
  <2> QED BY <2>1
<1> QED BY <1>1, <1>2, <1>3, <1>4

LEMMA NumberedTail ==
  ASSUME NEW T, NEW s \in Seq(T), s # << >>, Numbered(s)
  PROVE  Numbered(Tail(s)) /\ \A e \in Items(Tail(s)) : Head(s).n < e.n
<1>1. /\ Len(Tail(s)) = Len(s) - 1 /\ Len(s) \in Nat /\ Len(s) >= 1 /\ Head(s) = s[1]
      /\ \A i \in 1..(Len(s) - 1) : Tail(s)[i] = s[i + 1]
  OBVIOUS
<1>2. ASSUME NEW i \in 1..(Len(s) - 1) PROVE Head(s).n < Tail(s)[i].n
  <2>1. i + 1 \in 1..Len(s) /\ 1 \in 1..Len(s) /\ 1 < i + 1
    BY <1>1
  <2> QED BY <1>1, <2>1 DEF Numbered
<1>3. ASSUME NEW i \in 1..(Len(s) - 1), NEW j \in 1..(Len(s) - 1), i < j
      PROVE  Tail(s)[i].n < Tail(s)[j].n
  <2>1. i + 1 \in 1..Len(s) /\ j + 1 \in 1..Len(s) /\ i + 1 < j + 1
    BY <1>1, <1>3
  <2> QED BY <1>1, <2>1 DEF Numbered
<1> QED BY <1>1, <1>2, <1>3 DEF Numbered, Items

-----------------------------------------------------------------------------
\* The invariant.

Event == [n : 1..MaxEvents, kind : {"send", "plain", "delete_id"}, obj : Objects,
          fds : Seq(1..MaxEvents), cut : {"no", "header", "between", "body"}]

\* The events still to be handled: the one being dispatched, those on the
\* wire, those the compositor has buffered.
Current == IF at = "dispatch" THEN {reading} ELSE {}
Pending == Current \cup Items(wire) \cup Items(out)

Shape ==
  /\ TypeOK
  /\ out \in Seq(Event) /\ wire \in Seq(Event) /\ torn \in BOOLEAN
  /\ fds \in Seq(1..MaxEvents) /\ outfds \in Seq(1..MaxEvents)
  /\ desync \in BOOLEAN /\ deadline \in BOOLEAN
  /\ \A e \in Items(out) : e.fds = << >>
  /\ at # "idle" => reading \in Event
  /\ at = "body" => wire # << >> /\ reading = Head(wire)
  /\ desync => at = "idle" /\ wire # << >>

\* Events are handled in the order of their numbers.
InOrder ==
  /\ Numbered(wire) /\ Numbered(out)
  /\ \A e \in Items(wire), f \in Items(out) : e.n < f.n
  /\ \A e \in Current, f \in Items(wire) \cup Items(out) : e.n < f.n
  /\ \A e \in Pending : e.n <= sent

\* What became of a descriptor was decided by an event that is over.
Decided ==
  \A n \in 1..MaxEvents : given[n] # NoFd \/ n \in closed =>
     n <= sent /\ \A e \in Pending : n < e.n

\* The compositor says nothing of an object after its delete_id, so that an
\* event still to be handled is of an object the client remembers.
LastWord ==
  /\ \A e \in Pending : e.kind = "delete_id" => e.obj \in gone
  /\ \A e, f \in Pending : e.kind = "delete_id" /\ e.n < f.n => f.obj # e.obj
  /\ \A o \in Objects : table[o] = "deleted" => o \in gone /\ \A e \in Pending : e.obj # o

Senders(S) == {e.n : e \in {x \in S : x.kind = "send"}}

\* The events whose descriptors have not been received yet.
Ahead == IF at = "body" \/ desync THEN Tail(wire) ELSE wire
Coming == UNION {Items(e.fds) : e \in Items(Ahead)}

\* The descriptors received, then those that come with the events ahead, are
\* in the order of the events they are for, and none comes after its event.
Matched ==
  /\ Rising(outfds) /\ Items(outfds) = Senders(Items(out))
  /\ Rising(fds) /\ \A e \in Items(wire) : Rising(e.fds)
  /\ Items(fds) \cup Coming = Senders(Items(wire))
  /\ \A e \in Items(Ahead), d \in 1..MaxEvents :
       d \in Items(e.fds) => e.n <= d /\ \A c \in Items(fds) : c < d
  /\ \A e, f \in Items(Ahead) : e.n < f.n =>
       \A c \in Items(e.fds), d \in Items(f.fds) : c < d

Inv == Shape /\ InOrder /\ Decided /\ LastWord /\ Matched /\ FdPairing

-----------------------------------------------------------------------------
LEMMA Initially == ASSUME Bounded, Init PROVE Inv
<1>1. Items(<< >>) = {} /\ Numbered(<< >>) /\ Rising(<< >>)
  BY DEF Items, Numbered, Rising
<1>2. Pending = {} /\ Items(Ahead) = {} /\ Coming = {} /\ Items(wire) = {} /\ Items(out) = {}
  BY <1>1 DEF Pending, Current, Ahead, Coming, Init
<1>3. Shape
  <2>1. TypeOK
    BY DEF Bounded, Init, TypeOK, NoFd
  <2>2. << >> \in Seq(Event) /\ << >> \in Seq(1..MaxEvents)
    OBVIOUS
  <2> QED BY <2>1, <2>2, <1>2 DEF Shape, Init
<1>4. InOrder /\ Decided /\ LastWord
  BY <1>1, <1>2 DEF InOrder, Decided, LastWord, Init, Current, NoFd
<1>5. Matched
  BY <1>1, <1>2 DEF Matched, Init, Senders
<1>6. FdPairing
  BY DEF FdPairing, Init, NoFd
<1> QED BY <1>3, <1>4, <1>5, <1>6 DEF Inv

\* What follows of the shape: events have numbers.
LEMMA Numbers ==
  ASSUME Bounded, Shape
  PROVE  /\ \A e \in Event : e.n \in Nat /\ e.n >= 1 /\ e.fds \in Seq(1..MaxEvents) /\ e.fds \in Seq(Nat)
         /\ Pending \subseteq Event /\ Items(wire) \subseteq Event /\ Items(out) \subseteq Event
         /\ fds \in Seq(Nat) /\ outfds \in Seq(Nat)
<1>1. Items(wire) \subseteq Event /\ Items(out) \subseteq Event
  BY ItemsTyped DEF Shape
<1>2. Seq(1..MaxEvents) \subseteq Seq(Nat) /\ 1..MaxEvents \subseteq Nat
  BY DEF Bounded
<1>3. Current \subseteq Event
  BY DEF Current, Shape
<1> QED BY <1>1, <1>2, <1>3 DEF Pending, Event, Shape

-----------------------------------------------------------------------------
\* The compositor.

\* An event of an object it may still speak of is added.
LEMMA EmitStep ==
  ASSUME Bounded, Inv, NEW o \in Objects, NEW kind \in {"send", "plain", "delete_id"},
         o \notin gone, table[o] # "deleted",
         Emit(kind, o),
         gone' = (IF kind = "delete_id" THEN gone \cup {o} ELSE gone),
         UNCHANGED <<table, receiving, deadline>>
  PROVE  Inv'
<1> DEFINE new == [n |-> sent + 1, kind |-> kind, obj |-> o, fds |-> << >>, cut |-> "no"]
<1>1. /\ sent < MaxEvents /\ sent' = sent + 1 /\ sent \in 0..MaxEvents
      /\ out' = Append(out, new) /\ UNCHANGED <<wire, torn>>
      /\ outfds' = IF kind = "send" THEN Append(outfds, sent + 1) ELSE outfds
  BY DEF Emit, Inv, Shape, TypeOK
<1>2. new \in Event /\ sent + 1 \in 1..MaxEvents
  BY <1>1 DEF Event, Bounded
<1>3. out' \in Seq(Event) /\ Items(out') = Items(out) \cup {new}
  BY <1>1, <1>2, ItemsAppend DEF Inv, Shape
<1>4. Current' = Current /\ Ahead' = Ahead /\ Coming' = Coming /\ Pending' = Pending \cup {new}
  BY <1>1, <1>3 DEF Current, Ahead, Coming, Pending, receiving
<1>5. /\ \A e \in Event : e.n \in Nat
      /\ Pending \subseteq Event /\ Items(wire) \subseteq Event /\ Items(out) \subseteq Event
      /\ outfds \in Seq(Nat)
  BY Numbers DEF Inv
<1>6. \A e \in Pending : e.n < new.n
  BY <1>1, <1>5 DEF Inv, InOrder
<1>7. Items(out) \subseteq Pending /\ Items(wire) \subseteq Pending /\ Current \subseteq Pending
  BY DEF Pending
<1>8. Shape'
  <2>1. TypeOK'
    <3>1. Len(out') + Len(wire') <= sent'
      BY <1>1 DEF Inv, Shape, TypeOK
    <3>2. gone' \subseteq Objects /\ sent' \in 0..MaxEvents
      BY <1>1, <1>2 DEF Inv, Shape, TypeOK, Bounded
    <3> QED BY <3>1, <3>2 DEF Inv, Shape, TypeOK, receiving
  <2>2. outfds' \in Seq(1..MaxEvents)
    <3>1. outfds \in Seq(1..MaxEvents)
      BY DEF Inv, Shape
    <3>2. Append(outfds, sent + 1) \in Seq(1..MaxEvents)
      BY <1>2, <3>1
    <3> QED BY <1>1, <3>1, <3>2
  <2> QED BY <1>1, <1>3, <2>1, <2>2 DEF Inv, Shape, receiving
<1>9. InOrder'
  <2>1. Numbered(out')
    <3>1. \A e \in Items(out) : e.n < new.n
      BY <1>6, <1>7
    <3>2. Numbered(out) /\ out \in Seq(Event)
      BY DEF Inv, InOrder, Shape
    <3> HIDE DEF new
    <3> QED BY <1>1, <1>2, <1>5, <3>1, <3>2, NumberedAppend
  <2>2. \A e \in Pending' : e.n <= sent'
    <3>1. \A e \in Pending : e.n <= sent
      BY DEF Inv, InOrder
    <3> QED BY <1>1, <1>4, <1>5, <3>1
  <2>3. \A e \in Items(wire), f \in Items(out') : e.n < f.n
    BY <1>3, <1>6, <1>7 DEF Inv, InOrder
  <2>4. \A e \in Current, f \in Items(wire) \cup Items(out') : e.n < f.n
    BY <1>3, <1>6, <1>7 DEF Inv, InOrder
  <2> QED BY <1>1, <1>4, <2>1, <2>2, <2>3, <2>4 DEF Inv, InOrder
<1>10. Decided'
  <2> SUFFICES ASSUME NEW n \in 1..MaxEvents, given'[n] # NoFd \/ n \in closed'
               PROVE  n <= sent' /\ \A e \in Pending' : n < e.n
    BY DEF Decided
  <2>1. n <= sent /\ \A e \in Pending : n < e.n
    BY DEF Inv, Decided, receiving
  <2> QED BY <1>1, <1>4, <2>1 DEF Bounded
<1>11. LastWord'
  <2>1. \A e \in Pending' : e.kind = "delete_id" => e.obj \in gone'
    BY <1>4 DEF Inv, LastWord
  <2>2. \A e, f \in Pending' : e.kind = "delete_id" /\ e.n < f.n => f.obj # e.obj
    <3> SUFFICES ASSUME NEW e \in Pending', NEW f \in Pending', e.kind = "delete_id", e.n < f.n
                 PROVE  f.obj # e.obj
      OBVIOUS
    <3>1. CASE e \in Pending /\ f \in Pending
      BY <3>1 DEF Inv, LastWord
    <3>2. CASE e \in Pending /\ f = new
      BY <3>2 DEF Inv, LastWord
    <3>3. CASE e = new
      <4>1. f.n <= new.n /\ f.n \in Nat /\ new.n \in Nat
        BY <1>1, <1>2, <1>4, <1>5, <1>6
      <4> QED BY <3>3, <4>1
    <3> QED BY <1>4, <3>1, <3>2, <3>3
  <2>3. \A p \in Objects : table'[p] = "deleted" => p \in gone' /\ \A e \in Pending' : e.obj # p
    BY <1>4 DEF Inv, LastWord
  <2> QED BY <2>1, <2>2, <2>3 DEF LastWord
<1>12. Matched'
  <2>1. Rising(outfds') /\ Items(outfds') = Senders(Items(out'))
    <3>1. Rising(outfds) /\ Items(outfds) = Senders(Items(out)) /\ outfds \in Seq(1..MaxEvents)
      BY DEF Inv, Matched, Shape
    <3>2. CASE kind = "send"
      <4>1. Senders(Items(out')) = Senders(Items(out)) \cup {sent + 1}
        <5>1. \A x \in Items(out') : x.kind = "send" => x.n \in Senders(Items(out)) \cup {sent + 1}
          BY <1>3 DEF Senders
        <5>2. new.n = sent + 1 /\ new.kind = "send" /\ new \in Items(out')
          BY <1>3, <3>2
        <5>3. Senders(Items(out)) \subseteq Senders(Items(out'))
          BY <1>3 DEF Senders
        <5> HIDE DEF new
        <5> QED BY <5>1, <5>2, <5>3 DEF Senders
      <4>2. \A d \in Items(outfds) : d < sent + 1
        BY <3>1, <1>6, <1>7 DEF Senders
      <4>3. sent + 1 \in Nat
        BY <1>2
      <4>4. Rising(Append(outfds, sent + 1))
        BY <1>5, <3>1, <4>2, <4>3, RisingAppend
      <4>5. Items(Append(outfds, sent + 1)) = Items(outfds) \cup {sent + 1}
        BY <1>5, <4>3, ItemsAppend
      <4>6. outfds' = Append(outfds, sent + 1)
        BY <1>1, <3>2
      <4> QED BY <3>1, <4>1, <4>4, <4>5, <4>6
    <3>3. CASE kind # "send"
      BY <1>1, <1>3, <3>1, <3>3 DEF Senders
    <3> QED BY <3>2, <3>3
  <2> QED BY <1>1, <1>4, <2>1 DEF Inv, Matched, receiving
<1>13. FdPairing'
  BY <1>1 DEF Inv, FdPairing, receiving
<1> QED BY <1>8, <1>9, <1>10, <1>11, <1>12, <1>13 DEF Inv

LEMMA SendsStep ==
  ASSUME Bounded, Inv, NEW o \in Objects, Sends(o) \/ DeletesId(o)
  PROVE  Inv'
<1>1. CASE Sends(o)
  <2>1. PICK kind \in {"send", "plain"} : Emit(kind, o)
    BY <1>1 DEF Sends
  <2>2. /\ o \notin gone /\ UNCHANGED <<table, receiving, deadline>> /\ kind # "delete_id"
        /\ gone' = IF kind = "delete_id" THEN gone \cup {o} ELSE gone
    BY <1>1 DEF Sends
  <2>3. table[o] # "deleted"
    BY <2>2 DEF Inv, LastWord
  <2> QED BY <2>1, <2>2, <2>3, EmitStep
<1>2. CASE DeletesId(o)
  BY <1>2, EmitStep DEF DeletesId
<1> QED BY <1>1, <1>2

LEMMA FlushStep == ASSUME Bounded, Inv, Flush PROVE Inv'
<1>1. PICK end \in Cuts(out[Len(out)]) :
             /\ wire' = wire \o [out EXCEPT ![1].fds = outfds, ![Len(out)].cut = end]
             /\ torn' = (end # "no")
  BY DEF Flush
<1> DEFINE batch == [out EXCEPT ![1].fds = outfds, ![Len(out)].cut = end]
           sentAs(e, f) == e.n = f.n /\ e.kind = f.kind /\ e.obj = f.obj
<1>2. /\ out # << >> /\ ~torn /\ wire' = wire \o batch /\ out' = << >> /\ outfds' = << >>
      /\ torn' \in BOOLEAN /\ UNCHANGED <<table, gone, sent, receiving, deadline>>
  BY <1>1 DEF Flush
<1>3. /\ out \in Seq(Event) /\ wire \in Seq(Event) /\ outfds \in Seq(1..MaxEvents)
      /\ Len(out) \in Nat /\ Len(out) >= 1 /\ \A i \in 1..Len(out) : out[i] \in Event
  BY <1>2 DEF Inv, Shape
<1>4. /\ \A e \in Event : e.n \in Nat /\ e.n >= 1 /\ e.fds \in Seq(Nat)
      /\ Pending \subseteq Event /\ Items(wire) \subseteq Event /\ Items(out) \subseteq Event
      /\ fds \in Seq(Nat) /\ outfds \in Seq(Nat)
  BY Numbers DEF Inv
\* The batch has the events of out; its first one has all the descriptors, its
\* last one is where the flush ended.
<1>5. end \in {"no", "header", "between", "body"}
  BY DEF Cuts
<1>6. /\ batch \in Seq(Event) /\ Len(batch) = Len(out)
      /\ \A i \in 1..Len(out) :
           sentAs(batch[i], out[i]) /\ batch[i].fds = (IF i = 1 THEN outfds ELSE out[i].fds)
  <2> DEFINE first == [out EXCEPT ![1] = [out[1] EXCEPT !.fds = outfds]]
  <2>1. /\ [out[1] EXCEPT !.fds = outfds] \in Event
        /\ sentAs([out[1] EXCEPT !.fds = outfds], out[1])
        /\ [out[1] EXCEPT !.fds = outfds].fds = outfds
    <3>1. out[1] \in Event
      BY <1>3
    <3> QED BY <1>3, <3>1 DEF Event
  <2>2. /\ first \in Seq(Event) /\ Len(first) = Len(out)
        /\ \A i \in 1..Len(out) :
             /\ sentAs(first[i], out[i])
             /\ first[i].fds = (IF i = 1 THEN outfds ELSE out[i].fds)
    <3>1. /\ first \in Seq(Event) /\ Len(first) = Len(out)
          /\ first[1] = [out[1] EXCEPT !.fds = outfds]
          /\ \A i \in 1..Len(out) : i # 1 => first[i] = out[i]
      <4> DEFINE e1 == [out[1] EXCEPT !.fds = outfds]
      <4>1. e1 \in Event /\ first = [out EXCEPT ![1] = e1]
        BY <2>1
      <4> HIDE DEF e1, first
      <4>2. /\ first \in Seq(Event) /\ Len(first) = Len(out) /\ first[1] = e1
            /\ \A i \in 1..Len(out) : i # 1 => first[i] = out[i]
        BY <1>3, <4>1
      <4> QED BY <4>2 DEF e1
    <3> HIDE DEF first
    <3> QED BY <2>1, <3>1
  <2>3. batch = [first EXCEPT ![Len(out)] = [first[Len(out)] EXCEPT !.cut = end]]
    OBVIOUS
  <2> HIDE DEF first, batch
  <2> DEFINE l == first[Len(out)]
             lc == [l EXCEPT !.cut = end]
  <2>4. l \in Event
    BY <1>3, <2>2
  <2>5. lc \in Event /\ sentAs(lc, l) /\ lc.fds = l.fds
    <3> HIDE DEF l
    <3> QED BY <1>5, <2>4 DEF Event
  <2> HIDE DEF lc
  <2>6. /\ batch \in Seq(Event) /\ Len(batch) = Len(out) /\ batch[Len(out)] = lc
        /\ \A i \in 1..Len(out) : i # Len(out) => batch[i] = first[i]
    BY <1>3, <2>2, <2>3, <2>5 DEF lc
  <2> QED BY <1>3, <2>2, <2>5, <2>6
<1> HIDE DEF batch
<1>7. batch \in Seq(Event) /\ Len(batch) = Len(out)
  BY <1>6
<1>8. \A i \in 1..Len(out) :
        /\ batch[i].n = out[i].n /\ batch[i].kind = out[i].kind /\ batch[i].obj = out[i].obj
        /\ batch[i].fds = (IF i = 1 THEN outfds ELSE << >>)
  <2>1. \A i \in 1..Len(out) : out[i].fds = << >>
    BY DEF Inv, Shape, Items
  <2> QED BY <1>6, <2>1
<1>9. /\ \A e \in Items(batch) : \E f \in Items(out) :
           e.n = f.n /\ e.kind = f.kind /\ e.obj = f.obj /\ (e.fds = outfds \/ e.fds = << >>)
      /\ \A f \in Items(out) : \E e \in Items(batch) :
           e.n = f.n /\ e.kind = f.kind /\ e.obj = f.obj
  BY <1>6, <1>8 DEF Items
<1>10. /\ wire' \in Seq(Event) /\ Items(wire') = Items(wire) \cup Items(batch)
      /\ Len(wire') = Len(wire) + Len(out) /\ Items(out') = {} /\ Items(batch) \subseteq Event
  <2>1. Items(batch) \subseteq Event /\ Items(<< >>) = {}
    BY <1>7, ItemsTyped
  <2>2. wire \o batch \in Seq(Event) /\ Items(wire \o batch) = Items(wire) \cup Items(batch)
    BY <1>3, <1>7, ItemsConcat
  <2>3. Len(wire \o batch) = Len(wire) + Len(out)
    <3>1. wire \in Seq(Event) /\ batch \in Seq(Event)
      BY <1>3, <1>7
    <3>2. Len(wire \o batch) = Len(wire) + Len(batch)
      BY ONLY <3>1
    <3> QED BY <1>7, <3>2
  <2> QED BY <1>2, <2>1, <2>2, <2>3
<1>11. /\ Current' = Current /\ Pending' = Current \cup Items(wire) \cup Items(batch)
      /\ at' = at /\ reading' = reading /\ fds' = fds /\ desync' = desync
  BY <1>2, <1>10 DEF Current, Pending, receiving
<1>12. \A e \in Pending' : \E f \in Pending :
         e.n = f.n /\ e.kind = f.kind /\ e.obj = f.obj /\ (e = f \/ e \in Items(batch))
  BY <1>9, <1>11 DEF Pending
<1>13. Shape'
  <2>1. TypeOK'
    <3>1. Len(out') + Len(wire') <= sent'
      BY <1>2, <1>3, <1>10 DEF Inv, Shape, TypeOK
    <3> QED BY <1>2, <3>1 DEF Inv, Shape, TypeOK, receiving
  <2>2. << >> \in Seq(Event) /\ << >> \in Seq(1..MaxEvents)
    OBVIOUS
  <2>3. at = "body" => wire' # << >> /\ Head(wire') = Head(wire)
    <3>1. ASSUME at = "body" PROVE wire # << >>
      BY <3>1 DEF Inv, Shape
    <3> QED BY <1>2, <1>3, <1>7, <3>1
  <2>4. desync => wire' # << >>
    <3>1. ASSUME desync PROVE wire # << >>
      BY <3>1 DEF Inv, Shape
    <3> QED BY <1>2, <1>3, <1>7, <3>1
  <2>5. out' \in Seq(Event) /\ outfds' \in Seq(1..MaxEvents)
    BY <1>2, <2>2
  <2>6. at' # "idle" => reading' \in Event
    BY <1>11 DEF Inv, Shape
  <2>7. at' = "body" => wire' # << >> /\ reading' = Head(wire')
    BY <1>11, <2>3 DEF Inv, Shape
  <2>8. desync' => at' = "idle" /\ wire' # << >>
    BY <1>2, <1>11, <2>4 DEF Inv, Shape
  <2> QED BY <1>2, <1>10, <1>11, <2>1, <2>5, <2>6, <2>7, <2>8 DEF Inv, Shape
<1>14. InOrder'
  <2>1. Numbered(batch)
    <3>1. Numbered(out)
      BY DEF Inv, InOrder
    <3> QED BY <1>3, <1>7, <1>8, <3>1 DEF Numbered
  <2>2. \A e \in Items(wire), f \in Items(batch) : e.n < f.n
    <3>1. \A e \in Items(wire), f \in Items(out) : e.n < f.n
      BY DEF Inv, InOrder
    <3> QED BY <1>9, <3>1
  <2>3. Numbered(wire')
    <3>1. Numbered(wire)
      BY DEF Inv, InOrder
    <3> QED BY <1>2, <1>3, <1>4, <1>7, <2>1, <2>2, <3>1, NumberedConcat
  <2>4. Numbered(out')
    BY <1>2 DEF Numbered
  <2>5. \A e \in Current, f \in Items(wire) \cup Items(batch) : e.n < f.n
    <3>1. \A e \in Current, f \in Items(wire) \cup Items(out) : e.n < f.n
      BY DEF Inv, InOrder
    <3> QED BY <1>9, <3>1
  <2>6. \A e \in Pending' : e.n <= sent
    BY <1>12 DEF Inv, InOrder
  <2> QED BY <1>2, <1>10, <1>11, <2>3, <2>4, <2>5, <2>6 DEF InOrder
<1>15. Decided'
  <2> SUFFICES ASSUME NEW n \in 1..MaxEvents, given'[n] # NoFd \/ n \in closed'
               PROVE  n <= sent' /\ \A e \in Pending' : n < e.n
    BY DEF Decided
  <2>1. n <= sent /\ \A e \in Pending : n < e.n
    BY <1>2 DEF Inv, Decided, receiving
  <2> QED BY <1>2, <1>12, <2>1
<1>16. LastWord'
  <2>1. \A e \in Pending' : e.kind = "delete_id" => e.obj \in gone'
    BY <1>2, <1>12 DEF Inv, LastWord
  <2>2. \A e, f \in Pending' : e.kind = "delete_id" /\ e.n < f.n => f.obj # e.obj
    <3> SUFFICES ASSUME NEW e \in Pending', NEW f \in Pending', e.kind = "delete_id", e.n < f.n
                 PROVE  f.obj # e.obj
      OBVIOUS
    <3>1. PICK e0 \in Pending : e.n = e0.n /\ e.kind = e0.kind /\ e.obj = e0.obj
      BY <1>12
    <3>2. PICK f0 \in Pending : f.n = f0.n /\ f.kind = f0.kind /\ f.obj = f0.obj
      BY <1>12
    <3> QED BY <3>1, <3>2 DEF Inv, LastWord
  <2>3. ASSUME NEW o \in Objects, table'[o] = "deleted"
        PROVE  o \in gone' /\ \A e \in Pending' : e.obj # o
    <3>1. o \in gone /\ \A e \in Pending : e.obj # o
      BY <1>2, <2>3 DEF Inv, LastWord
    <3> QED BY <1>2, <1>12, <3>1
  <2> QED BY <2>1, <2>2, <2>3 DEF LastWord
<1>17. Matched'
  <2>1. Rising(outfds) /\ Items(outfds) = Senders(Items(out))
    BY DEF Inv, Matched
  <2>2. Senders(Items(batch)) = Items(outfds)
    BY <1>9, <2>1 DEF Senders
  <2>3. Items(wire') = Items(wire) \cup Items(batch) /\ Senders(Items(wire')) = Senders(Items(wire)) \cup Items(outfds)
    <3>1. Senders(Items(wire) \cup Items(batch)) = Senders(Items(wire)) \cup Senders(Items(batch))
      BY DEF Senders
    <3> QED BY <1>10, <2>2, <3>1
  <2>4. Rising(<< >>) /\ Items(<< >>) = {}
    BY DEF Rising, Items
  <2>5. Items(Ahead') = Items(Ahead) \cup Items(batch)
    <3>1. CASE at = "body" \/ desync
      <4>1. wire # << >>
        BY <3>1 DEF Inv, Shape
      <4>2. Tail(wire') = Tail(wire) \o batch
        BY <1>2, <1>3, <1>7, <4>1
      <4>3. Tail(wire) \in Seq(Event)
        BY <1>3, <4>1
      <4> QED BY <1>7, <1>11, <3>1, <4>2, <4>3, ItemsConcat DEF Ahead
    <3>2. CASE ~(at = "body" \/ desync)
      BY <1>10, <1>11, <3>2 DEF Ahead
    <3> QED BY <3>1, <3>2
  <2>6. Items(Ahead) \subseteq Items(wire)
    <3>1. CASE at = "body" \/ desync
      <4>1. wire # << >>
        BY <3>1 DEF Inv, Shape
      <4> QED BY <1>3, <3>1, <4>1, ItemsTail DEF Ahead
    <3>2. CASE ~(at = "body" \/ desync)
      BY <3>2 DEF Ahead
    <3> QED BY <3>1, <3>2
  <2>7. batch[1] \in Items(batch) /\ batch[1].fds = outfds
    BY <1>3, <1>7, <1>8 DEF Items
  <2>8. UNION {Items(e.fds) : e \in Items(batch)} = Items(outfds)
    BY <1>9, <2>4, <2>7
  <2>9. Coming' = Coming \cup Items(outfds)
    BY <2>5, <2>8 DEF Coming
  <2>10. Items(fds) \cup Coming = Senders(Items(wire))
    BY DEF Inv, Matched
  \* What the wire had comes before the batch.
  <2>11. \A e \in Items(wire), f \in Items(out) : e.n < f.n
    BY DEF Inv, InOrder
  <2>12. \A c \in Items(fds) \cup Coming, d \in Items(outfds) : c < d
    BY <2>1, <2>10, <2>11 DEF Senders
  <2>13. \A e \in Items(batch) : \A d \in Items(e.fds) : d \in Items(outfds) /\ e.fds = outfds
    BY <1>9, <2>4
  <2>14. \A e \in Items(batch) : \A d \in Items(e.fds) : e.n <= d
    <3> SUFFICES ASSUME NEW i \in 1..Len(out), NEW d \in Items(batch[i].fds)
                 PROVE  batch[i].n <= d
      BY <1>7 DEF Items
    <3>1. i = 1 /\ d \in Items(outfds)
      BY <1>8, <2>4
    <3>2. PICK f \in Items(out) : f.n = d
      BY <2>1, <3>1 DEF Senders
    <3>3. PICK j \in 1..Len(out) : f = out[j]
      BY DEF Items
    <3>4. Numbered(out) /\ out[1].n \in Nat /\ out[j].n \in Nat
      BY <1>3, <1>4 DEF Inv, InOrder
    <3>5. out[1].n <= out[j].n
      <4>1. CASE j = 1
        BY <3>4, <4>1
      <4>2. CASE j # 1
        BY <1>3, <3>4, <4>2 DEF Numbered
      <4> QED BY <4>1, <4>2
    <3> QED BY <1>3, <1>8, <3>1, <3>2, <3>3, <3>5
  <2>15. \A e \in Items(wire') : Rising(e.fds)
    BY <1>9, <1>10, <2>1, <2>4 DEF Inv, Matched
  <2>16. ASSUME NEW e \in Items(Ahead'), NEW d \in 1..MaxEvents, d \in Items(e.fds)
         PROVE  e.n <= d /\ \A c \in Items(fds) : c < d
    <3>1. CASE e \in Items(Ahead)
      BY <2>16, <3>1 DEF Inv, Matched
    <3>2. CASE e \in Items(batch)
      BY <2>12, <2>13, <2>14, <2>16, <3>2
    <3> QED BY <2>5, <3>1, <3>2
  <2>17. ASSUME NEW e \in Items(Ahead'), NEW f \in Items(Ahead'), e.n < f.n,
                NEW c \in Items(e.fds), NEW d \in Items(f.fds)
         PROVE  c < d
    <3>1. CASE e \in Items(Ahead) /\ f \in Items(Ahead)
      BY <2>17, <3>1 DEF Inv, Matched
    <3>2. CASE e \in Items(Ahead) /\ f \in Items(batch)
      <4>1. c \in Coming
        BY <3>2 DEF Coming
      <4> QED BY <2>12, <2>13, <3>2, <4>1
    <3>3. CASE e \in Items(batch) /\ f \in Items(Ahead)
      <4>1. f.n < e.n /\ f.n \in Nat /\ e.n \in Nat
        BY <1>4, <1>9, <1>10, <2>6, <2>11, <3>3
      <4> QED BY <2>17, <4>1
    \* Only the first event of a batch has descriptors.
    <3>4. CASE e \in Items(batch) /\ f \in Items(batch)
      <4>1. PICK i \in 1..Len(out) : e = batch[i]
        BY <1>7, <3>4 DEF Items
      <4>2. PICK j \in 1..Len(out) : f = batch[j]
        BY <1>7, <3>4 DEF Items
      <4>3. i = 1 /\ j = 1
        BY <1>8, <2>4, <4>1, <4>2
      <4>4. e.n \in Nat /\ e = f
        BY <1>4, <1>10, <3>4, <4>1, <4>2, <4>3
      <4> QED BY <2>17, <4>4
    <3> QED BY <2>5, <3>1, <3>2, <3>3, <3>4
  <2>18. Rising(fds)
    BY DEF Inv, Matched
  <2>19. Items(fds') \cup Coming' = Senders(Items(wire'))
    BY <1>11, <2>3, <2>9, <2>10
  <2>20. Rising(outfds') /\ Items(outfds') = Senders(Items(out'))
    BY <1>2, <1>10, <2>4 DEF Senders
  <2> QED BY <1>11, <2>15, <2>16, <2>17, <2>18, <2>19, <2>20 DEF Matched
<1>18. FdPairing'
  <2>1. ~(wire' = << >>)
    BY <1>2, <1>3, <1>7
  <2>2. desync => Head(wire') = Head(wire)
    <3>1. ASSUME desync PROVE wire # << >>
      BY <3>1 DEF Inv, Shape
    <3> QED BY <1>2, <1>3, <1>7, <3>1
  <2> QED BY <1>2, <2>1, <2>2 DEF Inv, FdPairing, receiving
<1> QED BY <1>13, <1>14, <1>15, <1>16, <1>17, <1>18 DEF Inv

\* The socket gets the rest of a flush.
LEMMA FlushRestStep == ASSUME Bounded, Inv, FlushRest PROVE Inv'
<1>1. torn' = FALSE /\ UNCHANGED <<table, gone, out, outfds, wire, sent, receiving, deadline>>
  BY DEF FlushRest
<1>2. Current' = Current /\ Pending' = Pending /\ Ahead' = Ahead /\ Coming' = Coming
  BY <1>1 DEF Current, Pending, Ahead, Coming, receiving
<1>3. Shape' /\ InOrder' /\ Decided' /\ LastWord'
  BY <1>1, <1>2 DEF Inv, Shape, TypeOK, InOrder, Decided, LastWord, receiving
<1>4. Matched' /\ FdPairing'
  BY <1>1, <1>2 DEF Inv, Matched, FdPairing, receiving
<1> QED BY <1>3, <1>4 DEF Inv

-----------------------------------------------------------------------------
\* The reading goroutine.

\* A header, in one piece or short.
LEMMA HeaderStep == ASSUME Bounded, Inv, ReadHeader PROVE Inv'
<1>1. /\ at = "idle" /\ wire # << >> /\ ~desync
      /\ \/ at' = "body" /\ reading' = Head(wire) /\ desync' = FALSE
         \/ at' = "idle" /\ desync' = TRUE /\ Head(wire).cut = "header" /\ reading' = reading
      /\ fds' = fds \o Head(wire).fds
      /\ UNCHANGED <<table, server, fd, given, closed, deadline>>
  BY DEF ReadHeader, Inv, Shape
<1>2. /\ wire \in Seq(Event) /\ fds \in Seq(1..MaxEvents)
      /\ Items(wire) = {Head(wire)} \cup Items(Tail(wire)) /\ Head(wire) \in Event
      /\ Numbered(Tail(wire)) /\ \A e \in Items(Tail(wire)) : Head(wire).n < e.n
  BY <1>1, ItemsTail, NumberedTail DEF Inv, Shape, InOrder
<1>3. Head(wire).fds \in Seq(1..MaxEvents)
  BY <1>2 DEF Event
<1>4. /\ fds' \in Seq(1..MaxEvents)
      /\ Items(fds') = Items(fds) \cup Items(Head(wire).fds)
  BY <1>1, <1>2, <1>3, ItemsConcat
<1>5. /\ Current' = Current /\ Pending' = Pending
      /\ Ahead = wire /\ Ahead' = Tail(wire)
  BY <1>1 DEF Current, Pending, Ahead, server
<1>6. Shape'
  <2>1. TypeOK'
    BY <1>1 DEF Inv, Shape, TypeOK, server
  <2> QED BY <1>1, <1>2, <1>4, <2>1 DEF Inv, Shape, server
<1>7. InOrder' /\ Decided' /\ LastWord'
  BY <1>1, <1>5 DEF Inv, InOrder, Decided, LastWord, server
<1>8. Matched'
  <2>1. Coming = Items(Head(wire).fds) \cup Coming'
    BY <1>2, <1>5 DEF Coming
  <2>2. Items(fds') \cup Coming' = Senders(Items(wire'))
    BY <1>1, <1>4, <2>1 DEF Inv, Matched, server
  <2>3. \A e \in Items(wire), d \in 1..MaxEvents :
          d \in Items(e.fds) => e.n <= d /\ \A c \in Items(fds) : c < d
    BY <1>5 DEF Inv, Matched
  <2>4. Items(Head(wire).fds) \subseteq 1..MaxEvents
    BY <1>3, ItemsTyped
  <2>5. Rising(fds) /\ Rising(Head(wire).fds)
    BY <1>2 DEF Inv, Matched
  <2>6. \A c \in Items(fds), d \in Items(Head(wire).fds) : c < d
    BY <1>2, <2>3, <2>4
  <2>7. Rising(fds')
    <3>1. fds \in Seq(Nat) /\ Head(wire).fds \in Seq(Nat)
      BY <1>2, Numbers DEF Inv
    <3> QED BY <1>1, <2>5, <2>6, <3>1, RisingConcat
  <2>8. \A e, f \in Items(wire) : e.n < f.n => \A c \in Items(e.fds), d \in Items(f.fds) : c < d
    BY <1>5 DEF Inv, Matched
  <2>9. ASSUME NEW e \in Items(Tail(wire)), NEW d \in 1..MaxEvents, d \in Items(e.fds)
        PROVE  e.n <= d /\ \A c \in Items(fds') : c < d
    <3>1. e.n <= d /\ \A c \in Items(fds) : c < d
      BY <1>2, <2>3, <2>9
    <3>2. \A c \in Items(Head(wire).fds) : c < d
      BY <1>2, <2>8, <2>9
    <3> QED BY <1>4, <3>1, <3>2
  <2>10. \A e, f \in Items(Tail(wire)) : e.n < f.n =>
           \A c \in Items(e.fds), d \in Items(f.fds) : c < d
    BY <1>2, <2>8
  <2>11. Rising(outfds) /\ Items(outfds) = Senders(Items(out)) /\ \A e \in Items(wire) : Rising(e.fds)
    BY DEF Inv, Matched
  <2> QED BY <1>1, <1>5, <2>2, <2>7, <2>9, <2>10, <2>11 DEF Matched, server
<1>9. FdPairing'
  BY <1>1 DEF Inv, FdPairing, server
<1> QED BY <1>6, <1>7, <1>8, <1>9 DEF Inv

\* An event that takes a descriptor finds its own at the head of ctx.fds.
LEMMA OwnDescriptor ==
  ASSUME Bounded, Inv, at = "body"
  PROVE  /\ TakesFd(reading) <=> reading.kind = "send"
         /\ reading.kind = "send" => fds # << >> /\ Head(fds) = reading.n /\ reading.n \notin Coming
<1>1. wire # << >> /\ reading = Head(wire) /\ reading \in Event /\ ~desync
  BY DEF Inv, Shape
<1>2. /\ wire \in Seq(Event) /\ fds \in Seq(1..MaxEvents)
      /\ Items(wire) = {reading} \cup Items(Tail(wire))
      /\ Items(Tail(wire)) \subseteq Event
      /\ \A e \in Items(Tail(wire)) : reading.n < e.n
  <2>1. wire \in Seq(Event) /\ fds \in Seq(1..MaxEvents) /\ Numbered(wire)
    BY DEF Inv, Shape, InOrder
  <2>2. Tail(wire) \in Seq(Event)
    BY <1>1, <2>1, ItemsTail
  <2>3. Items(Tail(wire)) \subseteq Event
    BY <2>2, ItemsTyped
  <2> QED BY <1>1, <2>1, <2>3, ItemsTail, NumberedTail
<1>3. reading \in Pending /\ reading.obj \in Objects
  BY <1>1, <1>2 DEF Pending, Event
<1>4. table[reading.obj] # "deleted"
  BY <1>3 DEF Inv, LastWord
<1>5. ASSUME reading.kind = "send"
      PROVE  fds # << >> /\ Head(fds) = reading.n /\ reading.n \notin Coming
  <2>1. reading.n \in Senders(Items(wire)) /\ reading.n \in 1..MaxEvents
    BY <1>1, <1>2, <1>5 DEF Senders, Event
  <2>2. Items(fds) \cup Coming = Senders(Items(wire)) /\ Ahead = Tail(wire) /\ Rising(fds)
    BY DEF Inv, Matched, Ahead
  <2>3. reading.n \notin Coming
    <3> SUFFICES ASSUME NEW e \in Items(Tail(wire)), reading.n \in Items(e.fds) PROVE FALSE
      BY <2>2 DEF Coming
    <3>1. e.n <= reading.n
      BY <2>1, <2>2 DEF Inv, Matched
    <3>2. reading.n < e.n /\ e.n \in 1..MaxEvents
      BY <1>2 DEF Event
    <3> QED BY <2>1, <3>1, <3>2 DEF Bounded
  <2>4. reading.n \in Items(fds)
    BY <2>1, <2>2, <2>3
  <2>5. fds # << >>
    BY <1>2, <2>4, ItemsTyped
  <2>6. /\ Items(fds) = {Head(fds)} \cup Items(Tail(fds)) /\ Head(fds) \in 1..MaxEvents
        /\ \A d \in Items(Tail(fds)) : Head(fds) < d
    <3>1. fds \in Seq(Nat)
      BY Numbers DEF Inv
    <3> QED BY <1>2, <2>2, <2>5, <3>1, ItemsTail, RisingTail
  <2>7. \A m \in Senders(Items(wire)) : reading.n <= m
    <3> SUFFICES ASSUME NEW e \in Items(wire) PROVE reading.n <= e.n
      BY DEF Senders
    <3> QED BY <1>2, <2>1 DEF Event, Bounded
  <2>8. reading.n <= Head(fds)
    BY <2>2, <2>6, <2>7
  <2> QED BY <2>1, <2>3, <2>4, <2>5, <2>6, <2>8 DEF Bounded
<1> QED BY <1>1, <1>4, <1>5 DEF TakesFd

\* A body is read in one piece.
LEMMA BodyStep ==
  ASSUME Bounded, Inv, at = "body", at' = "dispatch", wire' = Tail(wire), UNCHANGED desync,
         IF TakesFd(reading) /\ fds # << >>
         THEN fd' = Head(fds) /\ fds' = Tail(fds)
         ELSE fd' = NoFd /\ UNCHANGED fds,
         UNCHANGED <<table, gone, out, outfds, torn, sent, reading, given, closed, deadline>>
  PROVE  Inv'
<1>1. /\ at = "body" /\ at' = "dispatch" /\ wire' = Tail(wire)
      /\ UNCHANGED <<table, gone, out, outfds, torn, sent, reading, given, closed, deadline, desync>>
  OBVIOUS
<1>2. /\ reading.kind = "send" => /\ fds # << >> /\ Head(fds) = reading.n /\ reading.n \notin Coming
                                  /\ fd' = reading.n /\ fds' = Tail(fds)
      /\ reading.kind # "send" => fd' = NoFd /\ fds' = fds
  BY <1>1, OwnDescriptor
<1>3. wire # << >> /\ reading = Head(wire) /\ reading \in Event /\ ~desync
  BY <1>1 DEF Inv, Shape
<1>4. /\ wire \in Seq(Event) /\ Tail(wire) \in Seq(Event) /\ fds \in Seq(1..MaxEvents)
      /\ Len(Tail(wire)) = Len(wire) - 1 /\ Len(wire) \in Nat
      /\ Items(wire) = {reading} \cup Items(Tail(wire))
      /\ Numbered(Tail(wire)) /\ \A e \in Items(Tail(wire)) : reading.n < e.n
  <2>1. wire \in Seq(Event) /\ fds \in Seq(1..MaxEvents) /\ Numbered(wire)
    BY DEF Inv, Shape, InOrder
  <2> QED BY <1>3, <2>1, ItemsTail, NumberedTail
<1>5. /\ \A e \in Event : e.n \in Nat /\ e.n >= 1
      /\ Pending \subseteq Event /\ fds \in Seq(Nat)
  BY Numbers DEF Inv
<1>6. reading.n \in 1..MaxEvents
  BY <1>3 DEF Event
<1>7. /\ Current' = {reading} /\ Pending' = Pending /\ Ahead' = Ahead /\ Ahead = Tail(wire)
      /\ Coming' = Coming
  BY <1>1, <1>3, <1>4 DEF Current, Pending, Ahead, Coming
<1>8. Items(wire) \subseteq Pending /\ Items(out) \subseteq Pending
  BY DEF Pending
<1>9. fds' \in Seq(1..MaxEvents)
  <2>1. CASE reading.kind = "send"
    BY <1>2, <1>4, <2>1, ItemsTail
  <2> QED BY <1>2, <1>4, <2>1
<1>10. Shape'
  <2>1. TypeOK'
    <3>1. Len(out') + Len(wire') <= sent'
      BY <1>1, <1>4 DEF Inv, Shape, TypeOK
    <3>2. fd' \in 0..MaxEvents
      BY <1>2, <1>6 DEF NoFd, Bounded
    <3> QED BY <1>1, <3>1, <3>2 DEF Inv, Shape, TypeOK
  <2> QED BY <1>1, <1>3, <1>4, <1>9, <2>1 DEF Inv, Shape
<1>11. InOrder'
  <2>1. /\ \A e \in Items(wire), f \in Items(out) : e.n < f.n
        /\ \A e \in Pending : e.n <= sent
        /\ Numbered(out)
    BY DEF Inv, InOrder
  <2>2. \A e \in {reading}, f \in Items(Tail(wire)) \cup Items(out) : e.n < f.n
    BY <1>4, <2>1
  <2>3. \A e \in Items(Tail(wire)), f \in Items(out) : e.n < f.n
    BY <1>4, <2>1
  <2> QED BY <1>1, <1>4, <1>7, <2>1, <2>2, <2>3 DEF InOrder
<1>12. Decided' /\ LastWord'
  BY <1>1, <1>7 DEF Inv, Decided, LastWord
<1>13. Matched'
  <2>1. /\ Rising(fds) /\ Items(fds) \cup Coming = Senders(Items(wire))
        /\ \A e \in Items(Ahead), d \in 1..MaxEvents :
             d \in Items(e.fds) => e.n <= d /\ \A c \in Items(fds) : c < d
    BY DEF Inv, Matched
  <2>2. Items(fds') \cup Coming' = Senders(Items(wire'))
    <3>1. CASE reading.kind = "send"
      <4>1. Items(fds) = {reading.n} \cup Items(Tail(fds)) /\ reading.n \notin Items(Tail(fds))
        <5>1. Items(fds) = {Head(fds)} \cup Items(Tail(fds))
          BY <1>2, <1>4, <3>1, ItemsTail
        <5>2. \A d \in Items(Tail(fds)) : Head(fds) < d
          BY <1>2, <1>5, <2>1, <3>1, RisingTail
        <5> QED BY <1>2, <1>6, <3>1, <5>1, <5>2
      <4>2. Senders(Items(wire)) = {reading.n} \cup Senders(Items(Tail(wire)))
        BY <1>4, <3>1 DEF Senders
      <4>3. reading.n \notin Senders(Items(Tail(wire)))
        BY <1>4, <1>6 DEF Senders
      <4> QED BY <1>1, <1>2, <1>7, <2>1, <3>1, <4>1, <4>2, <4>3
    <3>2. CASE reading.kind # "send"
      <4>1. Senders(Items(wire)) = Senders(Items(Tail(wire)))
        BY <1>4, <3>2 DEF Senders
      <4> QED BY <1>1, <1>2, <1>7, <2>1, <3>2, <4>1
    <3> QED BY <3>1, <3>2
  <2>3. Rising(fds') /\ Items(fds') \subseteq Items(fds)
    <3>1. CASE reading.kind = "send"
      <4>1. Rising(Tail(fds))
        BY <1>2, <1>5, <2>1, <3>1, RisingTail
      <4>2. Items(Tail(fds)) \subseteq Items(fds)
        BY <1>2, <1>4, <3>1, ItemsTail
      <4> QED BY <1>2, <3>1, <4>1, <4>2
    <3> QED BY <1>2, <2>1, <3>1
  <2>4. \A e \in Items(Tail(wire)) : Rising(e.fds)
    BY <1>4 DEF Inv, Matched
  <2>5. \A e \in Items(Ahead), d \in 1..MaxEvents :
             d \in Items(e.fds) => e.n <= d /\ \A c \in Items(fds') : c < d
    BY <2>1, <2>3
  <2> QED BY <1>1, <1>7, <2>2, <2>3, <2>4, <2>5 DEF Inv, Matched
<1>14. FdPairing'
  BY <1>1, <1>2, <1>3 DEF Inv, FdPairing
<1> QED BY <1>10, <1>11, <1>12, <1>13, <1>14 DEF Inv

\* A body is left behind, after a short read or a deadline that passes, and
\* nothing is read any more.
LEMMA LossStep ==
  ASSUME Bounded, Inv, at = "body", deadline \/ Head(wire).cut = "body",
         at' = "idle", desync' = TRUE,
         UNCHANGED <<table, server, reading, fds, fd, given, closed, deadline>>
  PROVE  Inv'
<1>1. /\ at = "body" /\ at' = "idle" /\ desync' = TRUE
      /\ UNCHANGED <<table, server, reading, fds, fd, given, closed, deadline>>
  OBVIOUS
<1>2. /\ Current' = Current /\ Pending' = Pending /\ Ahead' = Ahead /\ Coming' = Coming
  BY <1>1 DEF Current, Pending, Ahead, Coming, server
<1>3. Shape'
  BY <1>1 DEF Inv, Shape, TypeOK, server
<1>4. InOrder' /\ Decided' /\ LastWord'
  BY <1>1, <1>2 DEF Inv, InOrder, Decided, LastWord, server
<1>5. Matched' /\ FdPairing'
  BY <1>1, <1>2 DEF Inv, Matched, FdPairing, server
<1> QED BY <1>3, <1>4, <1>5 DEF Inv

LEMMA DispatchStep == ASSUME Bounded, Inv, Dispatch PROVE Inv'
<1>1. /\ at = "dispatch" /\ at' = "idle" /\ fd' = NoFd
      /\ UNCHANGED <<server, fds, deadline, desync>>
  BY DEF Dispatch
<1>2. reading \in Event /\ ~desync
  BY <1>1 DEF Inv, Shape
<1>3. /\ reading.n \in 1..MaxEvents /\ reading.obj \in Objects
      /\ fd = (IF reading.kind = "send" THEN reading.n ELSE NoFd)
  BY <1>1, <1>2 DEF Event, Inv, FdPairing
<1>4. \/ /\ reading.kind = "delete_id"
         /\ table' = [table EXCEPT ![reading.obj] = "deleted"] /\ UNCHANGED <<given, closed>>
      \/ closed' = closed \cup ({fd} \ {NoFd}) /\ UNCHANGED <<table, given>>
      \/ /\ given' = [given EXCEPT ![reading.n] = fd] /\ UNCHANGED closed
         /\ table' = table \/ table' = [table EXCEPT ![reading.obj] = "zombie"]
  BY DEF Dispatch
<1>5. /\ Current = {reading} /\ Current' = {} /\ Pending = {reading} \cup Pending'
      /\ Pending' = Items(wire) \cup Items(out)
      /\ Ahead' = Ahead /\ Coming' = Coming
  BY <1>1 DEF Current, Pending, Ahead, Coming, server
<1>6. /\ \A e \in Event : e.n \in Nat
      /\ Pending \subseteq Event
  BY Numbers DEF Inv
<1>7. \A e \in Pending' : reading.n < e.n
  BY <1>5 DEF Inv, InOrder
<1>8. /\ given \in [1..MaxEvents -> 0..MaxEvents] /\ closed \subseteq 1..MaxEvents
      /\ table \in [Objects -> {"live", "zombie", "deleted"}]
  BY DEF Inv, Shape, TypeOK
<1>9. given' \in [1..MaxEvents -> 0..MaxEvents] /\ closed' \subseteq 1..MaxEvents
  <2>1. fd \in 0..MaxEvents /\ ({fd} \ {NoFd}) \subseteq 1..MaxEvents
    BY <1>3 DEF NoFd, Bounded
  <2> QED BY <1>4, <1>8, <2>1
<1>10. table' \in [Objects -> {"live", "zombie", "deleted"}]
  BY <1>4, <1>8
<1>11. Shape'
  <2>1. TypeOK'
    BY <1>1, <1>9, <1>10 DEF Inv, Shape, TypeOK, server, NoFd, Bounded
  <2> QED BY <1>1, <1>2, <2>1 DEF Inv, Shape, server
<1>12. InOrder'
  <2>1. \A e \in Pending' : e.n <= sent
    BY <1>5 DEF Inv, InOrder
  <2> QED BY <1>1, <1>5, <2>1 DEF Inv, InOrder, server
\* Only the descriptor of this event is decided now.
<1>13. \A n \in 1..MaxEvents :
         /\ given'[n] # given[n] => n = reading.n /\ given'[n] = fd
         /\ n \in closed' /\ n \notin closed => n = reading.n /\ fd = n
         /\ given'[n] # given[n] => closed' = closed
         /\ n \in closed' /\ n \notin closed => given' = given
  BY <1>3, <1>4, <1>8 DEF NoFd
<1>14. Decided'
  <2> SUFFICES ASSUME NEW n \in 1..MaxEvents, given'[n] # NoFd \/ n \in closed'
               PROVE  n <= sent' /\ \A e \in Pending' : n < e.n
    BY DEF Decided
  <2>1. CASE given[n] # NoFd \/ n \in closed
    BY <1>1, <1>5, <2>1 DEF Inv, Decided, server
  <2>2. CASE n = reading.n
    <3>1. reading.n <= sent
      BY <1>5 DEF Inv, InOrder
    <3> QED BY <1>1, <1>7, <2>2, <3>1 DEF server
  <2> QED BY <1>13, <2>1, <2>2
<1>15. LastWord'
  <2>1. \A e \in Pending' : e.kind = "delete_id" => e.obj \in gone'
    BY <1>1, <1>5 DEF Inv, LastWord, server
  <2>2. \A e, f \in Pending' : e.kind = "delete_id" /\ e.n < f.n => f.obj # e.obj
    BY <1>5 DEF Inv, LastWord
  <2>3. ASSUME NEW o \in Objects, table'[o] = "deleted"
        PROVE  o \in gone' /\ \A e \in Pending' : e.obj # o
    <3>1. CASE table[o] = "deleted"
      BY <1>1, <1>5, <3>1 DEF Inv, LastWord, server
    <3>2. CASE reading.kind = "delete_id" /\ o = reading.obj
      <4>1. reading.obj \in gone
        BY <1>5, <3>2 DEF Inv, LastWord
      <4>2. \A e \in Pending' : e.obj # reading.obj
        BY <1>5, <1>7, <3>2 DEF Inv, LastWord
      <4> QED BY <1>1, <3>2, <4>1, <4>2 DEF server
    <3> QED BY <1>4, <1>8, <2>3, <3>1, <3>2
  <2> QED BY <2>1, <2>2, <2>3 DEF LastWord
<1>16. Matched'
  BY <1>1, <1>5 DEF Inv, Matched, server
<1>17. FdPairing'
  <2>1. ~(reading.n < reading.n)
    BY <1>3 DEF Bounded
  <2>2. given[reading.n] = NoFd /\ reading.n \notin closed
    BY <1>3, <1>5, <2>1 DEF Inv, Decided
  <2>3. ASSUME NEW n \in 1..MaxEvents
        PROVE  given'[n] \in {NoFd, n} /\ ~(given'[n] # NoFd /\ n \in closed')
    <3>1. given[n] \in {NoFd, n} /\ ~(given[n] # NoFd /\ n \in closed)
      BY DEF Inv, FdPairing
    <3> QED BY <1>3, <1>13, <2>2, <3>1
  <2>4. wire' = << >> => fds' = << >>
    <3> SUFFICES ASSUME wire' = << >> PROVE fds' = << >>
      OBVIOUS
    <3>1. Items(wire') = {}
      BY DEF Items
    <3>2. Items(fds') = {}
      BY <1>16, <3>1 DEF Matched, Senders
    <3> QED BY <1>11, <3>2, ItemsTyped DEF Shape
  <2> QED BY <1>1, <1>2, <2>3, <2>4 DEF FdPairing
<1> QED BY <1>11, <1>12, <1>14, <1>15, <1>16, <1>17 DEF Inv

LEMMA DestroyStep == ASSUME Bounded, Inv, NEW o \in Objects, Destroy(o) PROVE Inv'
<1>1. /\ table' = [table EXCEPT ![o] = "zombie"]
      /\ UNCHANGED <<server, receiving, deadline>>
  BY DEF Destroy
<1>2. Current' = Current /\ Pending' = Pending /\ Ahead' = Ahead /\ Coming' = Coming
  BY <1>1 DEF Current, Pending, Ahead, Coming, server, receiving
<1>3. Shape'
  <2>1. table' \in [Objects -> {"live", "zombie", "deleted"}]
    BY <1>1 DEF Inv, Shape, TypeOK
  <2>2. TypeOK'
    BY <1>1, <2>1 DEF Inv, Shape, TypeOK, server, receiving
  <2> QED BY <1>1, <2>2 DEF Inv, Shape, server, receiving
<1>4. InOrder' /\ Decided'
  BY <1>1, <1>2 DEF Inv, InOrder, Decided, server, receiving
<1>5. LastWord'
  <2>1. \A p \in Objects : table'[p] = "deleted" => table[p] = "deleted"
    BY <1>1 DEF Inv, Shape, TypeOK
  <2> QED BY <1>1, <1>2, <2>1 DEF Inv, LastWord, server, receiving
<1>6. Matched' /\ FdPairing'
  BY <1>1, <1>2 DEF Inv, Matched, FdPairing, server, receiving
<1> QED BY <1>3, <1>4, <1>5, <1>6 DEF Inv

-----------------------------------------------------------------------------
LEMMA StepKeepsInv == ASSUME Bounded, Inv, [Next]_vars PROVE Inv'
<1>1. ASSUME UNCHANGED vars PROVE Inv'
  <2>1. UNCHANGED <<table, server, receiving, deadline>>
    BY <1>1 DEF vars
  <2>2. Current' = Current /\ Pending' = Pending /\ Ahead' = Ahead /\ Coming' = Coming
    BY <2>1 DEF Current, Pending, Ahead, Coming, server, receiving
  <2>3. Shape' /\ InOrder' /\ Decided' /\ LastWord'
    BY <2>1, <2>2 DEF Inv, Shape, TypeOK, InOrder, Decided, LastWord, server, receiving
  <2>4. Matched' /\ FdPairing'
    BY <2>1, <2>2 DEF Inv, Matched, FdPairing, server, receiving
  <2> QED BY <2>3, <2>4 DEF Inv
<1>2. ASSUME ReadBody PROVE Inv'
  <2>1. at = "body" /\ UNCHANGED <<table, gone, out, outfds, torn, sent, reading, given, closed, deadline>>
    BY <1>2 DEF ReadBody
  <2>2. CASE wire' = Tail(wire) /\ at' = "dispatch" /\ UNCHANGED desync
    BY <1>2, <2>1, <2>2, BodyStep DEF ReadBody
  <2>3. CASE Head(wire).cut = "body" /\ at' = "idle" /\ desync' = TRUE /\ UNCHANGED <<wire, fd, fds>>
    BY <2>1, <2>3, LossStep DEF server
  <2> QED BY <1>2, <2>2, <2>3 DEF ReadBody
<1>3. ASSUME Expire PROVE Inv'
  BY <1>3, LossStep DEF Expire, Interrupted
<1> QED BY <1>1, <1>2, <1>3, SendsStep, DestroyStep, FlushStep, FlushRestStep, HeaderStep,
           DispatchStep DEF Next

LEMMA Inductive == ASSUME Bounded PROVE Spec => []Inv
<1>1. Init => Inv
  BY Initially
<1>2. Inv /\ [Next]_vars => Inv'
  BY StepKeepsInv
<1> QED BY <1>1, <1>2, PTL DEF Spec

\* event.go, ReadMsg: each event is dispatched with the descriptor sent for it,
\* none is closed that a handler has or left over, and a connection without a
\* deadline keeps its place except at an event whose header or body itself came
\* in two pieces: for any objects, events and flushes.
THEOREM FdPairingCorrect == ASSUME Bounded PROVE Spec => []FdPairing
<1>1. Inv => FdPairing
  BY DEF Inv
<1> QED BY <1>1, Inductive, PTL

\* The connection keeps its shape: in particular every object of the table is
\* live, a zombie or deleted, and a descriptor is that of an event that was sent.
THEOREM ConnTypeCorrect == ASSUME Bounded PROVE Spec => []TypeOK
<1>1. Inv => TypeOK
  BY DEF Inv, Shape
<1> QED BY <1>1, Inductive, PTL

-----------------------------------------------------------------------------
(* WireFormat.  Buffers that a message is put into, argument by argument.   *)

ItemSet == [kind : {"word", "bytes", "object", "null", "fd", "bad", "global"}, n : Nat,
            of : STRING \cup {None}]
Buffers == [l : Nat, data : UNION {[S -> ItemSet] : S \in SUBSET Nat}]

\* What an argument of a type may be.
Strings == {"string", "maybeString", "array"}
Fits(type, v) ==
  \/ type = "fd" /\ v = Descriptor
  \/ type \in Strings /\ \E n \in Nat : v = Bytes(n)
  \/ type = "maybeString" /\ v = NullString
  \/ type \in ObjectTypes /\ \E n \in Nat : v = Object(n)
  \/ type = "global" /\ \E n \in Nat, i \in STRING : v = Item("global", n, i) /\ Len(i) \in Nat
  \/ type \notin Strings \cup ObjectTypes \cup {"fd", "global"} /\ \E n \in Nat : v = Word(n)

\* The next item of a buffer has a place of its own; c is b with more put to
\* it; a message holds all of b.
Open(b)     == \A x \in DOMAIN b.data : x < b.l
Grown(b, c) == /\ b.l <= c.l
               /\ \A x \in DOMAIN b.data : x \in DOMAIN c.data /\ c.data[x] = b.data[x]
Holds(m, b) == /\ m.size \in Nat /\ b.l <= m.size /\ \A x \in DOMAIN m.data : m.data[x].n \in Nat
               /\ \A x \in DOMAIN b.data : x \in DOMAIN m.data /\ m.data[x] = b.data[x]

LEMMA Padding ==
  ASSUME NEW n \in Nat
  PROVE  PaddedLen(n) \in Nat /\ PaddedLen(n) = Rounded(n) /\ n <= PaddedLen(n)
<1>1. PICK q \in Nat, r \in 0..3 : n = 4*q + r
  <2>1. n = 4*(n \div 4) + (n % 4) /\ n \div 4 \in Nat /\ n % 4 \in 0..3
    OBVIOUS
  <2> QED BY <2>1
<1>2. n % 4 = r
  BY <1>1
<1>3. (n + 3) \div 4 = IF r = 0 THEN q ELSE q + 1
  BY <1>1
<1> QED
  BY <1>1, <1>2, <1>3 DEF PaddedLen, Rounded

LEMMA PutIs ==
  ASSUME NEW b \in Buffers, NEW item \in ItemSet, NEW room \in Nat
  PROVE  LET c == Put(b, item, room) IN
         /\ c \in Buffers /\ c.l = b.l + room /\ Grown(b, c)
         /\ Open(b) => /\ b.l \in DOMAIN c.data /\ c.data[b.l] = item
                       /\ room > 0 => Open(c)
<1> DEFINE c == Put(b, item, room)
           D == DOMAIN b.data \cup {b.l}
<1>1. PICK S \in SUBSET Nat : b.data \in [S -> ItemSet]
  <2>1. b.data \in UNION {[S -> ItemSet] : S \in SUBSET Nat}
    BY DEF Buffers
  <2> QED BY <2>1
<1>2. b.l \in Nat
  BY DEF Buffers
<1>3. c.l = b.l + room /\ c.data = [x \in D |-> IF x \in DOMAIN b.data THEN b.data[x] ELSE item]
  BY DEF Put
<1>4. D \in SUBSET Nat /\ c.data \in [D -> ItemSet]
  BY <1>1, <1>2, <1>3
<1>5. c = [l |-> c.l, data |-> c.data]
  BY DEF Put
<1>6. c \in Buffers
  BY <1>2, <1>3, <1>4, <1>5 DEF Buffers
<1>7. Grown(b, c)
  BY <1>2, <1>3 DEF Grown
<1> HIDE DEF c
<1>8. ASSUME Open(b) PROVE b.l \in DOMAIN c.data /\ c.data[b.l] = item /\ (room > 0 => Open(c))
  <2>1. b.l \notin DOMAIN b.data
    BY <1>2, <1>8 DEF Open
  <2>2. ASSUME room > 0, NEW x \in D PROVE x < b.l + room
    <3>1. CASE x = b.l
      BY <1>2, <2>2, <3>1
    <3>2. CASE x \in DOMAIN b.data
      <4>1. x \in Nat /\ x < b.l
        BY <1>1, <1>8, <3>2 DEF Open
      <4> QED
        BY <1>2, <4>1
    <3> QED
      BY <2>2, <3>1, <3>2
  <2> QED
    BY <1>3, <2>1, <2>2 DEF Open
<1> QED
  BY <1>3, <1>6, <1>7, <1>8 DEF c

LEMMA GrownTwice ==
  ASSUME NEW b \in Buffers, NEW c \in Buffers, NEW d \in Buffers, Grown(b, c), Grown(c, d)
  PROVE  Grown(b, d)
BY DEF Grown, Buffers

LEMMA HoldsLess ==
  ASSUME NEW b \in Buffers, NEW c \in Buffers, Grown(b, c), NEW m, Holds(m, c)
  PROVE  Holds(m, b)
BY DEF Grown, Holds, Buffers

\* A word, and a string or an array after its length.
LEMMA WordPut ==
  ASSUME NEW b \in Buffers, NEW n \in Nat
  PROVE  LET c == PutUint32(b, n) IN
         /\ c \in Buffers /\ c.l = b.l + 4 /\ Grown(b, c)
         /\ Open(b) => Open(c) /\ \A m : Holds(m, c) => WordAt(m, b.l) = n
<1> DEFINE c == PutUint32(b, n)
<1>1. Word(n) \in ItemSet
  BY DEF ItemSet, Word, Item, None
<1>2. /\ c \in Buffers /\ c.l = b.l + 4 /\ Grown(b, c)
      /\ Open(b) => b.l \in DOMAIN c.data /\ c.data[b.l] = Word(n) /\ Open(c)
  BY <1>1, PutIs DEF PutUint32
<1> HIDE DEF c
<1>3. ASSUME Open(b), NEW m, Holds(m, c) PROVE WordAt(m, b.l) = n
  BY <1>2, <1>3 DEF WordAt, Holds, Word, Item
<1> QED
  BY <1>2, <1>3 DEF c

LEMMA BytesPut ==
  ASSUME NEW b \in Buffers, NEW len \in Nat, NEW room \in Nat, NEW v \in ItemSet, v.kind = "bytes",
         NEW least \in Nat, v.n + least <= len, len <= room
  PROVE  LET c == PutUint32(b, len)
             d == Put(c, v, room)
         IN /\ d \in Buffers /\ d.l = b.l + 4 + room /\ Grown(b, d)
            /\ Open(b) => /\ room > 0 => Open(d)
                          /\ \A m : Holds(m, d) => /\ WordAt(m, b.l) = len
                                                   /\ BytesAt(m, b.l + 4, len, least) = v
                                                   /\ BytesAt(m, b.l + 4, room, least) = v
<1> DEFINE c == PutUint32(b, len)
           d == Put(c, v, room)
<1>1. /\ c \in Buffers /\ c.l = b.l + 4 /\ Grown(b, c)
      /\ Open(b) => Open(c) /\ \A m : Holds(m, c) => WordAt(m, b.l) = len
  BY WordPut
<1> HIDE DEF c
<1>2. /\ d \in Buffers /\ d.l = c.l + room /\ Grown(c, d)
      /\ Open(c) => c.l \in DOMAIN d.data /\ d.data[c.l] = v /\ (room > 0 => Open(d))
  BY <1>1, PutIs
<1> HIDE DEF d
<1>3. b.l \in Nat /\ v.n \in Int
  BY DEF Buffers, ItemSet
<1>4. Grown(b, d)
  BY <1>1, <1>2, GrownTwice
<1>5. ASSUME Open(b), NEW m, Holds(m, d)
      PROVE  /\ WordAt(m, b.l) = len
             /\ BytesAt(m, b.l + 4, len, least) = v
             /\ BytesAt(m, b.l + 4, room, least) = v
  <2>1. Holds(m, c)
    BY <1>1, <1>2, <1>5, HoldsLess
  <2>2. /\ b.l + 4 \in DOMAIN m.data /\ m.data[b.l + 4] = v
        /\ m.size \in Nat /\ b.l + 4 + room <= m.size
    BY <1>1, <1>2, <1>3, <1>5 DEF Holds
  <2> QED
    BY <1>1, <1>3, <1>5, <2>1, <2>2 DEF BytesAt
<1>6. d.l = b.l + 4 + room
  BY <1>1, <1>2, <1>3
<1> QED
  BY <1>1, <1>2, <1>4, <1>5, <1>6 DEF c, d

LEMMA StringPut ==
  ASSUME NEW b \in Buffers, NEW len \in Nat, NEW room \in Nat, NEW v \in ItemSet, v.kind = "bytes",
         v.n + 1 <= len, len <= room, room > 0
  PROVE  LET d == Put(PutUint32(b, len), v, room) IN
         /\ d \in Buffers /\ d.l = b.l + 4 + room /\ Grown(b, d)
         /\ Open(b) => /\ Open(d)
                       /\ \A m : Holds(m, d) => /\ WordAt(m, b.l) = len
                                                /\ BytesAt(m, b.l + 4, room, 1) = v
<1>1. PICK least \in Nat : least = 1 /\ v.n + least <= len
  OBVIOUS
<1> QED
  BY <1>1, BytesPut

-----------------------------------------------------------------------------
\* An argument is read back where it was put.
Heard(v) == IF v = NullString THEN Bad ELSE v

LEMMA EventArg ==
  ASSUME NEW b \in Buffers, NEW a, a.type # "global", NEW v, Fits(a.type, v)
  PROVE  LET c == WirePut(b, a, v) IN
         /\ c \in Buffers /\ Grown(b, c)
         /\ Open(b) => /\ a.type # "array" => Open(c)
                       /\ \A m, r : Holds(m, c) /\ m.fd = Descriptor /\ r.l = b.l =>
                            /\ ReadArg(m, r, a).args = Append(r.args, Heard(v))
                            /\ a.type # "array" => ReadArg(m, r, a).l = c.l
<1> DEFINE c == WirePut(b, a, v)
           Back == \A m, r : Holds(m, c) /\ m.fd = Descriptor /\ r.l = b.l =>
                     /\ ReadArg(m, r, a).args = Append(r.args, Heard(v))
                     /\ a.type # "array" => ReadArg(m, r, a).l = c.l
<1> SUFFICES /\ c \in Buffers /\ Grown(b, c)
             /\ Open(b) => (a.type # "array" => Open(c)) /\ Back
  OBVIOUS
<1>0. b.l \in Nat
  BY DEF Buffers
<1>1. CASE a.type = "fd"
  <2>1. v = Descriptor /\ c = b /\ v # NullString
    BY <1>1 DEF Fits, Strings, ObjectTypes, WirePut, Descriptor, NullString, Item
  <2>2. Grown(b, b)
    BY <1>0 DEF Grown
  <2>3. \A m, r : m.fd = Descriptor /\ r.l = b.l =>
          ReadArg(m, r, a) = [l |-> b.l + 0, args |-> Append(r.args, v)]
    BY <1>1, <2>1 DEF ReadArg, Take
  <2> QED
    BY <1>0, <2>1, <2>2, <2>3 DEF Heard
<1>2. CASE a.type \in {"string", "maybeString"} /\ v # NullString
  <2>1. PICK n \in Nat : v = Bytes(n)
    BY <1>2 DEF Fits, Strings, ObjectTypes
  <2>2. v \in ItemSet /\ v.kind = "bytes" /\ v.n = n
    BY <2>1 DEF ItemSet, Bytes, Item
  <2>3. PICK len \in Nat : len = n + 1 /\ v.n + 1 <= len
    BY <2>2
  <2>4. /\ Rounded(len) \in Nat /\ len <= Rounded(len) /\ Rounded(len) > 0
        /\ PaddedLen(len) = Rounded(len)
    BY <2>3, Padding
  <2>5. c = Put(PutUint32(b, len), v, Rounded(len))
    BY <1>2, <2>2, <2>3 DEF WirePut
  <2> HIDE DEF c
  <2>6. /\ c \in Buffers /\ c.l = b.l + 4 + Rounded(len) /\ Grown(b, c)
        /\ Open(b) => /\ Open(c)
                      /\ \A m : Holds(m, c) => /\ WordAt(m, b.l) = len
                                               /\ BytesAt(m, b.l + 4, Rounded(len), 1) = v
    BY <2>2, <2>3, <2>4, <2>5, StringPut
  <2>7. ASSUME Open(b), NEW m, NEW r, Holds(m, c), r.l = b.l
        PROVE  ReadArg(m, r, a) = [l |-> b.l + (4 + Rounded(len)), args |-> Append(r.args, v)]
    <3>1. WordAt(m, r.l) = len /\ BytesAt(m, r.l + 4, Rounded(len), 1) = v
      BY <2>6, <2>7
    <3> QED
      BY <1>2, <2>4, <2>7, <3>1 DEF ReadArg, Take
  <2> QED
    <3>1. c.l = b.l + (4 + Rounded(len)) /\ Heard(v) = v
      BY <1>0, <1>2, <2>4, <2>6 DEF Heard
    <3>2. ASSUME Open(b), NEW m, NEW r, Holds(m, c), r.l = b.l
          PROVE  ReadArg(m, r, a).args = Append(r.args, Heard(v)) /\ ReadArg(m, r, a).l = c.l
      BY <2>7, <3>1, <3>2
    <3> QED
      BY <2>6, <3>2
<1>3. CASE a.type \in {"string", "maybeString"} /\ v = NullString
  <2>1. c = PutUint32(b, 0)
    BY <1>3 DEF WirePut, NullString, Item
  <2>2. /\ c \in Buffers /\ c.l = b.l + 4 /\ Grown(b, c)
        /\ Open(b) => Open(c) /\ \A m : Holds(m, c) => WordAt(m, b.l) = 0
    BY <2>1, WordPut
  <2>3. PaddedLen(0) = 0
    BY DEF PaddedLen
  <2>4. ASSUME Open(b), NEW m, NEW r, Holds(m, c), r.l = b.l
        PROVE  ReadArg(m, r, a) = [l |-> b.l + 4, args |-> Append(r.args, Bad)]
    <3>1. WordAt(m, r.l) = 0
      BY <2>2, <2>4
    <3>2. BytesAt(m, r.l + 4, 0, 1) = Bad
      BY <2>4 DEF BytesAt, Holds
    <3>3. ReadArg(m, r, a) = LET n == WordAt(m, r.l)
                             IN  Take(r, BytesAt(m, r.l + 4, PaddedLen(n), 1), 4 + PaddedLen(n))
      BY <1>3 DEF ReadArg
    <3>4. ReadArg(m, r, a) = Take(r, Bad, 4 + 0)
      BY <2>3, <3>1, <3>2, <3>3
    <3> QED
      BY <1>0, <2>4, <3>4 DEF Take
  <2> HIDE DEF c
  <2> QED
    BY <1>3, <2>2, <2>4 DEF Heard
<1>4. CASE a.type = "array"
  <2>1. PICK n \in Nat : v = Bytes(n)
    BY <1>4 DEF Fits, Strings, ObjectTypes
  <2>2. v \in ItemSet /\ v.kind = "bytes" /\ v.n = n /\ v # NullString
    BY <2>1 DEF ItemSet, Bytes, Item, NullString
  <2>3. c = Put(PutUint32(b, n), v, Rounded(n))
    BY <1>4, <2>2 DEF WirePut
  <2>4. Rounded(n) \in Nat /\ n <= Rounded(n) /\ v.n + 0 <= n
    BY <2>2, Padding
  <2>5. /\ c \in Buffers /\ Grown(b, c)
        /\ Open(b) => \A m : Holds(m, c) => /\ WordAt(m, b.l) = n
                                            /\ BytesAt(m, b.l + 4, n, 0) = v
    BY <2>2, <2>3, <2>4, BytesPut
  <2>6. ASSUME Open(b), NEW m, NEW r, Holds(m, c), r.l = b.l
        PROVE  ReadArg(m, r, a).args = Append(r.args, v)
    <3>1. WordAt(m, r.l) = n /\ BytesAt(m, r.l + 4, n, 0) = v
      BY <2>5, <2>6
    <3> HIDE DEF c
    <3> QED
      BY <1>4, <3>1 DEF ReadArg, Take
  <2> HIDE DEF c
  <2> QED
    BY <1>4, <2>2, <2>5, <2>6 DEF Heard
<1>5. CASE a.type \notin {"fd", "string", "maybeString", "array"}
  <2>1. PICK n \in Nat : v = IF a.type \in ObjectTypes THEN Object(n) ELSE Word(n)
    BY <1>5 DEF Fits, Strings, ObjectTypes
  <2>2. v.n = n /\ v.kind \notin {"null", "fd", "bytes"} /\ v # NullString
    BY <2>1 DEF Object, Word, Item, NullString
  <2>3. c = PutUint32(b, n)
    BY <2>2 DEF WirePut
  <2>4. /\ c \in Buffers /\ c.l = b.l + 4 /\ Grown(b, c)
        /\ Open(b) => Open(c) /\ \A m : Holds(m, c) => WordAt(m, b.l) = n
    BY <2>3, WordPut
  <2>5. ASSUME Open(b), NEW m, NEW r, Holds(m, c), r.l = b.l
        PROVE  ReadArg(m, r, a) = [l |-> b.l + 4, args |-> Append(r.args, v)]
    <3>1. WordAt(m, r.l) = n
      BY <2>4, <2>5
    <3> HIDE DEF c
    <3> QED
      BY <1>5, <2>1, <2>5, <3>1 DEF ReadArg, Take
  <2> HIDE DEF c
  <2> QED
    BY <2>2, <2>4, <2>5 DEF Heard
<1>6. v = NullString \/ v # NullString
  OBVIOUS
<1> QED
  BY <1>1, <1>2, <1>3, <1>4, <1>5, <1>6

LEMMA RequestArg ==
  ASSUME NEW b \in Buffers, NEW a, a.type # "array", a.type # "maybeString", NEW v, Fits(a.type, v)
  PROVE  LET c == PutArg(b, v) IN
         /\ c \in Buffers /\ Grown(b, c) /\ c.l = b.l + SizeOf(v)
         /\ Open(b) => /\ Open(c)
                       /\ \A m, r : Holds(m, c) /\ m.fd = Descriptor /\ r.l = b.l =>
                            WireRead(m, r, a) = [l |-> c.l, args |-> Append(r.args, v)]
<1> DEFINE c == PutArg(b, v)
           Back == \A m, r : Holds(m, c) /\ m.fd = Descriptor /\ r.l = b.l =>
                     WireRead(m, r, a) = [l |-> c.l, args |-> Append(r.args, v)]
<1> SUFFICES /\ c \in Buffers /\ Grown(b, c) /\ c.l = b.l + SizeOf(v)
             /\ Open(b) => Open(c) /\ Back
  OBVIOUS
<1>0. b.l \in Nat
  BY DEF Buffers
<1>1. CASE a.type = "fd"
  <2>1. v = Descriptor /\ v.kind = "fd"
    BY <1>1 DEF Fits, Strings, ObjectTypes, Descriptor, Item
  <2>2. c = b /\ SizeOf(v) = 0
    BY <2>1 DEF PutArg, SizeOf
  <2>3. Grown(b, b)
    BY <1>0 DEF Grown
  <2>4. \A m, r : m.fd = Descriptor /\ r.l = b.l =>
          WireRead(m, r, a) = [l |-> b.l + 0, args |-> Append(r.args, v)]
    BY <1>1, <2>1 DEF WireRead, Take
  <2> QED
    BY <1>0, <2>2, <2>3, <2>4
<1>2. CASE a.type = "string"
  <2>1. PICK n \in Nat : v = Bytes(n)
    BY <1>2 DEF Fits, Strings, ObjectTypes
  <2>2. v \in ItemSet /\ v.kind = "bytes" /\ v.n = n
    BY <2>1 DEF ItemSet, Bytes, Item
  <2>3. PICK len \in Nat : len = n + 1 /\ v.n + 1 <= len
    BY <2>2
  <2>4. /\ Rounded(len) \in Nat /\ len <= Rounded(len) /\ Rounded(len) > 0
        /\ PaddedLen(len) = Rounded(len)
    BY <2>3, Padding
  <2>5. c = Put(PutUint32(b, len), v, Rounded(len)) /\ SizeOf(v) = 4 + Rounded(len)
    BY <1>2, <2>2, <2>3, <2>4 DEF PutArg, PutString, SizeOf
  <2> HIDE DEF c
  <2>6. /\ c \in Buffers /\ c.l = b.l + 4 + Rounded(len) /\ Grown(b, c)
        /\ Open(b) => /\ Open(c)
                      /\ \A m : Holds(m, c) => /\ WordAt(m, b.l) = len
                                               /\ BytesAt(m, b.l + 4, Rounded(len), 1) = v
    BY <2>2, <2>3, <2>4, <2>5, StringPut
  <2>7. ASSUME Open(b), NEW m, NEW r, Holds(m, c), r.l = b.l
        PROVE  WireRead(m, r, a) = [l |-> b.l + (4 + Rounded(len)), args |-> Append(r.args, v)]
    <3>1. WordAt(m, r.l) = len /\ BytesAt(m, r.l + 4, Rounded(len), 1) = v
      BY <2>6, <2>7
    <3> QED
      BY <1>2, <2>4, <2>7, <3>1 DEF WireRead, Take
  <2> QED
    BY <1>0, <2>4, <2>5, <2>6, <2>7
<1>3. CASE a.type = "global"
  <2>1. PICK n \in Nat, i \in STRING : v = Item("global", n, i) /\ Len(i) \in Nat
    BY <1>3 DEF Fits, Strings, ObjectTypes
  <2>2. v.kind = "global" /\ v.n = n /\ v.of = i
    BY <2>1 DEF Item
  <2> DEFINE s == Item("bytes", Len(i), i)
             room == Rounded(Len(i) + 1)
             d == PutString(b, s)
             e == PutUint32(d, 1)
  <2>3. s \in ItemSet /\ s.kind = "bytes" /\ s.n = Len(i) /\ s.of = i
    BY <2>1 DEF ItemSet, Item
  <2>4. room \in Nat /\ Len(i) + 1 <= room /\ PaddedLen(Len(i) + 1) = room
    BY <2>1, Padding
  <2>5. d = Put(PutUint32(b, Len(i) + 1), s, room)
    BY <2>3, <2>4 DEF PutString
  <2>6. c = PutUint32(e, n) /\ SizeOf(v) = 4 + room + 4 + 4
    BY <2>2, <2>4 DEF PutArg, SizeOf
  <2> HIDE DEF c, d, e, s, room
  <2>7. /\ d \in Buffers /\ d.l = b.l + 4 + room /\ Grown(b, d)
        /\ Open(b) => /\ Open(d)
                      /\ \A m : Holds(m, d) => /\ WordAt(m, b.l) = Len(i) + 1
                                               /\ BytesAt(m, b.l + 4, room, 1) = s
    <3>1. PICK k \in Nat : k = Len(i) + 1 /\ s.n + 1 <= k
      BY <2>1, <2>3
    <3>2. k <= room /\ room > 0 /\ d = Put(PutUint32(b, k), s, room)
      BY <2>4, <2>5, <3>1
    <3> QED
      BY <2>3, <2>4, <3>1, <3>2, StringPut
  <2>8. /\ e \in Buffers /\ e.l = d.l + 4 /\ Grown(d, e) /\ (Open(d) => Open(e))
    BY <2>7, WordPut DEF e
  <2>9. /\ c \in Buffers /\ c.l = e.l + 4 /\ Grown(e, c)
        /\ Open(e) => Open(c) /\ \A m : Holds(m, c) => WordAt(m, e.l) = n
    BY <2>6, <2>8, WordPut
  <2>10. c.l = b.l + SizeOf(v) /\ Grown(b, e) /\ Grown(b, c)
    <3>1. Grown(b, e)
      BY <2>7, <2>8, GrownTwice
    <3> QED
      BY <1>0, <2>4, <2>6, <2>7, <2>8, <2>9, <3>1, GrownTwice
  <2>11. ASSUME Open(b), NEW m, NEW r, Holds(m, c), r.l = b.l
         PROVE  WireRead(m, r, a) = [l |-> c.l, args |-> Append(r.args, v)]
    <3>1. Holds(m, e)
      BY <2>8, <2>9, <2>11, HoldsLess
    <3>2. Holds(m, d)
      BY <2>7, <2>8, <3>1, HoldsLess
    <3>3. /\ WordAt(m, r.l) = Len(i) + 1 /\ BytesAt(m, r.l + 4, room, 1) = s
          /\ WordAt(m, e.l) = n
      BY <2>7, <2>8, <2>9, <2>11, <3>2
    <3>4. e.l = r.l + 4 + room + 4 /\ c.l = r.l + (4 + room + 4 + 4)
      BY <1>0, <2>4, <2>7, <2>8, <2>9, <2>11
    <3> QED
      BY <1>3, <2>1, <2>3, <3>3, <3>4 DEF WireRead, Take, room
  <2> QED
    BY <2>7, <2>8, <2>9, <2>10, <2>11
<1>4. CASE a.type \notin {"fd", "string", "global"}
  <2>1. PICK n \in Nat : v = IF a.type \in ObjectTypes THEN Object(n) ELSE Word(n)
    BY <1>4 DEF Fits, Strings, ObjectTypes
  <2>2. v.n = n /\ v.kind \notin {"bytes", "global", "fd"}
    BY <2>1 DEF Object, Word, Item
  <2>3. c = PutUint32(b, n) /\ SizeOf(v) = 4
    BY <2>2 DEF PutArg, SizeOf
  <2>4. /\ c \in Buffers /\ c.l = b.l + 4 /\ Grown(b, c)
        /\ Open(b) => Open(c) /\ \A m : Holds(m, c) => WordAt(m, b.l) = n
    BY <2>3, WordPut
  <2>5. ASSUME Open(b), NEW m, NEW r, Holds(m, c), r.l = b.l
        PROVE  WireRead(m, r, a) = [l |-> b.l + 4, args |-> Append(r.args, v)]
    <3>1. WordAt(m, r.l) = n
      BY <2>4, <2>5
    <3> HIDE DEF c
    <3> QED
      BY <1>4, <2>1, <2>5, <3>1 DEF WireRead, Take
  <2> HIDE DEF c
  <2> QED
    BY <2>3, <2>4, <2>5
<1> QED
  BY <1>1, <1>2, <1>3, <1>4

-----------------------------------------------------------------------------
\* A message: f is its buffer after each argument.
Fitting(args, values) ==
  /\ Len(args) \in Nat /\ Len(values) = Len(args)
  /\ \A k \in 1..Len(args) : Fits(args[k].type, values[k])

Filled(f, N) == /\ f \in [0..N -> Buffers] /\ f[0] = Empty
                /\ \A n \in 1..N : Grown(f[n-1], f[n])
                /\ \A n \in 1..N-1 : Open(f[n-1]) => Open(f[n])

LEMMA EmptyBuffer == Empty \in Buffers /\ Open(Empty)
<1>1. Empty.l = 8 /\ Empty.data \in [{} -> ItemSet] /\ {} \in SUBSET Nat
  BY DEF Empty
<1>2. Empty.data \in UNION {[S -> ItemSet] : S \in SUBSET Nat}
  BY <1>1
<1>3. Empty = [l |-> Empty.l, data |-> Empty.data]
  BY DEF Empty
<1> QED
  BY <1>1, <1>2, <1>3 DEF Buffers, Open

LEMMA FilledUp ==
  ASSUME NEW N \in Nat, NEW f, Filled(f, N), NEW n \in 0..N
  PROVE  Grown(f[n], f[N]) /\ (n < N => Open(f[n]))
<1> DEFINE P == {k \in 0..N : (n <= k => Grown(f[n], f[k])) /\ (k < N => Open(f[k]))}
<1>0. \A k \in 0..N : f[k] \in Buffers /\ Grown(f[k], f[k])
  BY DEF Filled, Grown, Buffers
<1>1. 0 \in P
  BY <1>0, EmptyBuffer DEF Filled
<1>2. ASSUME NEW k \in 1..N, k - 1 \in P PROVE k \in P
  <2>1. k - 1 \in 0..N /\ k \in 0..N /\ Grown(f[k-1], f[k])
    BY DEF Filled
  <2>2. ASSUME n <= k PROVE Grown(f[n], f[k])
    <3>1. CASE n = k
      BY <1>0, <3>1
    <3>2. CASE n <= k - 1
      BY <1>0, <1>2, <2>1, <3>2, GrownTwice
    <3> QED
      BY <2>2, <3>1, <3>2
  <2>3. k < N => Open(f[k])
    BY <1>2, <2>1 DEF Filled
  <2> QED
    BY <2>1, <2>2, <2>3
<1> HIDE DEF P
<1>3. \A k \in 0..N : k \in P
  BY <1>1, <1>2, UpTo
<1> QED
  BY <1>3 DEF P

LEMMA EventPuts ==
  ASSUME NEW args, NEW values, Fitting(args, values), EventArgs(args)
  PROVE  \E f : /\ Filled(f, Len(args)) /\ WirePutArgs(args, values) = f[Len(args)]
                /\ \A n \in 1..Len(args) : f[n] = WirePut(f[n-1], args[n], values[n])
<1> DEFINE N == Len(args)
           E(x, n) == WirePut(x, args[n], values[n])
           run[n \in 0..Len(args)] == IF n = 0 THEN Empty ELSE E(run[n-1], n)
           step == [x \in Buffers \X (1..N) |-> E(x[1], x[2])]
<1>1. WirePutArgs(args, values) = run[N]
  BY DEF WirePutArgs
<1>2. N \in Nat /\ Empty \in Buffers
  BY EmptyBuffer DEF Fitting
<1>3. ASSUME NEW x \in Buffers, NEW n \in 1..N
      PROVE  E(x, n) \in Buffers /\ Grown(x, E(x, n)) /\ (n < N /\ Open(x) => Open(E(x, n)))
  <2>1. args[n].type # "global" /\ Fits(args[n].type, values[n]) /\ (args[n].type = "array" => n = N)
    BY DEF Fitting, EventArgs
  <2> QED
    BY <2>1, EventArg
<1> HIDE DEF N, E
<1>4. step \in [Buffers \X (1..N) -> Buffers]
  BY <1>3
<1>5. PICK g : Repeats(g, Buffers, Empty, step, N)
  BY <1>2, <1>4, Repeated
<1>6. g \in [0..N -> Buffers] /\ g[0] = Empty
  BY <1>5 DEF Repeats
<1>7. ASSUME NEW n \in 1..N PROVE g[n] = E(g[n-1], n)
  <2>1. n - 1 \in 0..N
    BY <1>2
  <2>2. <<g[n-1], n>> \in Buffers \X (1..N)
    BY <1>6, <2>1
  <2>3. g[n] = step[<<g[n-1], n>>]
    BY <1>5 DEF Repeats
  <2> QED
    BY <2>2, <2>3
<1>8. g = [n \in 0..N |-> IF n = 0 THEN Empty ELSE E(g[n-1], n)]
  BY <1>2, <1>6, <1>7
<1>9. run = [n \in 0..N |-> IF n = 0 THEN Empty ELSE E(run[n-1], n)]
  BY <1>8 DEF N
<1> HIDE DEF run, step
<1>10. run[0] = Empty /\ \A n \in 1..N : run[n] = E(run[n-1], n)
  BY <1>2, <1>9
<1>11. \A n \in 1..N : run[n-1] \in Buffers => run[n] \in Buffers
  BY <1>3, <1>10
<1>12. \A n \in 0..N : run[n] \in Buffers
  BY <1>2, <1>10, <1>11, StaysIn
<1>13. run \in [0..N -> Buffers]
  BY <1>9, <1>12
<1>14. ASSUME NEW n \in 1..N
       PROVE  Grown(run[n-1], run[n]) /\ (n < N /\ Open(run[n-1]) => Open(run[n]))
  <2>1. run[n-1] \in Buffers
    BY <1>2, <1>12
  <2> QED
    BY <1>3, <1>10, <2>1
<1>15. Filled(run, N)
  BY <1>2, <1>10, <1>13, <1>14 DEF Filled
<1> QED
  BY <1>1, <1>10, <1>15 DEF N, E

LEMMA RequestPuts ==
  ASSUME NEW args, NEW values, Fitting(args, values), RequestArgs(args)
  PROVE  \E f : /\ Filled(f, Len(args)) /\ PutArgs(values) = f[Len(args)]
                /\ \A n \in 1..Len(args) : /\ f[n] = PutArg(f[n-1], values[n])
                                            /\ f[n].l = f[n-1].l + SizeOf(values[n])
<1> DEFINE N == Len(args)
           E(x, n) == PutArg(x, values[n])
           run[n \in 0..Len(values)] == IF n = 0 THEN Empty ELSE E(run[n-1], n)
           step == [x \in Buffers \X (1..N) |-> E(x[1], x[2])]
<1>1. PutArgs(values) = run[N]
  BY DEF PutArgs, Fitting
<1>2. N \in Nat /\ Empty \in Buffers
  BY EmptyBuffer DEF Fitting
<1>3. ASSUME NEW x \in Buffers, NEW n \in 1..N
      PROVE  E(x, n) \in Buffers /\ Grown(x, E(x, n)) /\ (Open(x) => Open(E(x, n)))
             /\ E(x, n).l = x.l + SizeOf(values[n])
  <2>1. args[n].type # "array" /\ args[n].type # "maybeString" /\ Fits(args[n].type, values[n])
    BY DEF Fitting, RequestArgs
  <2> QED
    BY <2>1, RequestArg
<1> HIDE DEF N, E
<1>4. step \in [Buffers \X (1..N) -> Buffers]
  BY <1>3
<1>5. PICK g : Repeats(g, Buffers, Empty, step, N)
  BY <1>2, <1>4, Repeated
<1>6. g \in [0..N -> Buffers] /\ g[0] = Empty
  BY <1>5 DEF Repeats
<1>7. ASSUME NEW n \in 1..N PROVE g[n] = E(g[n-1], n)
  <2>1. n - 1 \in 0..N
    BY <1>2
  <2>2. <<g[n-1], n>> \in Buffers \X (1..N)
    BY <1>6, <2>1
  <2>3. g[n] = step[<<g[n-1], n>>]
    BY <1>5 DEF Repeats
  <2> QED
    BY <2>2, <2>3
<1>8. g = [n \in 0..N |-> IF n = 0 THEN Empty ELSE E(g[n-1], n)]
  BY <1>2, <1>6, <1>7
<1>9. run = [n \in 0..N |-> IF n = 0 THEN Empty ELSE E(run[n-1], n)]
  BY <1>8 DEF N, Fitting
<1> HIDE DEF run, step
<1>10. run[0] = Empty /\ \A n \in 1..N : run[n] = E(run[n-1], n)
  BY <1>2, <1>9
<1>11. \A n \in 1..N : run[n-1] \in Buffers => run[n] \in Buffers
  BY <1>3, <1>10
<1>12. \A n \in 0..N : run[n] \in Buffers
  BY <1>2, <1>10, <1>11, StaysIn
<1>13. run \in [0..N -> Buffers]
  BY <1>9, <1>12
<1>14. ASSUME NEW n \in 1..N
       PROVE  /\ Grown(run[n-1], run[n]) /\ (Open(run[n-1]) => Open(run[n]))
              /\ run[n].l = run[n-1].l + SizeOf(values[n])
  <2>1. run[n-1] \in Buffers
    BY <1>2, <1>12
  <2> QED
    BY <1>3, <1>10, <2>1
<1>15. Filled(run, N)
  BY <1>2, <1>10, <1>13, <1>14 DEF Filled
<1> QED
  BY <1>1, <1>10, <1>14, <1>15 DEF N, E

\* The first n of some values.
LEMMA Prefix ==
  ASSUME NEW n \in Nat, n > 0, NEW F, NEW G,
         F = [i \in 1..(n-1) |-> G[i]]
  PROVE  Append(F, G[n]) = [i \in 1..n |-> G[i]]
<1> DEFINE S == {G[i] : i \in 1..n}
<1>1. F \in Seq(S) /\ Len(F) = n - 1
  <2>1. \A i \in 1..(n-1) : G[i] \in S
    OBVIOUS
  <2>2. F \in [1..(n-1) -> S] /\ n - 1 \in Nat
    BY <2>1
  <2> HIDE DEF S
  <2> QED
    BY <2>2
<1>2. G[n] \in S
  OBVIOUS
<1> HIDE DEF S
<1>3. /\ Append(F, G[n]) \in Seq(S) /\ Len(Append(F, G[n])) = n
      /\ \A i \in 1..(n-1) : Append(F, G[n])[i] = F[i]
      /\ Append(F, G[n])[n] = G[n]
  BY <1>1, <1>2
<1>4. DOMAIN Append(F, G[n]) = 1..n /\ \A i \in 1..n : Append(F, G[n])[i] = G[i]
  BY <1>3
<1> QED
  BY <1>3, <1>4

LEMMA HoldsAll ==
  ASSUME NEW N \in Nat, NEW f, Filled(f, N), NEW m, m.size = f[N].l, m.data = f[N].data, NEW n \in 0..N
  PROVE  Holds(m, f[n])
<1>1. Grown(f[n], f[N]) /\ f[n] \in Buffers /\ f[N] \in Buffers
  <2>1. N \in 0..N
    OBVIOUS
  <2>2. Grown(f[n], f[N])
    BY FilledUp
  <2> QED
    BY <2>1, <2>2 DEF Filled
<1>2. f[N].l \in Nat /\ f[N].data \in UNION {[S -> ItemSet] : S \in SUBSET Nat}
  BY <1>1 DEF Buffers
<1>3. PICK S \in SUBSET Nat : f[N].data \in [S -> ItemSet]
  BY <1>2
<1>4. \A x \in DOMAIN f[N].data : f[N].data[x].n \in Nat
  BY <1>3 DEF ItemSet
<1> QED
  BY <1>1, <1>2, <1>4 DEF Holds, Grown

\* What Dispatch reads of an event is what the compositor put, whatever the
\* lengths of its strings and wherever its numbers and objects stand; only a
\* string that is null reads as one that is not there.
THEOREM EventRead ==
  ASSUME NEW args, NEW values, Fitting(args, values), EventArgs(args),
         NEW m, m.fd = Descriptor,
         m.size = WirePutArgs(args, values).l, m.data = WirePutArgs(args, values).data
  PROVE  ReadArgs(m, args).args = [k \in 1..Len(args) |-> Heard(values[k])]
<1> DEFINE N == Len(args)
           E(x, n) == ReadArg(m, x, args[n])
           run[n \in 0..Len(args)] == IF n = 0 THEN First ELSE E(run[n-1], n)
           heard == [k \in 1..N |-> Heard(values[k])]
<1>1. ReadArgs(m, args) = run[N]
  BY DEF ReadArgs
<1>2. N \in Nat
  BY DEF Fitting
<1>3. PICK f : /\ Filled(f, N) /\ WirePutArgs(args, values) = f[N]
               /\ \A n \in 1..N : f[n] = WirePut(f[n-1], args[n], values[n])
  BY EventPuts
<1> DEFINE told(n) == [l |-> f[n].l, args |-> [k \in 1..n |-> heard[k]]]
<1>4. told(0) = First
  <2>1. f[0].l = 8 /\ [k \in 1..0 |-> heard[k]] = << >>
    BY <1>3 DEF Filled, Empty
  <2> QED
    BY <2>1 DEF First
<1>5. ASSUME NEW n \in 1..N
      PROVE  /\ E(told(n-1), n).args = [k \in 1..n |-> heard[k]]
             /\ n < N => E(told(n-1), n) = told(n)
  <2>1. /\ Fits(args[n].type, values[n]) /\ args[n].type # "global"
        /\ args[n].type = "array" => n = N
    BY DEF Fitting, EventArgs
  <2>2. n - 1 \in 0..N /\ n - 1 < N /\ n \in 0..N
    BY <1>2
  <2>3. f[n-1] \in Buffers /\ Open(f[n-1]) /\ Holds(m, f[n])
    BY <1>2, <1>3, <2>2, FilledUp, HoldsAll DEF Filled
  <2>4. told(n-1).l = f[n-1].l /\ f[n] = WirePut(f[n-1], args[n], values[n])
    BY <1>3
  <2> HIDE DEF told, heard
  <2>5. /\ E(told(n-1), n).args = Append(told(n-1).args, Heard(values[n]))
        /\ args[n].type # "array" => E(told(n-1), n).l = f[n].l
    BY <2>1, <2>3, <2>4, EventArg
  <2>6. Append(told(n-1).args, Heard(values[n])) = [k \in 1..n |-> heard[k]]
    <3>1. told(n-1).args = [k \in 1..(n-1) |-> heard[k]]
      BY DEF told
    <3>2. heard[n] = Heard(values[n])
      BY DEF heard
    <3> QED
      BY <3>1, <3>2, Prefix
  <2>7. \E l, t : E(told(n-1), n) = [l |-> l, args |-> t]
    BY DEF ReadArg, Take
  <2> HIDE DEF E
  <2>8. E(told(n-1), n).args = [k \in 1..n |-> heard[k]]
    BY <2>5, <2>6
  <2>9. ASSUME n < N PROVE E(told(n-1), n) = told(n)
    <3>1. E(told(n-1), n).l = f[n].l
      BY <2>1, <2>5, <2>9
    <3>2. told(n) = [l |-> f[n].l, args |-> [k \in 1..n |-> heard[k]]]
      BY DEF told
    <3> QED
      BY <2>7, <2>8, <3>1, <3>2
  <2> QED
    BY <2>8, <2>9
<1> DEFINE g == [n \in 0..N |-> IF n > 0 /\ n = N THEN E(told(n-1), n) ELSE told(n)]
<1> HIDE DEF N, E, told, heard
<1>6. g[0] = First /\ \A n \in 1..N : g[n] = E(g[n-1], n)
  <2>1. g[0] = First
    BY <1>2, <1>4
  <2>2. ASSUME NEW n \in 1..N PROVE g[n] = E(g[n-1], n)
    <3>1. n - 1 \in 0..N /\ n - 1 # N /\ g[n-1] = told(n-1)
      BY <1>2
    <3>2. g[n] = IF n = N THEN E(told(n-1), n) ELSE told(n)
      OBVIOUS
    <3>3. n < N => E(told(n-1), n) = told(n)
      BY <1>5
    <3> HIDE DEF g
    <3>4. g[n] = E(told(n-1), n)
      BY <1>2, <3>2, <3>3
    <3> QED
      BY <3>1, <3>4
  <2> QED
    BY <2>1, <2>2
<1>7. g = [n \in 0..N |-> IF n = 0 THEN First ELSE E(g[n-1], n)]
  <2>2. g = [n \in 0..N |-> g[n]]
    OBVIOUS
  <2> HIDE DEF g
  <2>1. \A n \in 0..N : g[n] = IF n = 0 THEN First ELSE E(g[n-1], n)
    BY <1>2, <1>6
  <2> QED
    BY <2>1, <2>2
<1>8. run = [n \in 0..N |-> IF n = 0 THEN First ELSE E(run[n-1], n)]
  BY <1>7 DEF N
<1> HIDE DEF run, g
<1>9. run[0] = First /\ \A n \in 1..N : run[n] = E(run[n-1], n)
  BY <1>2, <1>8
<1> DEFINE P == {n \in 0..N : run[n] = g[n]}
<1>10. 0 \in P /\ \A n \in 1..N : n - 1 \in P => n \in P
  BY <1>2, <1>6, <1>9
<1> HIDE DEF P
<1>11. \A n \in 0..N : n \in P
  BY <1>2, <1>10, UpTo
<1>12. run[N] = g[N]
  BY <1>2, <1>11 DEF P
<1>13. g[N].args = heard
  <2>1. heard = [k \in 1..N |-> heard[k]]
    BY DEF heard
  <2>2. CASE N > 0
    <3>1. g[N] = E(told(N-1), N)
      BY <1>2, <2>2 DEF g
    <3> QED
      BY <1>2, <1>5, <2>1, <2>2, <3>1
  <2>3. CASE N = 0
    BY <1>2, <2>1, <2>3 DEF g, told
  <2> QED
    BY <1>2, <2>2, <2>3
<1> QED
  BY <1>1, <1>12, <1>13 DEF N, heard

\* The size a request computes first is the room its arguments take.
LEMMA SizeIs ==
  ASSUME NEW values, NEW N \in Nat, Len(values) = N, NEW f, f[0].l = 8,
         \A n \in 1..N : f[n].l = f[n-1].l + SizeOf(values[n])
  PROVE  SizeOfArgs(values) = f[N].l
<1> DEFINE E(x, n) == x + SizeOf(values[n])
           run[n \in 0..Len(values)] == IF n = 0 THEN 8 ELSE E(run[n-1], n)
           g == [n \in 0..N |-> f[n].l]
<1>1. SizeOfArgs(values) = run[N]
  BY DEF SizeOfArgs
<1>2. g[0] = 8 /\ \A n \in 1..N : g[n] = E(g[n-1], n)
  OBVIOUS
<1>3. g = [n \in 0..N |-> g[n]]
  OBVIOUS
<1> HIDE DEF g, E
<1>4. \A n \in 0..N : g[n] = IF n = 0 THEN 8 ELSE E(g[n-1], n)
  BY <1>2
<1>5. g = [n \in 0..N |-> IF n = 0 THEN 8 ELSE E(g[n-1], n)]
  BY <1>3, <1>4
<1>6. run = [n \in 0..N |-> IF n = 0 THEN 8 ELSE E(run[n-1], n)]
  BY <1>5
<1> HIDE DEF run
<1> DEFINE P == {n \in 0..N : run[n] = g[n]}
<1>7. 0 \in P /\ \A n \in 1..N : n - 1 \in P => n \in P
  BY <1>2, <1>6
<1> HIDE DEF P
<1>8. \A n \in 0..N : n \in P
  BY <1>7, UpTo
<1>9. N \in 0..N
  OBVIOUS
<1> QED
  BY <1>1, <1>8, <1>9 DEF P, g

\* What the compositor reads of a request is what its method put, in exactly
\* the size the method announced in the header.
THEOREM RequestRead ==
  ASSUME NEW args, NEW values, Fitting(args, values), RequestArgs(args),
         NEW m, m.fd = Descriptor,
         m.size = SizeOfArgs(values), m.data = PutArgs(values).data
  PROVE  WireReadArgs(m, args) = [l |-> m.size, args |-> [k \in 1..Len(args) |-> values[k]]]
<1> DEFINE N == Len(args)
           E(x, n) == WireRead(m, x, args[n])
           run[n \in 0..Len(args)] == IF n = 0 THEN First ELSE E(run[n-1], n)
<1>1. WireReadArgs(m, args) = run[N]
  BY DEF WireReadArgs
<1>2. N \in Nat
  BY DEF Fitting
<1>3. PICK f : /\ Filled(f, N) /\ PutArgs(values) = f[N]
               /\ \A n \in 1..N : f[n] = PutArg(f[n-1], values[n]) /\ f[n].l = f[n-1].l + SizeOf(values[n])
  BY RequestPuts
<1>4. f[0].l = 8
  BY <1>3 DEF Filled, Empty
<1>5. m.size = f[N].l
  BY <1>2, <1>3, <1>4, SizeIs DEF Fitting
<1> DEFINE told(n) == [l |-> f[n].l, args |-> [k \in 1..n |-> values[k]]]
<1>6. told(0) = First
  <2>1. [k \in 1..0 |-> values[k]] = << >>
    OBVIOUS
  <2> QED
    BY <1>4, <2>1 DEF First
<1>7. ASSUME NEW n \in 1..N PROVE E(told(n-1), n) = told(n)
  <2>1. Fits(args[n].type, values[n]) /\ args[n].type # "array" /\ args[n].type # "maybeString"
    BY DEF Fitting, RequestArgs
  <2>2. n - 1 \in 0..N /\ n - 1 < N /\ n \in 0..N
    BY <1>2
  <2>3. f[n-1] \in Buffers /\ Open(f[n-1]) /\ Holds(m, f[n])
    BY <1>2, <1>3, <1>5, <2>2, FilledUp, HoldsAll DEF Filled
  <2>4. told(n-1).l = f[n-1].l /\ f[n] = PutArg(f[n-1], values[n])
    BY <1>3
  <2>5. told(n-1).args = [k \in 1..(n-1) |-> values[k]]
    OBVIOUS
  <2>6. told(n) = [l |-> f[n].l, args |-> [k \in 1..n |-> values[k]]]
    OBVIOUS
  <2> HIDE DEF told
  <2>7. E(told(n-1), n) = [l |-> f[n].l, args |-> Append(told(n-1).args, values[n])]
    <3> DEFINE b == f[n-1]
               r == told(n-1)
    <3>1. Holds(m, PutArg(b, values[n])) /\ b \in Buffers /\ Open(b) /\ r.l = b.l
      BY <2>3, <2>4
    <3> HIDE DEF b, r
    <3>2. WireRead(m, r, args[n]) = [l |-> PutArg(b, values[n]).l, args |-> Append(r.args, values[n])]
      BY <2>1, <3>1, RequestArg
    <3> QED
      BY <2>4, <3>2 DEF b, r
  <2>8. Append(told(n-1).args, values[n]) = [k \in 1..n |-> values[k]]
    BY <2>5, Prefix
  <2> HIDE DEF E
  <2> QED
    BY <2>6, <2>7, <2>8
<1> DEFINE g == [n \in 0..N |-> told(n)]
<1> HIDE DEF N, E, told
<1>8. g[0] = First /\ \A n \in 1..N : g[n] = E(g[n-1], n)
  <2>1. g[0] = First
    BY <1>2, <1>6
  <2>2. ASSUME NEW n \in 1..N PROVE g[n] = E(g[n-1], n)
    <3>1. n - 1 \in 0..N /\ n \in 0..N
      BY <1>2
    <3>2. g[n-1] = told(n-1) /\ g[n] = told(n)
      BY <3>1
    <3> HIDE DEF g
    <3> QED
      BY <1>7, <3>2
  <2> QED
    BY <2>1, <2>2
<1>9. g = [n \in 0..N |-> IF n = 0 THEN First ELSE E(g[n-1], n)]
  <2>1. g = [n \in 0..N |-> g[n]]
    OBVIOUS
  <2> HIDE DEF g
  <2>2. \A n \in 0..N : g[n] = IF n = 0 THEN First ELSE E(g[n-1], n)
    BY <1>2, <1>8
  <2> QED
    BY <2>1, <2>2
<1>10. run = [n \in 0..N |-> IF n = 0 THEN First ELSE E(run[n-1], n)]
  BY <1>9 DEF N
<1> HIDE DEF run
<1>11. run[0] = First /\ \A n \in 1..N : run[n] = E(run[n-1], n)
  BY <1>2, <1>10
<1>12. g[N] = told(N)
  BY <1>2
<1> HIDE DEF g
<1> DEFINE P == {n \in 0..N : run[n] = g[n]}
<1>13. 0 \in P /\ \A n \in 1..N : n - 1 \in P => n \in P
  BY <1>2, <1>8, <1>11
<1> HIDE DEF P
<1>14. \A n \in 0..N : n \in P
  BY <1>2, <1>13, UpTo
<1>15. run[N] = told(N)
  BY <1>2, <1>12, <1>14 DEF P
<1> QED
  BY <1>1, <1>5, <1>15 DEF N, told
=============================================================================
