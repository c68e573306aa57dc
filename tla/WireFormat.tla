----------------------------- MODULE WireFormat -----------------------------
(***************************************************************************)
(* One message of wayland/client: the code cmd/go-wayland-scanner writes   *)
(* for a request puts its arguments one after the other, Dispatch takes    *)
(* those of an event, and the compositor does the reverse by the wire      *)
(* format.  A string is its length and stays in one piece: the data of a   *)
(* message maps an offset to the item put there, and where the next item   *)
(* is looked for is arithmetic.                                            *)
(***************************************************************************)
EXTENDS Integers, Sequences

None == "none"
Item(kind, n, of) == [kind |-> kind, n |-> n, of |-> of]
Word(n)    == Item("word", n, None)
Bytes(n)   == Item("bytes", n, None)
Object(n)  == Item("object", n, None)
NullString == Item("null", 0, None)
Descriptor == Item("fd", 1, None)
Bad        == Item("bad", 0, None)

ObjectTypes == {"object", "maybe", "new", "any"}

PaddedLen(l) == IF l % 4 # 0 THEN l + (4 - (l % 4)) ELSE l
Rounded(l) == 4 * ((l + 3) \div 4)     \* the wire format

SizeOf(v) ==
  CASE v.kind = "bytes"  -> 4 + PaddedLen(v.n + 1)
    [] v.kind = "global" -> 4 + PaddedLen(Len(v.of) + 1) + 4 + 4
    [] v.kind = "fd"     -> 0
    [] OTHER             -> 4

Put(buf, item, room) ==
  [l    |-> buf.l + room,
   data |-> [x \in DOMAIN buf.data \cup {buf.l} |-> IF x \in DOMAIN buf.data THEN buf.data[x] ELSE item]]
PutUint32(buf, n)    == Put(buf, Word(n), 4)
PutString(buf, s)    == Put(PutUint32(buf, s.n + 1), s, PaddedLen(s.n + 1))

PutArg(buf, v) ==
  CASE v.kind = "bytes"  -> PutString(buf, v)
    [] v.kind = "global" ->
         PutUint32(PutUint32(PutString(buf, Item("bytes", Len(v.of), v.of)), 1), v.n)
    [] v.kind = "fd"     -> buf
    [] OTHER             -> PutUint32(buf, v.n)

\* The arguments of a request: its size, which the method computes first, and
\* what it puts after the header of 8 bytes.
SizeOfArgs(values) ==
  LET size[k \in 0..Len(values)] == IF k = 0 THEN 8 ELSE size[k - 1] + SizeOf(values[k])
  IN size[Len(values)]

Empty == [l |-> 8, data |-> << >>]

PutArgs(values) ==
  LET put[k \in 0..Len(values)] == IF k = 0 THEN Empty ELSE PutArg(put[k - 1], values[k])
  IN put[Len(values)]

\* The compositor's writing of an event, a string or an array.
WirePut(buf, a, v) ==
  CASE v.kind = "null"  -> PutUint32(buf, 0)
    [] v.kind = "fd"    -> buf
    [] v.kind = "bytes" -> LET len == IF a.type = "array" THEN v.n ELSE v.n + 1
                           IN Put(PutUint32(buf, len), v, Rounded(len))
    [] OTHER            -> PutUint32(buf, v.n)

WirePutArgs(args, values) ==
  LET put[k \in 0..Len(args)] == IF k = 0 THEN Empty ELSE WirePut(put[k - 1], args[k], values[k])
  IN put[Len(args)]

-----------------------------------------------------------------------------

WordAt(m, l) ==
  IF l \in DOMAIN m.data /\ l + 4 <= m.size /\ m.data[l].kind = "word" THEN m.data[l].n ELSE -1

\* The bytes put at l, when the next len hold them (and for a string a NUL).
BytesAt(m, l, len, least) ==
  IF l \in DOMAIN m.data /\ l + len <= m.size /\ m.data[l].kind = "bytes" /\ m.data[l].n + least <= len
  THEN m.data[l] ELSE Bad

\* Dispatch: the argument at r.l and where the next one is.
Take(r, item, room) == [l |-> r.l + room, args |-> Append(r.args, item)]

ReadArg(m, r, a) ==
  LET n == WordAt(m, r.l) IN
  CASE a.type = "fd" -> Take(r, m.fd, 0)
    [] a.type \in {"string", "maybeString"} ->
         Take(r, BytesAt(m, r.l + 4, PaddedLen(n), 1), 4 + PaddedLen(n))
    [] a.type = "array" -> Take(r, BytesAt(m, r.l + 4, n, 0), 4 + n)
    [] OTHER -> Take(r, IF a.type \in ObjectTypes THEN Object(n) ELSE Word(n), 4)

First == [l |-> 8, args |-> << >>]

ReadArgs(m, args) ==
  LET read[k \in 0..Len(args)] == IF k = 0 THEN First ELSE ReadArg(m, read[k - 1], args[k])
  IN read[Len(args)]

\* The compositor's reading of a request.
WireRead(m, r, a) ==
  LET n == WordAt(m, r.l)
      s == BytesAt(m, r.l + 4, Rounded(n), 1)
      after == r.l + 4 + Rounded(n)
  IN CASE a.type = "fd"     -> Take(r, m.fd, 0)
       [] a.type = "string" -> Take(r, s, 4 + Rounded(n))
       [] a.type = "global" ->
            Take(r, Item("global", WordAt(m, after + 4), s.of), 4 + Rounded(n) + 4 + 4)
       [] OTHER -> Take(r, IF a.type \in ObjectTypes THEN Object(n) ELSE Word(n), 4)

WireReadArgs(m, args) ==
  LET read[k \in 0..Len(args)] == IF k = 0 THEN First ELSE WireRead(m, read[k - 1], args[k])
  IN read[Len(args)]

-----------------------------------------------------------------------------
\* What the two ends can tell each other.  A request of wayland/client has no
\* array and no string that may be null; Dispatch takes the bytes of an array
\* without its padding, so an event has none but as its last argument.
RequestArgs(args) == \A k \in 1..Len(args) : args[k].type \notin {"array", "maybeString"}
EventArgs(args)   == \A k \in 1..Len(args) : /\ args[k].type # "global"
                                             /\ args[k].type = "array" => k = Len(args)
=============================================================================
