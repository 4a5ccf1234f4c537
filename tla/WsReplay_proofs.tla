--------------------------- MODULE WsReplay_proofs ---------------------------
(***************************************************************************)
(* What WsReplay guarantees for any number of pages, any buffer size and   *)
(* whichever faults are allowed: types, that replays and live events join  *)
(* without loss, repetition or disorder, and that a page at rest shows the *)
(* server's accounts.                                                      *)
(***************************************************************************)
EXTENDS WsReplay, SequenceTheorems, TLAPS

USE DEF manager, endpoint, accounts, client

\* The buffer holds the newest events, consecutively numbered.
NumberOK ==
  /\ \A i \in DOMAIN buffer : buffer[i].seq = (seq - Len(buffer)) + i
  /\ Len(buffer) <= seq
  /\ seq > 0 => buffer # <<>>
  /\ seq <= events /\ roster <= events

\* A page without a socket has nothing on the way; only a replay that was
\* held up leaves anything to do; a page that is not of an earlier run of the
\* server has no number beyond the server's.
IdleOK == \A c \in Clients :
  /\ page[c] # "open" => c \notin conns /\ handler[c] = "none" /\ wire[c] = <<>>
  /\ handler[c] # "replay" => todo[c] = <<>>
  /\ handler[c] = "replay" => stream[c] = "held"
  /\ ~old[c] => lastSeq[c] <= seq
  /\ old[c] => lastSeq[c] > 0

\* Messages w on the way and t still to be sent have different numbers, none
\* beyond n.
Distinct(w, t, n) ==
  /\ \A i \in DOMAIN w : w[i].seq <= n
  /\ \A i \in DOMAIN t : t[i].seq \in 1..n
  /\ \A i, j \in DOMAIN w : i # j /\ w[i].seq > 0 => w[i].seq # w[j].seq
  /\ \A i, j \in DOMAIN t : i # j => t[i].seq # t[j].seq
  /\ \A i \in DOMAIN w, j \in DOMAIN t : w[i].seq # t[j].seq

SentOK == \A c \in Clients : Distinct(wire[c], todo[c], seq)

Ascends(w) ==
  \A i, j \in DOMAIN w : i < j /\ w[i].seq > 0 /\ w[j].seq > 0 => w[i].seq < w[j].seq

\* Once a number is on the way, so is every later one up to n.
Closed(w, n) ==
  /\ \A i \in DOMAIN w, k \in 1..n :
       w[i].seq > 0 /\ k >= w[i].seq => \E j \in DOMAIN w : w[j].seq = k
  /\ Ascends(w)

\* Behind a gap too the events on the way follow one another up to the newest.
GapOK == \A c \in conns : stream[c] = "gap" => Closed(wire[c], seq)

\* What Contiguous says of one page: from what it has, l, up to n.
Joined(w, l, n) ==
  /\ l <= n
  /\ \A k \in (l + 1)..n : \E i \in DOMAIN w : w[i].seq = k
  /\ \A i \in DOMAIN w : w[i].seq > 0 => w[i].seq \in (l + 1)..n
  /\ Ascends(w)

JoinOK == \A c \in conns : stream[c] = "clean" => Joined(wire[c], lastSeq[c], seq)

IInv == TypeOK /\ NumberOK /\ IdleOK /\ SentOK /\ GapOK /\ JoinOK

----------------------------------------------------------------------------
(* Sequences of messages.                                                  *)

LEMMA MessageType ==
  ASSUME NEW w \in Seq(Message)
  PROVE  /\ Len(w) \in Nat /\ DOMAIN w = 1..Len(w)
         /\ \A i \in DOMAIN w : w[i] \in Message /\ w[i].seq \in 0..MaxEvents
  <1>1. Len(w) \in Nat /\ DOMAIN w = 1..Len(w)
    BY LenProperties
  <1>2. \A i \in DOMAIN w : w[i] \in Message
    BY <1>1, ElementOfSeq
  <1> QED
    BY <1>1, <1>2 DEF Message

LEMMA NoMessage ==
  ASSUME NEW w \in Seq(Message)
  PROVE  w = <<>> <=> Len(w) = 0
  BY EmptySeq

LEMMA AppendMessage ==
  ASSUME NEW w \in Seq(Message), NEW m \in Message
  PROVE  /\ Append(w, m) \in Seq(Message)
         /\ Len(Append(w, m)) = Len(w) + 1
         /\ DOMAIN Append(w, m) = 1..(Len(w) + 1)
         /\ \A i \in DOMAIN w : Append(w, m)[i] = w[i]
         /\ Append(w, m)[Len(w) + 1] = m
  <1>1. Append(w, m) \in Seq(Message) /\ Len(Append(w, m)) = Len(w) + 1
        /\ (\A i \in 1..Len(w) : Append(w, m)[i] = w[i]) /\ Append(w, m)[Len(w) + 1] = m
    BY AppendProperties
  <1> QED
    BY <1>1, MessageType

LEMMA TailMessage ==
  ASSUME NEW w \in Seq(Message), w # <<>>
  PROVE  /\ Tail(w) \in Seq(Message)
         /\ Head(w) = w[1] /\ w[1] \in Message /\ 1 \in DOMAIN w
         /\ Len(Tail(w)) = Len(w) - 1 /\ Len(w) > 0
         /\ DOMAIN Tail(w) = 1..(Len(w) - 1)
         /\ \A i \in DOMAIN Tail(w) : Tail(w)[i] = w[i + 1] /\ i + 1 \in DOMAIN w
  <1>1. Tail(w) \in Seq(Message) /\ Len(Tail(w)) = Len(w) - 1
        /\ \A i \in 1..Len(Tail(w)) : Tail(w)[i] = w[i + 1]
    BY HeadTailProperties
  <1>2. Len(w) \in Nat /\ Len(w) > 0 /\ DOMAIN w = 1..Len(w)
    BY MessageType, NoMessage
  <1>3. 1 \in DOMAIN w /\ w[1] \in Message
    BY <1>2, MessageType
  <1>4. DOMAIN Tail(w) = 1..(Len(w) - 1)
    BY <1>1, LenProperties
  <1> QED
    BY <1>1, <1>2, <1>3, <1>4

\* The buffer's length is bounded and its end moves with seq.
LEMMA Append1Fact ==
  ASSUME NEW b \in Seq(Message), Len(b) <= BufferSize, NEW m \in Message
  PROVE  /\ Append1(b, m) \in Seq(Message)
         /\ Len(Append1(b, m)) <= BufferSize /\ Len(Append1(b, m)) > 0
         /\ Append1(b, m)[Len(Append1(b, m))] = m
         /\ \/ /\ Len(Append1(b, m)) = Len(b) + 1
               /\ \A i \in DOMAIN b : Append1(b, m)[i] = b[i]
            \/ /\ Len(Append1(b, m)) = Len(b) /\ Len(b) > 0
               /\ \A i \in 1..(Len(b) - 1) : Append1(b, m)[i] = b[i + 1]
  <1>1. Len(b) \in Nat /\ DOMAIN b = 1..Len(b)
    BY MessageType
  <1>2. CASE Len(b) < BufferSize
    BY <1>1, <1>2, AppendMessage, WsConstantsOK DEF Append1
  <1>3. CASE ~(Len(b) < BufferSize)
    <2> DEFINE L == Len(b)
    <2>0. L = BufferSize /\ L # 0
      <3>1. L \in Nat /\ L <= BufferSize /\ ~(L < BufferSize)
        BY <1>1, <1>3
      <3> HIDE DEF L
      <3> QED
        BY <3>1, WsConstantsOK
    <2>1. b # <<>> /\ Len(b) = BufferSize
      BY <2>0, NoMessage
    <2> DEFINE t == Tail(b)
    <2>2. t \in Seq(Message) /\ Len(t) = Len(b) - 1 /\ DOMAIN t = 1..(Len(b) - 1)
          /\ \A i \in 1..(Len(b) - 1) : t[i] = b[i + 1]
      BY <2>1, TailMessage
    <2>3. Append1(b, m) = Append(t, m)
      BY <1>3 DEF Append1
    <2> HIDE DEF t
    <2> QED
      BY <1>1, <2>1, <2>2, <2>3, AppendMessage, WsConstantsOK
  <1> QED
    BY <1>2, <1>3

\* A replay is the end of the buffer, all that is newer and nothing else.
LEMMA NewerFact ==
  ASSUME TypeOK, NumberOK, NEW since \in 0..MaxEvents
  PROVE  /\ Newer(since) \in Seq(Message)
         /\ Len(Newer(since)) <= seq
         /\ \A i \in DOMAIN Newer(since) :
              /\ Newer(since)[i].seq = (seq - Len(Newer(since))) + i
              /\ Newer(since)[i].seq > since
         /\ ~TooOld(since) => \A n \in (since + 1)..seq : n > seq - Len(Newer(since))
         /\ \A i \in DOMAIN Newer(since) : \E k \in DOMAIN buffer : Newer(since)[i] = buffer[k]
         /\ \A k \in DOMAIN buffer : buffer[k].seq > since =>
              \E i \in DOMAIN Newer(since) : Newer(since)[i] = buffer[k]
  <1> DEFINE L == Len(buffer)
             base == seq - L
             from == IF since <= base THEN 1 ELSE IF since >= seq THEN L + 1 ELSE since - base + 1
             q == SubSeq(buffer, from, L)
  <1>1. L \in Nat /\ DOMAIN buffer = 1..L /\ base \in Nat /\ seq \in Nat /\ since \in Nat
        /\ \A i \in 1..L : buffer[i] \in Message /\ buffer[i].seq = base + i
    BY MessageType DEF TypeOK, NumberOK
  <1> HIDE DEF L, base
  <1>2. from \in 1..(L + 1) /\ \A j \in 1..L : buffer[j].seq > since <=> j >= from
    <2>1. CASE since <= base
      BY <1>1, <2>1
    <2>2. CASE since > base /\ since >= seq
      BY <1>1, <2>2 DEF base
    <2>3. CASE since > base /\ since < seq
      BY <1>1, <2>3 DEF base
    <2> QED
      BY <1>1, <2>1, <2>2, <2>3
  <1>3. \A i \in 1..(L + 1) : (\A j \in 1..L : buffer[j].seq > since <=> j >= i) => i = from
    <2> SUFFICES ASSUME NEW i \in 1..(L + 1), \A j \in 1..L : buffer[j].seq > since <=> j >= i,
                        i # from
                 PROVE  FALSE
      OBVIOUS
    <2> HIDE DEF from
    <2>1. CASE i < from
      <3>1. i \in 1..L /\ ~(i >= from)
        BY <1>1, <1>2, <2>1
      <3> QED
        BY <1>2, <3>1
    <2>2. CASE i > from
      <3>1. from \in 1..L /\ ~(from >= i)
        BY <1>1, <1>2, <2>2
      <3> QED
        BY <1>2, <3>1
    <2> QED
      BY <1>1, <1>2, <2>1, <2>2
  <1>4. Newer(since) = q
    <2>1. from = CHOOSE i \in 1..(L + 1) : \A j \in DOMAIN buffer : buffer[j].seq > since <=> j >= i
      BY <1>1, <1>2, <1>3
    <2> QED
      BY <2>1 DEF Newer, After, L
  <1>5. q \in Seq(Message) /\ Len(q) = L - from + 1
        /\ \A i \in 1..(L - from + 1) : q[i] = buffer[from + i - 1]
    <2>1. \A i \in from..L : buffer[i] \in Message
      BY <1>1, <1>2
    <2>2. from \in Int /\ L \in Int
      BY <1>1, <1>2
    <2> HIDE DEF from
    <2>3. /\ SubSeq(buffer, from, L) \in Seq(Message)
          /\ Len(SubSeq(buffer, from, L)) = IF from <= L THEN L - from + 1 ELSE 0
          /\ \A i \in 1..(L - from + 1) : SubSeq(buffer, from, L)[i] = buffer[from + i - 1]
      BY <2>1, <2>2, SubSeqProperties
    <2> QED
      BY <1>1, <1>2, <2>3
  <1>6. DOMAIN q = 1..(L - from + 1)
    BY <1>5, MessageType
  <1>7. ~TooOld(since) => \A n \in (since + 1)..seq : n > seq - (L - from + 1)
    <2> SUFFICES ASSUME ~TooOld(since), NEW n \in (since + 1)..seq
                 PROVE  n > seq - (L - from + 1)
      OBVIOUS
    <2>1. L > 0 => since >= base
      BY <1>1 DEF TooOld, L
    <2>2. L = 0 => seq = 0
      BY <1>1, NoMessage DEF NumberOK, TypeOK, L
    <2> QED
      BY <1>1, <2>1, <2>2 DEF base
  <1> HIDE DEF q, from
  <1>8. \A i \in DOMAIN q : from + i - 1 \in DOMAIN buffer /\ q[i] = buffer[from + i - 1]
    <2> SUFFICES ASSUME NEW i \in 1..(L - from + 1)
                 PROVE  from + i - 1 \in 1..L /\ q[i] = buffer[from + i - 1]
      BY <1>1, <1>6
    <2>1. from + i - 1 \in 1..L
      BY <1>1, <1>2
    <2> QED
      BY <1>5, <2>1
  <1>9. \A i \in DOMAIN q : q[i].seq = (seq - Len(q)) + i /\ q[i].seq > since
    <2> SUFFICES ASSUME NEW i \in DOMAIN q
                 PROVE  q[i].seq = (seq - Len(q)) + i /\ q[i].seq > since
      OBVIOUS
    <2>1. i \in 1..(L - from + 1) /\ from + i - 1 \in 1..L /\ q[i] = buffer[from + i - 1]
      BY <1>1, <1>6, <1>8
    <2>2. q[i].seq = base + (from + i - 1)
      BY <1>1, <2>1
    <2>3. from + i - 1 >= from
      BY <1>2, <2>1
    <2>4. q[i].seq > since
      BY <1>2, <2>1, <2>3
    <2>5. base + (from + i - 1) = (seq - (L - from + 1)) + i
      BY <1>1, <1>2, <2>1 DEF base
    <2> QED
      BY <1>5, <2>2, <2>4, <2>5
  <1>10. \A k \in DOMAIN buffer : buffer[k].seq > since => \E i \in DOMAIN q : q[i] = buffer[k]
    <2> SUFFICES ASSUME NEW k \in DOMAIN buffer, buffer[k].seq > since
                 PROVE  \E i \in DOMAIN q : q[i] = buffer[k]
      OBVIOUS
    <2>1. k >= from /\ k \in 1..L
      BY <1>1, <1>2
    <2>2. (k - from + 1) \in DOMAIN q /\ from + (k - from + 1) - 1 = k
      BY <1>1, <1>2, <1>6, <2>1
    <2> QED
      BY <1>8, <2>2
  <1>11. Len(q) <= seq
    BY <1>1, <1>2, <1>5 DEF base
  <1> QED
    BY <1>4, <1>5, <1>6, <1>7, <1>8, <1>9, <1>10, <1>11

----------------------------------------------------------------------------
(* What an event and a message received change.                            *)

\* Event m of kind k goes into the buffer and to every registered socket.
Sends(k, m) ==
  /\ m \in Message /\ m.seq = seq + 1 /\ m.kind = k /\ m.ver = roster'
  /\ buffer' = Append1(buffer, m)
  /\ wire' = [c \in Clients |-> IF c \in conns THEN Append(wire[c], m) ELSE wire[c]]
  /\ seq' = seq + 1 /\ events' = events + 1 /\ events' \in 0..MaxEvents
  /\ roster' = (IF k = "usage" THEN roster ELSE roster + 1)
  /\ UNCHANGED <<endpoint, client, breaks>>

LEMMA BroadcastFact ==
  ASSUME TypeOK, NumberOK, NEW k \in EventKinds, Broadcast(k)
  PROVE  \E m \in Message : Sends(k, m)
  <1> DEFINE m == [seq |-> seq + 1, kind |-> k, ver |-> roster']
  <1>1. /\ buffer' = Append1(buffer, m)
        /\ wire' = [c \in Clients |-> IF c \in conns THEN Append(wire[c], m) ELSE wire[c]]
        /\ seq' = seq + 1 /\ events' = events + 1 /\ events < MaxEvents
        /\ roster' = (IF k = "usage" THEN roster ELSE roster + 1)
        /\ UNCHANGED <<endpoint, client, breaks>>
    BY DEF Broadcast
  <1>2. seq + 1 \in 0..MaxEvents /\ roster' \in 0..MaxEvents /\ events' \in 0..MaxEvents
    BY <1>1, WsConstantsOK DEF TypeOK, NumberOK
  <1>3. m \in Message /\ m.seq = seq + 1 /\ m.kind = k /\ m.ver = roster'
    BY <1>2 DEF Message
  <1> HIDE DEF m
  <1> QED
    BY <1>1, <1>2, <1>3 DEF Sends

\* The head of a page's messages, and what it leaves of the number the page
\* keeps and of how its stream joins.
LEMMA ReceiveFact ==
  ASSUME TypeOK, NEW c \in Clients, Receive(c)
  PROVE  /\ page[c] = "open" /\ wire[c] \in Seq(Message) /\ wire[c] # <<>>
         /\ wire' = [wire EXCEPT ![c] = Tail(wire[c])] /\ Tail(wire[c]) \in Seq(Message)
         /\ wire[c][1] \in Message /\ wire[c][1].seq \in 0..MaxEvents
         /\ 1 \in DOMAIN wire[c] /\ DOMAIN Tail(wire[c]) = 1..(Len(wire[c]) - 1)
         /\ DOMAIN wire[c] = 1..Len(wire[c]) /\ Len(wire[c]) \in Nat
         /\ \A i \in DOMAIN Tail(wire[c]) : Tail(wire[c])[i] = wire[c][i + 1] /\ i + 1 \in DOMAIN wire[c]
         /\ IF wire[c][1].seq > lastSeq[c]
            THEN /\ lastSeq' = [lastSeq EXCEPT ![c] = wire[c][1].seq]
                 /\ stream' = [stream EXCEPT ![c] = IF @ = "gap" THEN "clean" ELSE @]
                 /\ old' = [old EXCEPT ![c] = FALSE]
            ELSE lastSeq' = lastSeq /\ UNCHANGED <<stream, old>>
         /\ UNCHANGED <<manager, endpoint, page, breaks>>
         /\ Apply(c, wire[c][1])
  <1>1. wire[c] \in Seq(Message) /\ wire[c] # <<>>
    BY DEF TypeOK, Receive
  <1>2. Head(wire[c]) = wire[c][1]
    BY <1>1, TailMessage
  <1>3. wire' = [wire EXCEPT ![c] = Tail(wire[c])]
    BY DEF Receive, Apply
  <1>4. wire[c][1] \in Message /\ wire[c][1].seq \in 0..MaxEvents
    BY <1>1, TailMessage DEF Message
  <1>5. lastSeq' = [lastSeq EXCEPT ![c] = Greater(lastSeq[c], wire[c][1].seq)]
        /\ Apply(c, wire[c][1]) /\ page[c] = "open" /\ UNCHANGED <<manager, endpoint, page, breaks>>
    BY <1>2 DEF Receive
  <1>6. IF wire[c][1].seq > lastSeq[c]
        THEN /\ stream' = [stream EXCEPT ![c] = IF @ = "gap" THEN "clean" ELSE @]
             /\ old' = [old EXCEPT ![c] = FALSE]
        ELSE UNCHANGED <<stream, old>>
    BY <1>5 DEF Apply
  <1>7. IF wire[c][1].seq > lastSeq[c] THEN lastSeq' = [lastSeq EXCEPT ![c] = wire[c][1].seq]
                                       ELSE lastSeq' = lastSeq
    <2> DEFINE n == wire[c][1].seq
    <2>1. lastSeq \in [Clients -> 0..MaxEvents] /\ n \in 0..MaxEvents
          /\ lastSeq' = [lastSeq EXCEPT ![c] = Greater(lastSeq[c], n)]
      BY <1>4, <1>5 DEF TypeOK
    <2> HIDE DEF n
    <2>2. CASE n > lastSeq[c]
      <3>1. Greater(lastSeq[c], n) = n
        BY <2>1, <2>2 DEF Greater
      <3> QED
        BY <2>1, <2>2, <3>1 DEF n
    <2>3. CASE ~(n > lastSeq[c])
      <3>1. Greater(lastSeq[c], n) = lastSeq[c]
        BY <2>1, <2>3 DEF Greater
      <3>2. lastSeq' = lastSeq
        BY <2>1, <3>1
      <3> QED
        BY <2>3, <3>2 DEF n
    <2> QED
      BY <2>2, <2>3
  <1>8. /\ Tail(wire[c]) \in Seq(Message) /\ 1 \in DOMAIN wire[c]
        /\ DOMAIN Tail(wire[c]) = 1..(Len(wire[c]) - 1)
        /\ \A i \in DOMAIN Tail(wire[c]) : Tail(wire[c])[i] = wire[c][i + 1] /\ i + 1 \in DOMAIN wire[c]
    BY <1>1, TailMessage
  <1>9. DOMAIN wire[c] = 1..Len(wire[c]) /\ Len(wire[c]) \in Nat
    BY <1>1, MessageType
  <1> QED
    BY <1>1, <1>3, <1>4, <1>5, <1>6, <1>7, <1>8, <1>9

----------------------------------------------------------------------------
(* Types.                                                                  *)

LEMMA TypeBroadcast ==
  ASSUME TypeOK, NumberOK, NEW k \in EventKinds, NEW m, Sends(k, m)
  PROVE  TypeOK'
  <1>1. buffer' \in Seq(Message) /\ Len(buffer') <= BufferSize
    BY Append1Fact DEF Sends, TypeOK
  <1>2. \A c \in Clients : wire'[c] \in Seq(Message)
    BY AppendMessage DEF Sends, TypeOK
  <1>3. wire' \in [Clients -> Seq(Message)]
    BY <1>2 DEF Sends
  <1>4. seq' \in 0..MaxEvents /\ roster' \in 0..MaxEvents /\ events' \in 0..MaxEvents
    BY WsConstantsOK DEF Sends, TypeOK, NumberOK
  <1> QED
    BY <1>1, <1>3, <1>4 DEF Sends, TypeOK

LEMMA TypeConnect ==
  ASSUME TypeOK, NumberOK, NEW c \in Clients, Connect(c)
  PROVE  TypeOK'
  <1> USE DEF TypeOK
  <1>1. Newer(lastSeq[c]) \in Seq(Message)
    BY NewerFact
  <1>2. stream' \in [Clients -> {"clean", "gap", "held"}] /\ skipped' \in [Clients -> BOOLEAN]
        /\ dated' \in [Clients -> BOOLEAN]
    <2>1. PICK how \in {"clean", "held", "gap"} : Join(c, how)
      BY DEF Connect, Snapshot
    <2>2. stream' \in [Clients -> {"clean", "gap", "held"}]
      BY <2>1 DEF Join
    <2>3. skipped' \in [Clients -> BOOLEAN] /\ dated' \in [Clients -> BOOLEAN]
      BY <2>1 DEF Join
    <2> QED
      BY <2>2, <2>3
  <1>3. handler' \in [Clients -> {"none", "replay", "snapshot", "loop"}]
        /\ wire' \in [Clients -> Seq(Message)] /\ todo' \in [Clients -> Seq(Message)]
    <2>1. PICK s \in {"replay", "snapshot", "loop"} : handler' = [handler EXCEPT ![c] = s]
      BY DEF Connect, Snapshot
    <2>2. wire' = [wire EXCEPT ![c] = Newer(lastSeq[c])] \/ wire' = wire
      BY DEF Connect, Snapshot
    <2>3. todo' = [todo EXCEPT ![c] = Newer(lastSeq[c])] \/ todo' = todo
      BY DEF Connect, Snapshot
    <2>4. handler' \in [Clients -> {"none", "replay", "snapshot", "loop"}]
      BY <2>1
    <2>5. wire' \in [Clients -> Seq(Message)] /\ todo' \in [Clients -> Seq(Message)]
      BY <1>1, <2>2, <2>3
    <2> QED
      BY <2>4, <2>5
  <1> QED
    BY <1>2, <1>3 DEF Connect, Register

LEMMA TypeSends ==
  ASSUME TypeOK, NEW c \in Clients, ReplayOne(c) \/ SendSnapshot(c) \/ SendTimeout(c)
  PROVE  TypeOK'
  <1> USE DEF TypeOK
  <1>1. CASE ReplayOne(c)
    <2>1. CASE todo[c] = <<>>
      BY <1>1, <2>1 DEF ReplayOne
    <2>2. CASE todo[c] # <<>>
      <3>1. Head(todo[c]) \in Message /\ Tail(todo[c]) \in Seq(Message)
        BY <2>2, TailMessage
      <3>2. Append(wire[c], Head(todo[c])) \in Seq(Message)
        BY <3>1, AppendMessage
      <3>3. /\ wire' = [wire EXCEPT ![c] = Append(wire[c], Head(todo[c]))]
            /\ todo' = [todo EXCEPT ![c] = Tail(todo[c])]
            /\ UNCHANGED <<handler, manager, conns, client, breaks>>
        BY <1>1, <2>2 DEF ReplayOne
      <3>4. wire' \in [Clients -> Seq(Message)] /\ todo' \in [Clients -> Seq(Message)]
        BY <3>1, <3>2, <3>3
      <3> QED
        BY <3>3, <3>4
    <2> QED
      BY <2>1, <2>2
  <1>2. CASE SendSnapshot(c)
    <2>1. [seq |-> 0, kind |-> "usage", ver |-> 0] \in Message
      BY WsConstantsOK DEF Message, EventKinds
    <2>2. Append(wire[c], [seq |-> 0, kind |-> "usage", ver |-> 0]) \in Seq(Message)
      BY <2>1, AppendMessage
    <2> QED
      BY <1>2, <2>2 DEF SendSnapshot
  <1>3. CASE SendTimeout(c)
    BY <1>3 DEF SendTimeout
  <1> QED
    BY <1>1, <1>2, <1>3

LEMMA TypeApply ==
  ASSUME TypeOK, NEW c \in Clients, NEW m \in Message, Apply(c, m)
  PROVE  /\ view' \in [Clients -> 0..MaxEvents]
         /\ fetch' \in [Clients -> {"none", "asked", "answered"}]
         /\ answer' \in [Clients -> 0..MaxEvents]
         /\ skipped' \in [Clients -> BOOLEAN]
         /\ dated' \in [Clients -> BOOLEAN]
  <1> USE DEF TypeOK
  <1>0. 0 \in 0..MaxEvents /\ m.ver \in 0..MaxEvents
    BY WsConstantsOK DEF Message
  <1>1. CASE Ask(c) /\ UNCHANGED <<view, skipped>>
    BY <1>0, <1>1 DEF Ask
  <1>2. CASE /\ view' = [view EXCEPT ![c] = IF @ + 1 = m.ver THEN m.ver ELSE @]
             /\ dated' = [dated EXCEPT ![c] = @ \/ Older(c, m.ver)]
             /\ UNCHANGED <<fetch, answer, skipped>>
    <2>1. view' \in [Clients -> 0..MaxEvents]
      BY <1>0, <1>2
    <2>2. dated' \in [Clients -> BOOLEAN]
      <3> DEFINE late == Older(c, m.ver)
      <3>1. (dated[c] \/ late) \in BOOLEAN
        BY DEF Older
      <3> HIDE DEF late
      <3> QED
        BY <1>2, <3>1 DEF late
    <2> QED
      BY <1>2, <2>1, <2>2
  <1>3. CASE UNCHANGED accounts
    BY <1>3
  <1> QED
    BY <1>1, <1>2, <1>3 DEF Apply

LEMMA TypeReceive ==
  ASSUME TypeOK, NEW c \in Clients, Receive(c)
  PROVE  TypeOK'
  <1>1. wire[c][1] \in Message /\ Apply(c, wire[c][1]) /\ UNCHANGED <<manager, endpoint, page, breaks>>
    BY ReceiveFact
  <1>2. wire' \in [Clients -> Seq(Message)]
    <2>1. wire' = [wire EXCEPT ![c] = Tail(wire[c])] /\ Tail(wire[c]) \in Seq(Message)
      BY ReceiveFact
    <2> QED
      BY <2>1 DEF TypeOK
  <1>3. lastSeq' \in [Clients -> 0..MaxEvents]
    <2>1. wire[c][1].seq \in 0..MaxEvents
          /\ (lastSeq' = [lastSeq EXCEPT ![c] = wire[c][1].seq] \/ lastSeq' = lastSeq)
      BY ReceiveFact
    <2> QED
      BY <2>1 DEF TypeOK
  <1>4. stream' \in [Clients -> {"clean", "gap", "held"}] /\ old' \in [Clients -> BOOLEAN]
    <2>1. \/ /\ stream' = [stream EXCEPT ![c] = IF @ = "gap" THEN "clean" ELSE @]
             /\ old' = [old EXCEPT ![c] = FALSE]
          \/ UNCHANGED <<stream, old>>
      BY ReceiveFact
    <2>2. stream \in [Clients -> {"clean", "gap", "held"}] /\ old \in [Clients -> BOOLEAN]
      BY DEF TypeOK
    <2>3. CASE UNCHANGED <<stream, old>>
      BY <2>2, <2>3
    <2>4. CASE /\ stream' = [stream EXCEPT ![c] = IF @ = "gap" THEN "clean" ELSE @]
               /\ old' = [old EXCEPT ![c] = FALSE]
      <3>1. stream' \in [Clients -> {"clean", "gap", "held"}]
        BY <2>2, <2>4
      <3>2. old' \in [Clients -> BOOLEAN]
        BY <2>2, <2>4, Zenon
      <3> QED
        BY <3>1, <3>2
    <2> QED
      BY <2>1, <2>3, <2>4
  <1> QED
    BY <1>1, <1>2, <1>3, <1>4, TypeApply DEF TypeOK

LEMMA TypeFetched ==
  ASSUME TypeOK, NEW c \in Clients, Fetched(c)
  PROVE  TypeOK'
  <1> USE DEF TypeOK
  <1>0. 0 \in 0..MaxEvents
    BY WsConstantsOK
  <1>1. CASE Answer(c)
    BY <1>1 DEF Answer
  <1>2. ASSUME Arrive(c) \/ FetchFails(c) PROVE TypeOK'
    <2>1. PICK v, lacks : Conclude(c, v, lacks) /\ v \in 0..MaxEvents /\ lacks \in BOOLEAN
      BY <1>2 DEF Arrive, FetchFails
    <2>2. /\ page' = [page EXCEPT ![c] = IF @ = "loading" THEN "closed" ELSE @]
          /\ UNCHANGED <<manager, endpoint, wire, lastSeq, stream, old, breaks>>
      BY <1>2 DEF Arrive, FetchFails
    <2>3. /\ view' \in [Clients -> 0..MaxEvents] /\ answer' \in [Clients -> 0..MaxEvents]
          /\ fetch' \in [Clients -> {"none", "asked", "answered"}]
          /\ skipped' \in [Clients -> BOOLEAN] /\ dated' \in [Clients -> BOOLEAN]
      BY <1>0, <2>1 DEF Conclude
    <2> QED
      BY <2>2, <2>3
  <1> QED
    BY <1>1, <1>2 DEF Fetched

LEMMA TypeBreak ==
  ASSUME TypeOK, NEW c \in Clients, Drop(c) \/ Reload(c)
  PROVE  TypeOK'
  <1> USE DEF TypeOK
  <1>0. 0 \in 0..MaxEvents
    BY WsConstantsOK
  <1>1. breaks' \in 0..MaxBreaks
    <2>1. breaks < MaxBreaks /\ breaks' = breaks + 1
      BY DEF Drop, Reload, Break
    <2> QED
      BY <2>1, WsConstantsOK
  <1>2. /\ conns' \subseteq Clients /\ handler' \in [Clients -> {"none", "replay", "snapshot", "loop"}]
        /\ todo' \in [Clients -> Seq(Message)] /\ wire' \in [Clients -> Seq(Message)]
    <2>1. Close(c) /\ <<>> \in Seq(Message)
      BY EmptySeq DEF Drop, Reload
    <2> QED
      BY <2>1 DEF Close
  <1>3. page' \in [Clients -> {"loading", "closed", "open"}]
    <2>1. PICK p \in {"loading", "closed"} : page' = [page EXCEPT ![c] = p]
      BY DEF Drop, Reload
    <2> QED
      BY <2>1
  <1>4. /\ fetch' \in [Clients -> {"none", "asked", "answered"}]
        /\ answer' \in [Clients -> 0..MaxEvents] /\ dated' \in [Clients -> BOOLEAN]
        /\ UNCHANGED <<manager, lastSeq, stream, old, view, skipped>>
    <2>1. CASE Drop(c)
      BY <2>1 DEF Drop
    <2>2. CASE Reload(c)
      BY <1>0, <2>2 DEF Reload, Ask
    <2> QED
      BY <2>1, <2>2
  <1> QED
    BY <1>1, <1>2, <1>3, <1>4

LEMMA TypeRestart == TypeOK /\ Restart => TypeOK'
  <1> SUFFICES ASSUME TypeOK, Restart PROVE TypeOK'
    OBVIOUS
  <1>1. <<>> \in Seq(Message) /\ Len(<<>>) = 0
    BY EmptySeq
  <1> QED
    BY <1>1, WsConstantsOK DEF TypeOK, Restart, Break

LEMMA TypeStep ==
  ASSUME TypeOK, NumberOK, [Next]_vars
  PROVE  TypeOK'
  <1>1. CASE \E k \in EventKinds : Broadcast(k)
    BY <1>1, BroadcastFact, TypeBroadcast
  <1>2. ASSUME NEW c \in Clients,
               Proceed(c) \/ Fetched(c) \/ SendTimeout(c) \/ Drop(c) \/ Reload(c)
        PROVE  TypeOK'
    BY <1>2, TypeConnect, TypeSends, TypeReceive, TypeFetched, TypeBreak DEF Proceed
  <1>3. CASE UNCHANGED vars
    BY <1>3 DEF TypeOK, vars
  <1> QED
    BY <1>1, <1>2, <1>3, TypeRestart DEF Next

----------------------------------------------------------------------------
(* What the other steps change.                                            *)

\* Requests and their answers touch no stream.
LEMMA FetchedFact ==
  ASSUME TypeOK, NEW c \in Clients, Fetched(c)
  PROVE  /\ UNCHANGED <<manager, endpoint, wire, lastSeq, stream, old>>
         /\ \A d \in Clients : page'[d] = "open" <=> page[d] = "open"
  <1>1. CASE Answer(c)
    BY <1>1 DEF Answer
  <1>2. CASE Arrive(c)
    BY <1>2 DEF Arrive, TypeOK
  <1>3. CASE FetchFails(c)
    BY <1>3 DEF FetchFails, TypeOK
  <1> QED
    BY <1>1, <1>2, <1>3 DEF Fetched

\* A page that loses its socket: nothing on the way, nothing to send.
LEMMA BreakFact ==
  ASSUME TypeOK, NEW c \in Clients, Drop(c) \/ Reload(c)
  PROVE  /\ UNCHANGED <<manager, lastSeq, stream, old>>
         /\ conns' = conns \ {c} /\ page'[c] # "open"
         /\ handler' = [handler EXCEPT ![c] = "none"]
         /\ todo' = [todo EXCEPT ![c] = <<>>] /\ wire' = [wire EXCEPT ![c] = <<>>]
         /\ \A d \in Clients \ {c} : page'[d] = page[d]
  <1>1. CASE Drop(c)
    BY <1>1 DEF Drop, Close, TypeOK
  <1>2. CASE Reload(c)
    BY <1>2 DEF Reload, Close, TypeOK
  <1> QED
    BY <1>1, <1>2

\* The three ways a socket is opened, each by what it gives the page to receive.
LEMMA ConnectFact ==
  ASSUME TypeOK, NumberOK, NEW c \in Clients, Connect(c)
  PROVE  /\ UNCHANGED <<manager, lastSeq, old>>
         /\ page[c] = "closed" /\ page'[c] = "open" /\ conns' = conns \cup {c}
         /\ Newer(lastSeq[c]) \in Seq(Message)
         /\ \A d \in Clients : d # c =>
              /\ page'[d] = page[d] /\ stream'[d] = stream[d] /\ handler'[d] = handler[d]
              /\ wire'[d] = wire[d] /\ todo'[d] = todo[d]
         /\ \/ /\ ~TooOld(lastSeq[c])
               /\ handler'[c] = "loop" /\ wire'[c] = Newer(lastSeq[c]) /\ todo'[c] = todo[c]
               /\ (stream'[c] = "clean" /\ ~old[c]) \/ stream'[c] = "gap"
            \/ /\ handler'[c] = "replay" /\ todo'[c] = Newer(lastSeq[c]) /\ wire'[c] = wire[c]
               /\ stream'[c] = "held"
            \/ /\ handler'[c] = "snapshot" /\ todo'[c] = todo[c] /\ wire'[c] = wire[c]
               /\ stream'[c] = "gap"
  <1>1. Newer(lastSeq[c]) \in Seq(Message)
    BY NewerFact DEF TypeOK
  <1> DEFINE missed == Newer(lastSeq[c])
  <1> HIDE DEF missed
  <1>2. /\ UNCHANGED <<manager, lastSeq, old>>
        /\ page[c] = "closed" /\ page'[c] = "open" /\ conns' = conns \cup {c}
        /\ \A d \in Clients : d # c => page'[d] = page[d]
    BY DEF Connect, Register, TypeOK
  <1>3. ASSUME NEW how \in {"clean", "gap", "held"}, Join(c, how)
        PROVE  /\ stream'[c] = IF how = "clean" /\ old[c] THEN "gap" ELSE how
               /\ \A d \in Clients : d # c => stream'[d] = stream[d]
    BY <1>3 DEF Join, TypeOK
  <1>4. CASE /\ ~TooOld(lastSeq[c])
             /\ handler' = [handler EXCEPT ![c] = "loop"]
             /\ wire' = [wire EXCEPT ![c] = missed]
             /\ Join(c, "clean")
             /\ UNCHANGED todo
    <2>1. /\ handler'[c] = "loop" /\ wire'[c] = missed /\ todo' = todo
          /\ \A d \in Clients : d # c => handler'[d] = handler[d] /\ wire'[d] = wire[d]
      BY <1>4 DEF TypeOK
    <2> QED
      BY <1>1, <1>2, <1>3, <1>4, <2>1 DEF missed
  <1>5. CASE /\ handler' = [handler EXCEPT ![c] = "replay"]
             /\ todo' = [todo EXCEPT ![c] = missed]
             /\ Join(c, "held")
             /\ UNCHANGED wire
    <2>1. /\ handler'[c] = "replay" /\ todo'[c] = missed /\ wire' = wire
          /\ \A d \in Clients : d # c => handler'[d] = handler[d] /\ todo'[d] = todo[d]
      BY <1>5 DEF TypeOK
    <2> QED
      BY <1>1, <1>2, <1>3, <1>5, <2>1 DEF missed
  <1>6. CASE Snapshot(c)
    <2>1. /\ handler'[c] = "snapshot" /\ todo' = todo /\ wire' = wire /\ Join(c, "gap")
          /\ \A d \in Clients : d # c => handler'[d] = handler[d]
      BY <1>6 DEF Snapshot, TypeOK
    <2> QED
      BY <1>1, <1>2, <1>3, <2>1
  <1> QED
    BY <1>4, <1>5, <1>6 DEF Connect, missed

\* A held-up replay moves its next event to the end of what is on the way.
LEMMA ReplayFact ==
  ASSUME TypeOK, NEW c \in Clients, ReplayOne(c)
  PROVE  /\ handler[c] = "replay" /\ UNCHANGED <<manager, conns, client>>
         /\ \/ /\ todo[c] = <<>> /\ handler' = [handler EXCEPT ![c] = "loop"]
               /\ UNCHANGED <<todo, wire>>
            \/ /\ todo[c] # <<>> /\ handler' = handler /\ todo[c][1] \in Message
               /\ wire' = [wire EXCEPT ![c] = Append(wire[c], todo[c][1])]
               /\ todo' = [todo EXCEPT ![c] = Tail(todo[c])]
  <1>1. todo[c] # <<>> => Head(todo[c]) = todo[c][1] /\ todo[c][1] \in Message
    BY TailMessage DEF TypeOK
  <1> QED
    BY <1>1 DEF ReplayOne

\* A snapshot has no number.
LEMMA SnapshotFact ==
  ASSUME TypeOK, NEW c \in Clients, SendSnapshot(c)
  PROVE  \E m \in Message :
           /\ m.seq = 0 /\ m.ver = 0 /\ handler[c] = "snapshot"
           /\ handler' = [handler EXCEPT ![c] = "loop"]
           /\ wire' = [wire EXCEPT ![c] = Append(wire[c], m)] \/ wire' = wire
           /\ UNCHANGED <<manager, conns, todo, client>>
  <1> DEFINE m == [seq |-> 0, kind |-> "usage", ver |-> 0]
  <1>1. m \in Message /\ m.seq = 0 /\ m.ver = 0
    BY WsConstantsOK DEF Message, EventKinds
  <1>2. /\ wire' = [wire EXCEPT ![c] = Append(wire[c], m)] \/ wire' = wire
        /\ handler[c] = "snapshot" /\ handler' = [handler EXCEPT ![c] = "loop"]
        /\ UNCHANGED <<manager, conns, todo, client>>
    BY DEF SendSnapshot
  <1> HIDE DEF m
  <1> QED
    BY <1>1, <1>2

----------------------------------------------------------------------------
(* Numbers.                                                                *)

LEMMA NumberBroadcast ==
  ASSUME TypeOK, NumberOK, NEW k \in EventKinds, NEW m, Sends(k, m)
  PROVE  NumberOK'
  <1> DEFINE b == Append1(buffer, m)
             L == Len(buffer)
             K == Len(b)
  <1>1. /\ m \in Message /\ m.seq = seq + 1 /\ buffer' = b /\ seq' = seq + 1
        /\ events' = events + 1 /\ (roster' = roster \/ roster' = roster + 1)
    BY DEF Sends
  <1>2. /\ b \in Seq(Message) /\ K > 0 /\ b[K] = m
        /\ \/ K = L + 1 /\ \A i \in DOMAIN buffer : b[i] = buffer[i]
           \/ K = L /\ L > 0 /\ \A i \in 1..(L - 1) : b[i] = buffer[i + 1]
    BY <1>1, Append1Fact DEF TypeOK
  <1>3. /\ L \in Nat /\ DOMAIN buffer = 1..L /\ L <= seq /\ seq \in Nat
        /\ \A i \in 1..L : buffer[i].seq = (seq - L) + i
    BY MessageType DEF TypeOK, NumberOK
  <1>4. K \in Nat /\ DOMAIN b = 1..K /\ b # <<>>
    BY <1>2, MessageType, NoMessage
  <1> HIDE DEF K, L, b
  <1>5. \A i \in 1..K : b[i].seq = (seq + 1 - K) + i
    <2> SUFFICES ASSUME NEW i \in 1..K PROVE b[i].seq = (seq + 1 - K) + i
      OBVIOUS
    <2>1. CASE i = K
      BY <1>1, <1>2, <1>3, <1>4, <2>1
    <2>2. CASE i # K /\ K = L + 1 /\ \A j \in DOMAIN buffer : b[j] = buffer[j]
      <3>1. i \in 1..L
        BY <1>3, <1>4, <2>2
      <3>2. b[i] = buffer[i] /\ buffer[i].seq = (seq - L) + i
        BY <1>3, <2>2, <3>1
      <3>3. (seq + 1 - K) + i = (seq - L) + i
        BY <1>3, <2>2, <3>1
      <3> QED
        BY <3>2, <3>3
    <2>3. CASE i # K /\ K = L /\ L > 0 /\ \A j \in 1..(L - 1) : b[j] = buffer[j + 1]
      <3>1. i \in 1..(L - 1) /\ i + 1 \in 1..L
        BY <1>3, <1>4, <2>3
      <3> QED
        BY <1>3, <2>3, <3>1
    <2> QED
      BY <1>2, <2>1, <2>2, <2>3
  <1>6. K <= seq + 1
    BY <1>2, <1>3, <1>4
  <1>7. K = Len(buffer')
    BY <1>1 DEF K
  <1>8. seq + 1 <= events + 1 /\ roster' <= events + 1
    BY <1>1 DEF TypeOK, NumberOK
  <1>9. \A i \in DOMAIN buffer' : buffer'[i].seq = (seq' - Len(buffer')) + i
    <2> SUFFICES ASSUME NEW i \in DOMAIN buffer'
                 PROVE  buffer'[i].seq = (seq' - Len(buffer')) + i
      OBVIOUS
    <2>1. DOMAIN buffer' = 1..K /\ buffer'[i] = b[i] /\ seq' = seq + 1 /\ Len(buffer') = K
      BY <1>1, <1>4, <1>7
    <2>2. i \in 1..K
      BY <2>1
    <2>3. b[i].seq = (seq + 1 - K) + i
      BY <1>5, <2>2
    <2> QED
      BY <1>3, <1>4, <2>1, <2>2, <2>3
  <1>10. Len(buffer') <= seq' /\ buffer' # <<>> /\ seq' <= events' /\ roster' <= events'
    BY <1>1, <1>4, <1>6, <1>7, <1>8
  <1> QED
    BY <1>9, <1>10 DEF NumberOK

LEMMA NumberStep ==
  ASSUME TypeOK, NumberOK, [Next]_vars
  PROVE  NumberOK'
  <1>1. CASE \E k \in EventKinds : Broadcast(k)
    BY <1>1, BroadcastFact, NumberBroadcast
  <1>2. CASE UNCHANGED manager
    BY <1>2 DEF NumberOK
  <1>3. ASSUME NEW c \in Clients,
               Proceed(c) \/ Fetched(c) \/ SendTimeout(c) \/ Drop(c) \/ Reload(c)
        PROVE  UNCHANGED manager
    <2>1. CASE Connect(c)
      BY <2>1, ConnectFact
    <2>2. CASE ReplayOne(c) \/ SendSnapshot(c)
      BY <2>2 DEF ReplayOne, SendSnapshot
    <2>3. CASE Receive(c) \/ SendTimeout(c)
      BY <2>3 DEF Receive, SendTimeout
    <2>4. CASE Fetched(c)
      BY <2>4, FetchedFact
    <2>5. CASE Drop(c) \/ Reload(c)
      BY <2>5, BreakFact
    <2> QED
      BY <1>3, <2>1, <2>2, <2>3, <2>4, <2>5 DEF Proceed
  <1>4. CASE Restart
    <2>1. buffer' = <<>> /\ seq' = 0 /\ UNCHANGED <<roster, events>>
      BY <1>4 DEF Restart
    <2>2. Len(<<>>) = 0 /\ DOMAIN <<>> = {}
      BY EmptySeq
    <2> QED
      BY <2>1, <2>2 DEF NumberOK, TypeOK
  <1>5. CASE UNCHANGED vars
    BY <1>2, <1>5 DEF vars
  <1> QED
    BY <1>1, <1>2, <1>3, <1>4, <1>5 DEF Next

----------------------------------------------------------------------------
(* Pages without a socket, held-up replays.                                *)

LEMMA IdleStep ==
  ASSUME TypeOK, NumberOK, IdleOK, SentOK, [Next]_vars
  PROVE  IdleOK'
  <1>1. CASE \E k \in EventKinds : Broadcast(k)
    <2>1. PICK k \in EventKinds : Broadcast(k)
      BY <1>1
    <2>2. PICK m \in Message : Sends(k, m)
      BY <2>1, BroadcastFact
    <2>3. /\ seq' = seq + 1 /\ UNCHANGED <<page, conns, handler, todo, stream, old, lastSeq>>
          /\ \A c \in Clients : c \notin conns => wire'[c] = wire[c]
      BY <2>2 DEF Sends
    <2> QED
      BY <2>3 DEF IdleOK, TypeOK
  <1>2. ASSUME NEW c \in Clients, Connect(c) PROVE IdleOK'
    <2> SUFFICES ASSUME NEW d \in Clients
                 PROVE  /\ page'[d] # "open" => d \notin conns' /\ handler'[d] = "none" /\ wire'[d] = <<>>
                        /\ handler'[d] # "replay" => todo'[d] = <<>>
                        /\ handler'[d] = "replay" => stream'[d] = "held"
                        /\ ~old'[d] => lastSeq'[d] <= seq'
                        /\ old'[d] => lastSeq'[d] > 0
      BY DEF IdleOK
    <2>1. CASE d = c
      <3>1. page[c] # "open" /\ handler[c] = "none" /\ todo[c] = <<>> /\ page'[c] = "open"
        BY <1>2, ConnectFact DEF IdleOK, TypeOK
      <3>2. handler'[c] # "replay" => todo'[c] = todo[c]
        BY <1>2, ConnectFact DEF TypeOK
      <3>3. handler'[c] = "replay" => stream'[c] = "held"
        BY <1>2, ConnectFact DEF TypeOK
      <3>4. UNCHANGED <<old, lastSeq, seq>>
        BY <1>2, ConnectFact
      <3> QED
        BY <2>1, <3>1, <3>2, <3>3, <3>4 DEF IdleOK
    <2>2. CASE d # c
      <3>1. /\ page'[d] = page[d] /\ handler'[d] = handler[d] /\ todo'[d] = todo[d]
            /\ wire'[d] = wire[d] /\ stream'[d] = stream[d]
            /\ conns' = conns \cup {c} /\ UNCHANGED <<old, lastSeq, seq>>
        BY <1>2, <2>2, ConnectFact
      <3> QED
        BY <2>2, <3>1 DEF IdleOK
    <2> QED
      BY <2>1, <2>2
  <1>3. ASSUME NEW c \in Clients, ReplayOne(c) PROVE IdleOK'
    <2>1. /\ handler[c] = "replay" /\ UNCHANGED <<seq, conns, page, stream, old, lastSeq>>
          /\ page[c] = "open"
      BY <1>3, ReplayFact DEF IdleOK
    <2>2. CASE todo[c] = <<>> /\ handler' = [handler EXCEPT ![c] = "loop"] /\ UNCHANGED <<todo, wire>>
      BY <2>1, <2>2 DEF IdleOK, TypeOK
    <2>3. CASE /\ handler' = handler /\ wire' = [wire EXCEPT ![c] = Append(wire[c], todo[c][1])]
               /\ todo' = [todo EXCEPT ![c] = Tail(todo[c])]
      <3>1. \A d \in Clients : d # c => wire'[d] = wire[d] /\ todo'[d] = todo[d]
        BY <2>3 DEF TypeOK
      <3> QED
        BY <2>1, <2>3, <3>1 DEF IdleOK
    <2> QED
      BY <1>3, <2>2, <2>3, ReplayFact
  <1>4. ASSUME NEW c \in Clients, SendSnapshot(c) PROVE IdleOK'
    <2>1. PICK m \in Message :
           /\ m.seq = 0 /\ handler[c] = "snapshot"
           /\ handler' = [handler EXCEPT ![c] = "loop"]
           /\ wire' = [wire EXCEPT ![c] = Append(wire[c], m)] \/ wire' = wire
           /\ UNCHANGED <<manager, conns, todo, client>>
      BY <1>4, SnapshotFact
    <2>2. page[c] = "open" /\ \A d \in Clients : d # c => wire'[d] = wire[d] /\ handler'[d] = handler[d]
      BY <2>1 DEF IdleOK, TypeOK
    <2>3. handler'[c] = "loop"
      BY <2>1 DEF TypeOK
    <2> QED
      BY <2>1, <2>2, <2>3 DEF IdleOK
  <1>5. ASSUME NEW c \in Clients, Receive(c) PROVE IdleOK'
    <2>1. /\ page[c] = "open" /\ UNCHANGED <<seq, page, conns, handler, todo>>
          /\ \A d \in Clients : d # c => wire'[d] = wire[d]
      <3>1. /\ page[c] = "open" /\ UNCHANGED <<seq, page, conns, handler, todo>>
            /\ wire' = [wire EXCEPT ![c] = Tail(wire[c])]
        BY <1>5, ReceiveFact
      <3> QED
        BY <3>1 DEF TypeOK
    <2>2. CASE lastSeq' = lastSeq /\ UNCHANGED <<stream, old>>
      BY <2>1, <2>2 DEF IdleOK
    <2>3. CASE /\ wire[c][1].seq > lastSeq[c]
               /\ lastSeq' = [lastSeq EXCEPT ![c] = wire[c][1].seq]
               /\ stream' = [stream EXCEPT ![c] = IF @ = "gap" THEN "clean" ELSE @]
               /\ old' = [old EXCEPT ![c] = FALSE]
      <3>1. wire[c][1].seq <= seq
        BY <1>5, ReceiveFact DEF SentOK, Distinct
      <3>2. /\ lastSeq'[c] = wire[c][1].seq /\ old'[c] = FALSE
            /\ (stream[c] = "held" => stream'[c] = "held")
            /\ \A d \in Clients : d # c => /\ lastSeq'[d] = lastSeq[d] /\ old'[d] = old[d]
                                           /\ stream'[d] = stream[d]
        BY <2>3 DEF TypeOK
      <3> QED
        BY <2>1, <3>1, <3>2 DEF IdleOK
    <2> QED
      BY <1>5, <2>2, <2>3, ReceiveFact
  <1>6. ASSUME NEW c \in Clients, Fetched(c) PROVE IdleOK'
    BY <1>6, FetchedFact DEF IdleOK
  <1>7. ASSUME NEW c \in Clients, SendTimeout(c) PROVE IdleOK'
    BY <1>7 DEF SendTimeout, IdleOK
  <1>8. ASSUME NEW c \in Clients, Drop(c) \/ Reload(c) PROVE IdleOK'
    <2>1. /\ handler'[c] = "none" /\ todo'[c] = <<>> /\ wire'[c] = <<>> /\ c \notin conns'
          /\ UNCHANGED <<seq, lastSeq, stream, old>> /\ conns' \subseteq conns
          /\ \A d \in Clients : d # c => /\ handler'[d] = handler[d] /\ todo'[d] = todo[d]
                                         /\ wire'[d] = wire[d] /\ page'[d] = page[d]
      BY <1>8, BreakFact DEF TypeOK
    <2> QED
      BY <2>1 DEF IdleOK
  <1>9. CASE Restart
    <2>1. /\ conns' = {} /\ seq' = 0 /\ lastSeq' = lastSeq
          /\ \A d \in Clients : /\ handler'[d] = "none" /\ todo'[d] = <<>> /\ wire'[d] = <<>>
                                /\ old'[d] <=> lastSeq[d] > 0
      BY <1>9 DEF Restart
    <2> QED
      BY <2>1 DEF IdleOK, TypeOK
  <1>10. CASE UNCHANGED vars
    BY <1>10 DEF IdleOK, vars
  <1> QED
    BY <1>1, <1>2, <1>3, <1>4, <1>5, <1>6, <1>7, <1>8, <1>9, <1>10 DEF Next, Proceed

----------------------------------------------------------------------------
(* Numbers on the way, as messages are added and taken.                    *)

\* A live event, numbered past all others.
LEMMA AppendNext ==
  ASSUME NEW w \in Seq(Message), NEW t \in Seq(Message), NEW n \in Nat, NEW l \in Nat,
         NEW m \in Message, m.seq = n + 1
  PROVE  /\ Distinct(w, t, n) => Distinct(Append(w, m), t, n + 1)
         /\ Distinct(w, t, n) /\ Closed(w, n) => Closed(Append(w, m), n + 1)
         /\ Joined(w, l, n) => Joined(Append(w, m), l, n + 1)
  <1> DEFINE L == Len(w)
             a == Append(w, m)
  <1>1. /\ L \in Nat /\ DOMAIN w = 1..L /\ DOMAIN a = 1..(L + 1)
        /\ (\A i \in 1..L : a[i] = w[i]) /\ a[L + 1] = m
        /\ \A i \in 1..L : w[i].seq \in Nat
    BY AppendMessage, MessageType
  <1>2. \A i \in DOMAIN t : t[i].seq \in Nat
    BY MessageType
  <1> HIDE DEF L, a
  <1>3. \A i \in 1..(L + 1) : i \in 1..L \/ i = L + 1
    BY <1>1
  <1>4. Distinct(w, t, n) => Distinct(a, t, n + 1)
    <2> SUFFICES ASSUME Distinct(w, t, n) PROVE Distinct(a, t, n + 1)
      OBVIOUS
    <2>1. \A i \in DOMAIN w : w[i].seq \in Nat /\ w[i].seq <= n /\ w[i].seq # n + 1
      BY <1>1 DEF Distinct
    <2>2. \A i \in DOMAIN t : t[i].seq \in 1..(n + 1) /\ t[i].seq # n + 1
      BY DEF Distinct
    <2>3. \A i \in DOMAIN a : a[i].seq <= n + 1
      BY <1>1, <1>3, <2>1
    <2>4. \A i, j \in DOMAIN a : i # j /\ a[i].seq > 0 => a[i].seq # a[j].seq
      BY <1>1, <1>3, <2>1 DEF Distinct
    <2>5. \A i \in DOMAIN a, j \in DOMAIN t : a[i].seq # t[j].seq
      BY <1>1, <1>3, <2>2 DEF Distinct
    <2> QED
      BY <2>2, <2>3, <2>4, <2>5 DEF Distinct
  <1>5. ASSUME Ascends(w), \A i \in DOMAIN w : w[i].seq <= n
        PROVE  Ascends(a)
    BY <1>1, <1>3, <1>5 DEF Ascends
  <1>6. ASSUME Distinct(w, t, n), Closed(w, n)
        PROVE  Closed(a, n + 1)
    <2>1. Ascends(a)
      BY <1>5, <1>6 DEF Distinct, Closed
    <2>2. ASSUME NEW i \in DOMAIN a, NEW k \in 1..(n + 1), a[i].seq > 0, k >= a[i].seq
          PROVE  \E j \in DOMAIN a : a[j].seq = k
      <3>1. CASE k = n + 1
        BY <1>1, <3>1
      <3>2. CASE k # n + 1
        <4>1. k \in 1..n /\ i \in 1..L
          BY <1>1, <1>3, <2>2, <3>2
        <4>2. PICK j \in DOMAIN w : w[j].seq = k
          BY <1>1, <1>6, <2>2, <4>1 DEF Closed
        <4>3. j \in DOMAIN a /\ a[j] = w[j]
          BY <1>1
        <4> QED
          BY <4>2, <4>3
      <3> QED
        BY <3>1, <3>2
    <2> QED
      BY <2>1, <2>2 DEF Closed
  <1>7. ASSUME Joined(w, l, n)
        PROVE  Joined(a, l, n + 1)
    <2>1. \A i \in DOMAIN w : w[i].seq <= n
      BY <1>1, <1>7 DEF Joined
    <2>2. Ascends(a)
      BY <1>5, <1>7, <2>1 DEF Joined
    <2>3. ASSUME NEW k \in (l + 1)..(n + 1)
          PROVE  \E i \in DOMAIN a : a[i].seq = k
      <3>1. CASE k = n + 1
        BY <1>1, <3>1
      <3>2. CASE k # n + 1
        <4>1. k \in (l + 1)..n
          BY <2>3, <3>2
        <4>2. PICK j \in DOMAIN w : w[j].seq = k
          BY <1>7, <4>1 DEF Joined
        <4> QED
          BY <1>1, <4>2
      <3> QED
        BY <3>1, <3>2
    <2>4. ASSUME NEW i \in DOMAIN a, a[i].seq > 0
          PROVE  a[i].seq \in (l + 1)..(n + 1)
      BY <1>1, <1>3, <1>7, <2>4 DEF Joined
    <2> QED
      BY <1>7, <2>2, <2>3, <2>4 DEF Joined
  <1> QED
    BY <1>4, <1>6, <1>7 DEF a

\* A snapshot, which has no number.
LEMMA AppendUnnumbered ==
  ASSUME NEW w \in Seq(Message), NEW t \in Seq(Message), NEW n \in Nat, NEW l \in Nat,
         NEW m \in Message, m.seq = 0
  PROVE  /\ Distinct(w, t, n) => Distinct(Append(w, m), t, n)
         /\ Closed(w, n) => Closed(Append(w, m), n)
         /\ Joined(w, l, n) => Joined(Append(w, m), l, n)
  <1> DEFINE L == Len(w)
             a == Append(w, m)
  <1>1. /\ L \in Nat /\ DOMAIN w = 1..L /\ DOMAIN a = 1..(L + 1)
        /\ (\A i \in 1..L : a[i] = w[i]) /\ a[L + 1] = m
        /\ \A i \in 1..L : w[i].seq \in Nat
    BY AppendMessage, MessageType
  <1> HIDE DEF L, a
  <1>2. \A i \in DOMAIN a : a[i].seq > 0 => i \in DOMAIN w
    BY <1>1
  <1>3. Distinct(w, t, n) => Distinct(a, t, n)
    <2> SUFFICES ASSUME Distinct(w, t, n) PROVE Distinct(a, t, n)
      OBVIOUS
    <2>1. \A i \in DOMAIN a : a[i].seq <= n
      BY <1>1 DEF Distinct
    <2>2. \A i, j \in DOMAIN a : i # j /\ a[i].seq > 0 => a[i].seq # a[j].seq
      BY <1>1, <1>2 DEF Distinct
    <2>3. \A i \in DOMAIN a, j \in DOMAIN t : a[i].seq # t[j].seq
      BY <1>1 DEF Distinct
    <2> QED
      BY <2>1, <2>2, <2>3 DEF Distinct
  <1>4. Ascends(w) => Ascends(a)
    BY <1>1, <1>2 DEF Ascends
  <1>5. ASSUME NEW k, \E i \in DOMAIN w : w[i].seq = k
        PROVE  \E i \in DOMAIN a : a[i].seq = k
    BY <1>1, <1>5
  <1>6. Closed(w, n) => Closed(a, n)
    BY <1>1, <1>2, <1>4, <1>5 DEF Closed
  <1>7. Joined(w, l, n) => Joined(a, l, n)
    BY <1>1, <1>2, <1>4, <1>5 DEF Joined
  <1> QED
    BY <1>3, <1>6, <1>7 DEF a

\* What a held-up replay sends next.
LEMMA MoveNext ==
  ASSUME NEW w \in Seq(Message), NEW t \in Seq(Message), NEW n \in Nat, t # <<>>,
         Distinct(w, t, n)
  PROVE  Distinct(Append(w, t[1]), Tail(t), n)
  <1> DEFINE L == Len(w)
             K == Len(t)
             m == t[1]
             a == Append(w, m)
             r == Tail(t)
  <1>1. /\ K \in Nat /\ DOMAIN t = 1..K /\ m \in Message /\ 1 \in DOMAIN t
        /\ r \in Seq(Message) /\ DOMAIN r = 1..(K - 1)
        /\ \A i \in DOMAIN r : r[i] = t[i + 1] /\ i + 1 \in DOMAIN t
    BY MessageType, TailMessage
  <1>2. m = t[1]
    OBVIOUS
  <1> HIDE DEF m, r, K
  <1>3. /\ L \in Nat /\ DOMAIN w = 1..L /\ DOMAIN a = 1..(L + 1)
        /\ (\A i \in 1..L : a[i] = w[i]) /\ a[L + 1] = m
    BY <1>1, AppendMessage, MessageType
  <1> HIDE DEF L, a
  <1>4. \A i \in DOMAIN a : i \in DOMAIN w \/ i = L + 1
    BY <1>3
  <1>5. m.seq \in 1..n /\ \A i \in DOMAIN w : w[i].seq # m.seq
    BY <1>1, <1>2 DEF Distinct
  <1>6. \A i \in DOMAIN r : i + 1 # 1 /\ r[i].seq # m.seq
    <2> SUFFICES ASSUME NEW i \in DOMAIN r PROVE i + 1 # 1 /\ r[i].seq # m.seq
      OBVIOUS
    <2>1. i + 1 # 1 /\ i + 1 \in DOMAIN t /\ r[i] = t[i + 1]
      BY <1>1
    <2> QED
      BY <1>1, <1>2, <2>1 DEF Distinct
  <1>7. \A i, j \in DOMAIN r : i # j => r[i].seq # r[j].seq
    <2> SUFFICES ASSUME NEW i \in DOMAIN r, NEW j \in DOMAIN r, i # j PROVE r[i].seq # r[j].seq
      OBVIOUS
    <2>1. i + 1 # j + 1 /\ i + 1 \in DOMAIN t /\ j + 1 \in DOMAIN t /\ r[i] = t[i + 1] /\ r[j] = t[j + 1]
      BY <1>1
    <2> QED
      BY <2>1 DEF Distinct
  <1>8. \A i \in DOMAIN a : a[i].seq <= n
    BY <1>3, <1>4, <1>5 DEF Distinct
  <1>9. \A i, j \in DOMAIN a : i # j /\ a[i].seq > 0 => a[i].seq # a[j].seq
    BY <1>3, <1>4, <1>5 DEF Distinct
  <1>10. \A i \in DOMAIN r : r[i].seq \in 1..n
    BY <1>1 DEF Distinct
  <1>11. \A i \in DOMAIN a, j \in DOMAIN r : a[i].seq # r[j].seq
    BY <1>1, <1>3, <1>4, <1>6 DEF Distinct
  <1>12. Distinct(a, r, n)
    BY <1>7, <1>8, <1>9, <1>10, <1>11 DEF Distinct
  <1> QED
    BY <1>12 DEF a, r, m

\* A page handles the first of what is on the way.
LEMMA TakeFirst ==
  ASSUME NEW w \in Seq(Message), NEW t \in Seq(Message), NEW n \in Nat, NEW l \in Nat, w # <<>>
  PROVE  /\ Distinct(w, t, n) => Distinct(Tail(w), t, n)
         /\ Distinct(w, t, n) /\ Closed(w, n) =>
              IF w[1].seq > l THEN Joined(Tail(w), w[1].seq, n) ELSE Closed(Tail(w), n)
         /\ Joined(w, l, n) => IF w[1].seq > l THEN Joined(Tail(w), w[1].seq, n)
                                               ELSE Joined(Tail(w), l, n)
  <1> DEFINE K == Len(w)
             r == Tail(w)
             h == w[1].seq
  <1>1. /\ K \in Nat /\ K > 0 /\ DOMAIN w = 1..K /\ h \in Nat /\ 1 \in DOMAIN w
        /\ DOMAIN r = 1..(K - 1)
        /\ \A i \in DOMAIN r : r[i] = w[i + 1] /\ i + 1 \in DOMAIN w
        /\ \A i \in DOMAIN w : w[i].seq \in Nat
    <2>1. /\ 1 \in DOMAIN w /\ DOMAIN r = 1..(K - 1) /\ K > 0
          /\ \A i \in DOMAIN r : r[i] = w[i + 1] /\ i + 1 \in DOMAIN w
      BY TailMessage
    <2>2. K \in Nat /\ DOMAIN w = 1..K /\ \A i \in DOMAIN w : w[i].seq \in Nat
      BY MessageType
    <2> QED
      BY <2>1, <2>2
  <1>2. h = w[1].seq
    OBVIOUS
  <1> HIDE DEF r, K, h
  <1>3. \A i \in DOMAIN r : i + 1 # 1 /\ 1 < i + 1 /\ r[i].seq \in Nat
    BY <1>1
  <1>4. \A j \in DOMAIN w : j # 1 => \E i \in DOMAIN r : r[i] = w[j]
    <2> SUFFICES ASSUME NEW j \in DOMAIN w, j # 1 PROVE \E i \in DOMAIN r : r[i] = w[j]
      OBVIOUS
    <2>1. j - 1 \in DOMAIN r /\ (j - 1) + 1 = j
      BY <1>1
    <2> QED
      BY <1>1, <2>1
  <1>5. \A i, j \in DOMAIN r : /\ i # j => i + 1 # j + 1
                               /\ i < j => i + 1 < j + 1
    BY <1>1
  <1>6. Distinct(w, t, n) => Distinct(r, t, n)
    BY <1>1, <1>5 DEF Distinct
  <1>7. Ascends(w) => Ascends(r)
    BY <1>1, <1>5 DEF Ascends
  <1>8. ASSUME Ascends(w), NEW i \in DOMAIN r, r[i].seq > 0, h > 0
        PROVE  r[i].seq > h
    BY <1>1, <1>2, <1>3, <1>8 DEF Ascends
  <1>9. ASSUME Closed(w, n), ~(h > l)
        PROVE  Closed(r, n)
    <2> SUFFICES ASSUME NEW i \in DOMAIN r, NEW k \in 1..n, r[i].seq > 0, k >= r[i].seq
                 PROVE  \E j \in DOMAIN r : r[j].seq = k
      BY <1>7, <1>9 DEF Closed
    <2>1. PICK j \in DOMAIN w : w[j].seq = k
      BY <1>1, <1>9 DEF Closed
    <2>2. j # 1
      <3> SUFFICES ASSUME j = 1 PROVE FALSE
        OBVIOUS
      <3>1. h = k /\ h > 0
        BY <1>2, <2>1
      <3>2. r[i].seq > h
        BY <1>8, <1>9, <3>1 DEF Closed
      <3> QED
        BY <1>1, <1>3, <3>1, <3>2
    <2> QED
      BY <1>4, <2>1, <2>2
  <1>10. ASSUME Closed(w, n), h > l, Distinct(w, t, n)
         PROVE  Joined(r, h, n)
    <2>0. h <= n
      BY <1>1, <1>2, <1>10 DEF Distinct
    <2>1. \A i \in DOMAIN r : r[i].seq > 0 => r[i].seq \in (h + 1)..n
      <3> SUFFICES ASSUME NEW i \in DOMAIN r, r[i].seq > 0 PROVE r[i].seq \in (h + 1)..n
        OBVIOUS
      <3>1. r[i].seq > h
        BY <1>1, <1>8, <1>10 DEF Closed
      <3>2. r[i].seq <= n /\ r[i].seq \in Nat
        BY <1>1, <1>3, <1>10 DEF Distinct
      <3> QED
        BY <1>1, <3>1, <3>2
    <2>2. \A k \in (h + 1)..n : \E i \in DOMAIN r : r[i].seq = k
      <3> SUFFICES ASSUME NEW k \in (h + 1)..n PROVE \E i \in DOMAIN r : r[i].seq = k
        OBVIOUS
      <3>1. k \in 1..n /\ k >= h /\ k # h /\ h > 0
        BY <1>1, <1>10
      <3>2. PICK j \in DOMAIN w : w[j].seq = k
        BY <1>1, <1>2, <1>10, <3>1 DEF Closed
      <3>3. j # 1
        BY <1>2, <3>1, <3>2
      <3> QED
        BY <1>4, <3>2, <3>3
    <2> QED
      BY <1>7, <1>10, <2>0, <2>1, <2>2 DEF Joined, Closed
  <1>11. ASSUME Joined(w, l, n), h > l
         PROVE  Joined(r, h, n)
    <2>1. h \in (l + 1)..n /\ h > 0
      BY <1>1, <1>2, <1>11 DEF Joined
    <2>2. \A i \in DOMAIN r : r[i].seq > 0 => r[i].seq \in (h + 1)..n
      <3> SUFFICES ASSUME NEW i \in DOMAIN r, r[i].seq > 0 PROVE r[i].seq \in (h + 1)..n
        OBVIOUS
      <3>1. r[i].seq > h
        BY <1>8, <1>11, <2>1 DEF Joined
      <3>2. r[i].seq <= n /\ r[i].seq \in Nat
        BY <1>1, <1>3, <1>11 DEF Joined
      <3> QED
        BY <1>1, <3>1, <3>2
    <2>3. \A k \in (h + 1)..n : \E i \in DOMAIN r : r[i].seq = k
      <3> SUFFICES ASSUME NEW k \in (h + 1)..n PROVE \E i \in DOMAIN r : r[i].seq = k
        OBVIOUS
      <3>1. k \in (l + 1)..n /\ k # h
        BY <1>1, <1>11
      <3>2. PICK j \in DOMAIN w : w[j].seq = k
        BY <1>11, <3>1 DEF Joined
      <3>3. j # 1
        BY <1>2, <3>1, <3>2
      <3> QED
        BY <1>4, <3>2, <3>3
    <2> QED
      BY <1>7, <1>11, <2>1, <2>2, <2>3 DEF Joined
  <1>12. ASSUME Joined(w, l, n), ~(h > l)
         PROVE  Joined(r, l, n)
    <2>1. h = 0
      BY <1>1, <1>2, <1>12 DEF Joined
    <2>2. \A i \in DOMAIN r : r[i].seq > 0 => r[i].seq \in (l + 1)..n
      BY <1>1, <1>12 DEF Joined
    <2>3. \A k \in (l + 1)..n : \E i \in DOMAIN r : r[i].seq = k
      <3> SUFFICES ASSUME NEW k \in (l + 1)..n PROVE \E i \in DOMAIN r : r[i].seq = k
        OBVIOUS
      <3>1. PICK j \in DOMAIN w : w[j].seq = k
        BY <1>12 DEF Joined
      <3>2. j # 1
        <4>1. k > 0
          OBVIOUS
        <4>2. w[j].seq # 0 /\ w[1].seq = 0
          BY <1>2, <2>1, <3>1, <4>1
        <4> QED
          BY <4>2
      <3> QED
        BY <1>4, <3>1, <3>2
    <2> QED
      BY <1>7, <1>12, <2>2, <2>3 DEF Joined
  <1> QED
    BY <1>2, <1>6, <1>9, <1>10, <1>11, <1>12 DEF r

\* What a replay from l, without a gap, sends or has still to send.
LEMMA Replayed ==
  ASSUME TypeOK, NumberOK, NEW l \in 0..MaxEvents
  PROVE  /\ Distinct(Newer(l), <<>>, seq) /\ Distinct(<<>>, Newer(l), seq)
         /\ Closed(Newer(l), seq)
         /\ ~TooOld(l) /\ l <= seq => Joined(Newer(l), l, seq)
  <1> DEFINE q == Newer(l)
             L == Len(q)
             base == seq - L
  <1>1. /\ q \in Seq(Message) /\ L <= seq
        /\ \A i \in DOMAIN q : q[i].seq = base + i /\ q[i].seq > l
        /\ ~TooOld(l) => \A n \in (l + 1)..seq : n > base
    BY NewerFact
  <1>2. L \in Nat /\ DOMAIN q = 1..L /\ seq \in Nat /\ l \in Nat
    BY <1>1, MessageType DEF TypeOK
  <1>3. base \in Nat /\ base + L = seq
    BY <1>1, <1>2
  <1>4. DOMAIN <<>> = {}
    BY EmptySeq
  <1> HIDE DEF q, L, base
  <1>5. \A i \in DOMAIN q : q[i].seq \in 1..seq /\ q[i].seq <= seq
    BY <1>1, <1>2, <1>3
  <1>6. \A i, j \in DOMAIN q : /\ i # j => q[i].seq # q[j].seq
                               /\ i < j => q[i].seq < q[j].seq
    BY <1>1, <1>2, <1>3
  <1>7. \A k \in 1..seq : k > base => \E j \in DOMAIN q : q[j].seq = k
    <2> SUFFICES ASSUME NEW k \in 1..seq, k > base PROVE \E j \in DOMAIN q : q[j].seq = k
      OBVIOUS
    <2>1. (k - base) \in DOMAIN q /\ base + (k - base) = k
      BY <1>2, <1>3
    <2> QED
      BY <1>1, <2>1
  <1>8. Distinct(q, <<>>, seq) /\ Distinct(<<>>, q, seq)
    BY <1>4, <1>5, <1>6 DEF Distinct
  <1>9. Ascends(q)
    BY <1>6 DEF Ascends
  <1>10. Closed(q, seq)
    <2> SUFFICES ASSUME NEW i \in DOMAIN q, NEW k \in 1..seq, k >= q[i].seq
                 PROVE  \E j \in DOMAIN q : q[j].seq = k
      BY <1>9 DEF Closed
    <2>1. k > base
      BY <1>1, <1>2, <1>3
    <2> QED
      BY <1>7, <2>1
  <1>11. ASSUME ~TooOld(l), l <= seq
         PROVE  Joined(q, l, seq)
    <2>1. \A k \in (l + 1)..seq : k > base /\ k \in 1..seq
      BY <1>1, <1>2, <1>11
    <2>2. \A i \in DOMAIN q : q[i].seq \in (l + 1)..seq
      BY <1>1, <1>2, <1>5
    <2> QED
      BY <1>7, <1>9, <1>11, <2>1, <2>2 DEF Joined
  <1> QED
    BY <1>8, <1>10, <1>11 DEF q

LEMMA NothingSent ==
  ASSUME NEW n \in Nat
  PROVE  Distinct(<<>>, <<>>, n) /\ Closed(<<>>, n)
  <1>1. DOMAIN <<>> = {}
    BY EmptySeq
  <1> QED
    BY <1>1 DEF Distinct, Closed, Ascends

----------------------------------------------------------------------------
(* Nothing lost, repeated or out of order.                                 *)

StreamOK == SentOK /\ GapOK /\ JoinOK

\* What StreamOK says of page d.
Flows(d) ==
  /\ Distinct(wire[d], todo[d], seq)
  /\ d \in conns /\ stream[d] = "gap" => Closed(wire[d], seq)
  /\ d \in conns /\ stream[d] = "clean" => Joined(wire[d], lastSeq[d], seq)

\* A page a step leaves alone.
LEMMA FlowsOn ==
  ASSUME NEW d, Flows(d), seq' = seq, wire'[d] = wire[d], todo'[d] = todo[d],
         stream'[d] = stream[d], lastSeq'[d] = lastSeq[d], d \in conns' => d \in conns
  PROVE  Flows(d)'
  BY DEF Flows

LEMMA FlowsBroadcast ==
  ASSUME TypeOK, NEW k \in EventKinds, NEW m, Sends(k, m), NEW d \in Clients, d \in conns, Flows(d)
  PROVE  Flows(d)'
  <1>1. /\ m \in Message /\ m.seq = seq + 1 /\ seq' = seq + 1 /\ wire'[d] = Append(wire[d], m)
        /\ UNCHANGED <<todo, conns, stream, lastSeq>>
    BY DEF Sends
  <1>2. /\ wire[d] \in Seq(Message) /\ todo[d] \in Seq(Message) /\ seq \in Nat /\ lastSeq[d] \in Nat
    BY DEF TypeOK
  <1>3. /\ Distinct(wire[d], todo[d], seq) => Distinct(wire'[d], todo[d], seq + 1)
        /\ Distinct(wire[d], todo[d], seq) /\ Closed(wire[d], seq) => Closed(wire'[d], seq + 1)
        /\ Joined(wire[d], lastSeq[d], seq) => Joined(wire'[d], lastSeq[d], seq + 1)
    BY <1>1, <1>2, AppendNext
  <1> QED
    BY <1>1, <1>3 DEF Flows

\* A page that is not registered is sent nothing.
LEMMA FlowsPast ==
  ASSUME TypeOK, NEW k \in EventKinds, NEW m, Sends(k, m), NEW d \in Clients, d \notin conns, Flows(d)
  PROVE  Flows(d)'
  <1>1. /\ seq' = seq + 1 /\ wire'[d] = wire[d] /\ UNCHANGED <<todo, conns>>
    BY DEF Sends
  <1>2. \A i \in DOMAIN wire[d] : wire[d][i].seq \in Nat
    BY MessageType DEF TypeOK
  <1>3. seq \in Nat
    BY DEF TypeOK
  <1>4. Distinct(wire[d], todo[d], seq + 1)
    BY <1>2, <1>3 DEF Flows, Distinct
  <1> QED
    BY <1>1, <1>4 DEF Flows

LEMMA FlowsConnect ==
  ASSUME TypeOK, NumberOK, IdleOK, NEW c \in Clients, Connect(c)
  PROVE  Flows(c)'
  <1>1. wire[c] = <<>> /\ todo[c] = <<>> /\ (~old[c] => lastSeq[c] <= seq)
    BY ConnectFact DEF IdleOK
  <1>2. lastSeq[c] \in 0..MaxEvents /\ seq \in Nat /\ UNCHANGED <<seq, lastSeq>>
    BY ConnectFact DEF TypeOK
  <1>3. /\ Distinct(Newer(lastSeq[c]), <<>>, seq) /\ Distinct(<<>>, Newer(lastSeq[c]), seq)
        /\ Closed(Newer(lastSeq[c]), seq)
        /\ ~TooOld(lastSeq[c]) /\ lastSeq[c] <= seq => Joined(Newer(lastSeq[c]), lastSeq[c], seq)
    BY <1>2, Replayed
  <1>4. Distinct(<<>>, <<>>, seq) /\ Closed(<<>>, seq)
    BY <1>2, NothingSent
  <1>5. CASE /\ ~TooOld(lastSeq[c])
             /\ wire'[c] = Newer(lastSeq[c]) /\ todo'[c] = todo[c]
             /\ (stream'[c] = "clean" /\ ~old[c]) \/ stream'[c] = "gap"
    BY <1>1, <1>2, <1>3, <1>5 DEF Flows
  <1>6. CASE todo'[c] = Newer(lastSeq[c]) /\ wire'[c] = wire[c] /\ stream'[c] = "held"
    BY <1>1, <1>2, <1>3, <1>6 DEF Flows
  <1>7. CASE todo'[c] = todo[c] /\ wire'[c] = wire[c] /\ stream'[c] = "gap"
    BY <1>1, <1>2, <1>4, <1>7 DEF Flows
  <1> QED
    BY <1>5, <1>6, <1>7, ConnectFact

LEMMA FlowsReplay ==
  ASSUME TypeOK, IdleOK, NEW c \in Clients, ReplayOne(c), Flows(c)
  PROVE  Flows(c)'
  <1>1. stream'[c] = "held" /\ UNCHANGED <<seq, conns>>
    BY ReplayFact DEF IdleOK
  <1>2. CASE UNCHANGED <<todo, wire>>
    BY <1>1, <1>2 DEF Flows
  <1>3. CASE /\ todo[c] # <<>>
             /\ wire' = [wire EXCEPT ![c] = Append(wire[c], todo[c][1])]
             /\ todo' = [todo EXCEPT ![c] = Tail(todo[c])]
    <2>1. wire'[c] = Append(wire[c], todo[c][1]) /\ todo'[c] = Tail(todo[c])
      BY <1>3 DEF TypeOK
    <2>2. Distinct(Append(wire[c], todo[c][1]), Tail(todo[c]), seq)
      <3>1. wire[c] \in Seq(Message) /\ todo[c] \in Seq(Message) /\ seq \in Nat
        BY DEF TypeOK
      <3> QED
        BY <1>3, <3>1, MoveNext DEF Flows
    <2> QED
      BY <1>1, <2>1, <2>2 DEF Flows
  <1> QED
    BY <1>2, <1>3, ReplayFact

LEMMA FlowsSnapshot ==
  ASSUME TypeOK, NEW c \in Clients, SendSnapshot(c), Flows(c)
  PROVE  Flows(c)'
  <1>1. PICK m \in Message :
           /\ m.seq = 0
           /\ wire' = [wire EXCEPT ![c] = Append(wire[c], m)] \/ wire' = wire
           /\ UNCHANGED <<manager, conns, todo, client>>
    BY SnapshotFact
  <1>2. CASE wire' = wire
    BY <1>1, <1>2 DEF Flows
  <1>3. CASE wire' = [wire EXCEPT ![c] = Append(wire[c], m)]
    <2>1. wire'[c] = Append(wire[c], m)
      BY <1>3 DEF TypeOK
    <2>2. wire[c] \in Seq(Message) /\ todo[c] \in Seq(Message) /\ seq \in Nat /\ lastSeq[c] \in Nat
      BY DEF TypeOK
    <2>3. /\ Distinct(wire[c], todo[c], seq) => Distinct(wire'[c], todo[c], seq)
          /\ Closed(wire[c], seq) => Closed(wire'[c], seq)
          /\ Joined(wire[c], lastSeq[c], seq) => Joined(wire'[c], lastSeq[c], seq)
      BY <1>1, <2>1, <2>2, AppendUnnumbered
    <2> QED
      BY <1>1, <2>3 DEF Flows
  <1> QED
    BY <1>1, <1>2, <1>3

LEMMA FlowsReceive ==
  ASSUME TypeOK, NEW c \in Clients, Receive(c), Flows(c)
  PROVE  Flows(c)'
  <1> DEFINE h == wire[c][1].seq
  <1>1. /\ wire[c] # <<>> /\ wire' = [wire EXCEPT ![c] = Tail(wire[c])]
        /\ UNCHANGED <<manager, endpoint, page, breaks>> /\ h \in Nat
        /\ IF h > lastSeq[c]
           THEN /\ lastSeq' = [lastSeq EXCEPT ![c] = h]
                /\ stream' = [stream EXCEPT ![c] = IF @ = "gap" THEN "clean" ELSE @]
           ELSE lastSeq' = lastSeq /\ stream' = stream
    BY ReceiveFact
  <1>2. wire[c] \in Seq(Message) /\ todo[c] \in Seq(Message) /\ seq \in Nat /\ lastSeq[c] \in Nat
    BY DEF TypeOK
  <1>3. wire'[c] = Tail(wire[c])
    BY <1>1 DEF TypeOK
  <1>4. /\ Distinct(wire[c], todo[c], seq) => Distinct(wire'[c], todo[c], seq)
        /\ Distinct(wire[c], todo[c], seq) /\ Closed(wire[c], seq) =>
             IF h > lastSeq[c] THEN Joined(wire'[c], h, seq) ELSE Closed(wire'[c], seq)
        /\ Joined(wire[c], lastSeq[c], seq) =>
             IF h > lastSeq[c] THEN Joined(wire'[c], h, seq) ELSE Joined(wire'[c], lastSeq[c], seq)
    BY <1>1, <1>2, <1>3, TakeFirst
  <1> HIDE DEF h
  <1>5. CASE h > lastSeq[c]
    <2>1. lastSeq'[c] = h /\ stream'[c] = IF stream[c] = "gap" THEN "clean" ELSE stream[c]
      BY <1>1, <1>5 DEF TypeOK
    <2> QED
      BY <1>1, <1>4, <1>5, <2>1 DEF Flows
  <1>6. CASE ~(h > lastSeq[c])
    BY <1>1, <1>4, <1>6 DEF Flows
  <1> QED
    BY <1>5, <1>6

\* What one page's socket, handler and page do leaves the other pages alone.
LEMMA FlowsElsewhere ==
  ASSUME TypeOK, NumberOK, NEW c \in Clients, NEW d \in Clients, d # c, Flows(d),
         Proceed(c) \/ Drop(c) \/ Reload(c)
  PROVE  Flows(d)'
  <1>1. CASE Connect(c)
    BY <1>1, ConnectFact, FlowsOn
  <1>2. CASE ReplayOne(c)
    <2>1. wire'[d] = wire[d] /\ todo'[d] = todo[d] /\ UNCHANGED <<manager, conns, client>>
      BY <1>2 DEF ReplayOne, TypeOK
    <2> QED
      BY <2>1, FlowsOn
  <1>3. CASE SendSnapshot(c)
    <2>1. wire'[d] = wire[d] /\ UNCHANGED <<manager, conns, todo, client>>
      BY <1>3 DEF SendSnapshot, TypeOK
    <2> QED
      BY <2>1, FlowsOn
  <1>4. CASE Receive(c)
    <2>1. UNCHANGED <<manager, endpoint>>
      BY <1>4 DEF Receive
    <2>2. lastSeq'[d] = lastSeq[d]
      BY <1>4 DEF Receive, TypeOK
    <2>3. wire'[d] = wire[d] /\ stream'[d] = stream[d]
      <3>1. /\ wire' = [wire EXCEPT ![c] = Tail(@)]
            /\ \/ stream' = [stream EXCEPT ![c] = IF @ = "gap" THEN "clean" ELSE @]
               \/ stream' = stream
        BY <1>4 DEF Receive, Apply
      <3> QED
        BY <3>1 DEF TypeOK
    <2> QED
      BY <2>1, <2>2, <2>3, FlowsOn
  <1>5. CASE Drop(c) \/ Reload(c)
    <2>1. /\ wire' = [wire EXCEPT ![c] = <<>>] /\ todo' = [todo EXCEPT ![c] = <<>>]
          /\ conns' = conns \ {c} /\ UNCHANGED <<manager, lastSeq, stream>>
      BY <1>5, BreakFact
    <2>2. wire'[d] = wire[d] /\ todo'[d] = todo[d]
      BY <2>1 DEF TypeOK
    <2> QED
      BY <2>1, <2>2, FlowsOn
  <1> QED
    BY <1>1, <1>2, <1>3, <1>4, <1>5 DEF Proceed

LEMMA FlowsStep ==
  ASSUME TypeOK, NumberOK, IdleOK, [Next]_vars, NEW d \in Clients, Flows(d)
  PROVE  Flows(d)'
  <1>1. CASE \E k \in EventKinds : Broadcast(k)
    <2>1. PICK k \in EventKinds : Broadcast(k)
      BY <1>1
    <2>2. PICK m \in Message : Sends(k, m)
      BY <2>1, BroadcastFact
    <2> QED
      BY <2>2, FlowsBroadcast, FlowsPast
  <1>2. ASSUME NEW c \in Clients, Connect(c) PROVE Flows(d)'
    <2>1. CASE d = c
      BY <1>2, <2>1, FlowsConnect
    <2>2. CASE d # c
      BY <1>2, <2>2, FlowsElsewhere DEF Proceed
    <2> QED
      BY <2>1, <2>2
  <1>3. ASSUME NEW c \in Clients, ReplayOne(c) PROVE Flows(d)'
    <2>1. CASE d = c
      BY <1>3, <2>1, FlowsReplay
    <2>2. CASE d # c
      BY <1>3, <2>2, FlowsElsewhere DEF Proceed
    <2> QED
      BY <2>1, <2>2
  <1>4. ASSUME NEW c \in Clients, SendSnapshot(c) PROVE Flows(d)'
    <2>1. CASE d = c
      BY <1>4, <2>1, FlowsSnapshot
    <2>2. CASE d # c
      BY <1>4, <2>2, FlowsElsewhere DEF Proceed
    <2> QED
      BY <2>1, <2>2
  <1>5. ASSUME NEW c \in Clients, Receive(c) PROVE Flows(d)'
    <2>1. CASE d = c
      BY <1>5, <2>1, FlowsReceive
    <2>2. CASE d # c
      BY <1>5, <2>2, FlowsElsewhere DEF Proceed
    <2> QED
      BY <2>1, <2>2
  <1>6. ASSUME NEW c \in Clients, Fetched(c) PROVE Flows(d)'
    <2>1. UNCHANGED <<manager, endpoint, wire, lastSeq, stream, old>>
      BY <1>6, FetchedFact
    <2> QED
      BY <2>1, FlowsOn
  <1>7. ASSUME NEW c \in Clients, SendTimeout(c) PROVE Flows(d)'
    <2>1. conns' \subseteq conns /\ UNCHANGED <<seq, wire, todo, stream, lastSeq>>
      BY <1>7 DEF SendTimeout
    <2> QED
      BY <2>1, FlowsOn
  <1>8. ASSUME NEW c \in Clients, Drop(c) \/ Reload(c) PROVE Flows(d)'
    <2>1. CASE d = c
      <3>1. seq' = seq /\ wire'[d] = <<>> /\ todo'[d] = <<>> /\ d \notin conns'
        BY <1>8, <2>1, BreakFact DEF TypeOK
      <3>2. Distinct(<<>>, <<>>, seq)
        BY NothingSent DEF TypeOK
      <3> QED
        BY <3>1, <3>2 DEF Flows
    <2>2. CASE d # c
      BY <1>8, <2>2, FlowsElsewhere DEF Proceed
    <2> QED
      BY <2>1, <2>2
  <1>9. CASE Restart
    <2>1. seq' = 0 /\ wire'[d] = <<>> /\ todo'[d] = <<>> /\ d \notin conns'
      BY <1>9 DEF Restart
    <2>2. Distinct(<<>>, <<>>, 0)
      BY NothingSent
    <2> QED
      BY <2>1, <2>2 DEF Flows
  <1>10. CASE UNCHANGED vars
    BY <1>10, FlowsOn DEF vars
  <1> QED
    BY <1>1, <1>2, <1>3, <1>4, <1>5, <1>6, <1>7, <1>8, <1>9, <1>10 DEF Next, Proceed

----------------------------------------------------------------------------
(* The theorems.                                                           *)

LEMMA StreamFlows == ASSUME TypeOK PROVE StreamOK <=> \A d \in Clients : Flows(d)
  BY DEF StreamOK, SentOK, GapOK, JoinOK, Flows, TypeOK

LEMMA InitOK == Init => IInv
  <1> SUFFICES ASSUME Init PROVE IInv
    OBVIOUS
  <1>1. <<>> \in Seq(Message) /\ Len(<<>>) = 0 /\ DOMAIN <<>> = {}
    BY EmptySeq
  <1>2. TypeOK
    BY <1>1, WsConstantsOK DEF Init, TypeOK
  <1>3. NumberOK /\ IdleOK
    BY <1>1 DEF Init, NumberOK, IdleOK
  <1>4. Distinct(<<>>, <<>>, 0)
    BY NothingSent
  <1>5. SentOK /\ GapOK /\ JoinOK
    BY <1>4 DEF Init, SentOK, GapOK, JoinOK
  <1> QED
    BY <1>2, <1>3, <1>5 DEF IInv

LEMMA StepOK == IInv /\ [Next]_vars => IInv'
  <1> SUFFICES ASSUME IInv, [Next]_vars PROVE IInv'
    OBVIOUS
  <1>1. TypeOK' /\ NumberOK' /\ IdleOK'
    BY TypeStep, NumberStep, IdleStep DEF IInv
  <1>2. \A d \in Clients : Flows(d)
    BY StreamFlows DEF IInv, StreamOK
  <1>3. \A d \in Clients : Flows(d)'
    BY <1>2, FlowsStep DEF IInv
  <1>4. StreamOK'
    BY <1>1, <1>3 DEF StreamOK, SentOK, GapOK, JoinOK, Flows, TypeOK
  <1> QED
    BY <1>1, <1>4 DEF IInv, StreamOK

LEMMA Invariance == Spec => []IInv
  BY InitOK, StepOK, PTL DEF Spec

\* Every variable keeps its type: the numbers stay below the bound, the buffer
\* within its size.
THEOREM TypeCorrect == Spec => []TypeOK
  BY Invariance, PTL DEF IInv

\* On the way to a registered page is exactly what follows the number it has:
\* its replay and the live events join without loss, repetition or disorder
\* (ws.py:84-100), for any number of pages and any buffer size.
THEOREM StreamsJoin == Spec => []Contiguous
  <1>1. IInv => Contiguous
    <2> SUFFICES ASSUME IInv, NEW c \in conns, stream[c] = "clean"
                 PROVE  /\ lastSeq[c] <= seq
                        /\ \A n \in (lastSeq[c] + 1)..seq : \E i \in Numbered(c) : wire[c][i].seq = n
                        /\ \A i \in Numbered(c) : wire[c][i].seq \in (lastSeq[c] + 1)..seq
                        /\ \A i, j \in Numbered(c) : i < j => wire[c][i].seq < wire[c][j].seq
      BY DEF Contiguous
    <2> DEFINE w == wire[c]
    <2>1. Joined(w, lastSeq[c], seq) /\ lastSeq[c] \in Nat /\ seq \in Nat
      BY DEF IInv, JoinOK, TypeOK
    <2>2. Numbered(c) = {i \in DOMAIN w : w[i].seq > 0}
      BY DEF Numbered
    <2> HIDE DEF w
    <2>3. \A n \in (lastSeq[c] + 1)..seq : \E i \in Numbered(c) : w[i].seq = n
      <3> SUFFICES ASSUME NEW n \in (lastSeq[c] + 1)..seq PROVE \E i \in Numbered(c) : w[i].seq = n
        OBVIOUS
      <3>1. n > 0
        BY <2>1
      <3>2. PICK i \in DOMAIN w : w[i].seq = n
        BY <2>1 DEF Joined
      <3> QED
        BY <2>2, <3>1, <3>2
    <2>4. \A i \in Numbered(c) : w[i].seq \in (lastSeq[c] + 1)..seq
      BY <2>1, <2>2 DEF Joined
    <2>5. \A i, j \in Numbered(c) : i < j => w[i].seq < w[j].seq
      BY <2>1, <2>2 DEF Joined, Ascends
    <2> QED
      BY <2>1, <2>3, <2>4, <2>5 DEF Joined, w
  <1> QED
    BY <1>1, Invariance, PTL

\* No event is sent twice on one socket, nor waits to be sent again.
THEOREM NothingRepeats == Spec => []NoRepeat
  <1>1. IInv => NoRepeat
    <2> SUFFICES ASSUME IInv, NEW c \in Clients,
                        NEW i \in DOMAIN (wire[c] \o todo[c]), NEW j \in DOMAIN (wire[c] \o todo[c]),
                        i # j, (wire[c] \o todo[c])[i].seq = (wire[c] \o todo[c])[j].seq
                 PROVE  (wire[c] \o todo[c])[i].seq = 0
      BY DEF NoRepeat
    <2> DEFINE w == wire[c]
               t == todo[c]
               L == Len(w)
               a == w \o t
    <2>1. w \in Seq(Message) /\ t \in Seq(Message) /\ Distinct(w, t, seq)
      BY DEF IInv, TypeOK, SentOK
    <2>2. /\ L \in Nat /\ DOMAIN w = 1..L /\ DOMAIN t = 1..Len(t) /\ Len(t) \in Nat
          /\ \A x \in DOMAIN w : w[x].seq \in Nat
      BY <2>1, MessageType
    <2>3. /\ a \in Seq(Message) /\ Len(a) = L + Len(t)
          /\ \A x \in 1..(L + Len(t)) : a[x] = IF x <= L THEN w[x] ELSE t[x - L]
      BY <2>1, ConcatProperties
    <2>4. DOMAIN a = 1..(L + Len(t))
      BY <2>3, MessageType
    <2>5. i \in DOMAIN a /\ j \in DOMAIN a /\ a[i].seq = a[j].seq
      OBVIOUS
    <2> HIDE DEF w, t, L, a
    <2>6. \A x \in DOMAIN a : \/ x \in DOMAIN w /\ a[x] = w[x]
                              \/ x - L \in DOMAIN t /\ a[x] = t[x - L]
      BY <2>2, <2>3, <2>4
    <2>7. i - L # j - L
      BY <2>2, <2>4, <2>5
    <2>8. a[i].seq = 0
      BY <2>1, <2>2, <2>5, <2>6, <2>7 DEF Distinct
    <2> QED
      BY <2>8 DEF a, w, t
  <1> QED
    BY <1>1, Invariance, PTL


----------------------------------------------------------------------------
(* What a page will show.                                                  *)

\* An event that changes the roster, and the version before an event.
Tells(m)  == m.kind # "usage"
Before(m) == IF Tells(m) THEN m.ver - 1 ELSE m.ver

\* Nothing is of a version that the server has not reached.
Known(w, n) == \A i \in DOMAIN w : w[i].ver <= n
CopyOK == \A c \in Clients : view[c] <= roster /\ answer[c] <= roster

\* Each event of the buffer begins with the version the one before it ended
\* with, and the last one ends with n.
Chained(b, n) ==
  /\ \A i \in DOMAIN b : Tells(b[i]) => b[i].ver > 0
  /\ \A i \in DOMAIN b : i = Len(b) => b[i].ver = n
  /\ \A i, j \in DOMAIN b : i < j => b[i].ver <= Before(b[j])
  /\ \A i, j \in DOMAIN b : j = i + 1 => b[i].ver = Before(b[j])
  /\ \A i \in DOMAIN b, v \in 1..n : v > Before(b[i]) =>
       \E j \in DOMAIN b : j >= i /\ Tells(b[j]) /\ b[j].ver = v
ChainOK == Known(buffer, roster) /\ Chained(buffer, roster)

\* What is on the way is the buffer's own event of that number, and what fell
\* out of the buffer last ended where the buffer begins.
Same(m, b) ==
  m.seq > 0 => \A j \in DOMAIN b :
    /\ m.seq = b[j].seq => m = b[j]
    /\ m.seq + 1 = b[j].seq => m.ver = Before(b[j])
Sound(w, b, n) == Known(w, n) /\ \A i \in DOMAIN w : Same(w[i], b)
SoundOK == \A c \in Clients : Sound(wire[c], buffer, roster) /\ Sound(todo[c], buffer, roster)

\* A page that had version b of the accounts is on the way to version n: the
\* changes it lacks are on its socket in their order, or come after all that is
\* when the server sends it nothing more.
Tell(w, v) == \E i \in DOMAIN w : Tells(w[i]) /\ w[i].ver = v
Coming(w, live, b, n) == \A v \in 1..n : v > b =>
  Tell(w, v) \/ (~live /\ \A i \in DOMAIN w : w[i].ver < v)
Orderly(w, b) == \A i, j \in DOMAIN w :
  i < j /\ Tells(w[j]) /\ w[j].ver > b => w[i].seq < w[j].seq /\ w[i].ver < w[j].ver
\* The changes it lacks have numbers above l in buffer f.
Kept(f, l, b, n) == \A v \in 1..n : v > b =>
  \E j \in DOMAIN f : Tells(f[j]) /\ f[j].ver = v /\ f[j].seq > l

\* A page's number will be answered with a replay that joins on to it.
Replays(c) == ~old[c] /\ lastSeq[c] > 0 /\ ~TooOld(lastSeq[c])
Ready(c, b) ==
  /\ page[c] = "open" => Coming(wire[c], c \in conns, b, roster) /\ Orderly(wire[c], b)
  /\ Known(todo[c], b)
  /\ Replays(c) => Kept(buffer, lastSeq[c], b, roster)

\* The version that counts is what the page shows or, with a fetch answered, the
\* answer; with a fetch asked for there is none.
Counts(c, b) ==
  \/ fetch[c] = "none" /\ ~skipped[c] /\ b = view[c]
  \/ fetch[c] = "answered" /\ ~dated[c] /\ b = answer[c]
ReadyOK == \A c \in Clients, b \in 0..MaxEvents : Counts(c, b) => Ready(c, b)

ShowInv == ChainOK /\ SoundOK /\ CopyOK /\ ReadyOK

\* Numbers stay out of the way of sequences.
LEMMA MessageVer ==
  ASSUME NEW w \in Seq(Message), NEW i \in DOMAIN w
  PROVE  w[i].ver \in Nat /\ w[i].seq \in Nat /\ Before(w[i]) \in Int
         /\ w[i].ver <= Before(w[i]) + 1 /\ Before(w[i]) <= w[i].ver
  <1>1. w[i] \in Message
    BY MessageType
  <1>2. w[i].ver \in Nat /\ w[i].seq \in Nat
    BY <1>1 DEF Message
  <1> QED
    BY <1>2 DEF Before

\* What is up to date needs nothing more.
LEMMA UpToDate ==
  ASSUME NEW w \in Seq(Message), NEW n \in Nat, Known(w, n), NEW live, NEW f, NEW l
  PROVE  Coming(w, live, n, n) /\ Orderly(w, n) /\ Kept(f, l, n, n)
  <1>1. \A i \in DOMAIN w : w[i].ver \in Nat /\ w[i].ver <= n
    BY MessageVer DEF Known
  <1>2. \A i \in DOMAIN w : ~(w[i].ver > n)
    BY <1>1
  <1>3. \A v \in 1..n : ~(v > n)
    OBVIOUS
  <1> QED
    BY <1>2, <1>3 DEF Coming, Orderly, Kept

\* A live event.
LEMMA AppendLive ==
  ASSUME NEW w \in Seq(Message), NEW m \in Message, NEW n \in Nat, NEW s \in Nat, NEW b \in Nat,
         Known(w, n), \A i \in DOMAIN w : w[i].seq <= s, m.seq = s + 1,
         m.ver = IF Tells(m) THEN n + 1 ELSE n
  PROVE  /\ Coming(w, TRUE, b, n) => Coming(Append(w, m), TRUE, b, m.ver)
         /\ Coming(w, FALSE, b, n) => Coming(w, FALSE, b, m.ver)
         /\ Orderly(w, b) => Orderly(Append(w, m), b)
  <1> DEFINE a == Append(w, m)
             L == Len(w)
  <1>1. /\ a \in Seq(Message) /\ L \in Nat /\ DOMAIN w = 1..L /\ DOMAIN a = 1..(L + 1)
        /\ \A i \in 1..L : a[i] = w[i]
        /\ a[L + 1] = m
    BY AppendMessage, MessageType
  <1>2. \A i \in 1..L : w[i].ver \in Nat /\ w[i].seq \in Nat /\ w[i].ver <= n /\ w[i].seq <= s
    BY <1>1, MessageVer DEF Known
  <1>3. m.ver \in Nat /\ (Tells(m) => m.ver = n + 1) /\ (~Tells(m) => m.ver = n)
    OBVIOUS
  <1> HIDE DEF a, L
  <1>4. ASSUME Coming(w, TRUE, b, n), NEW v \in 1..m.ver, v > b PROVE Tell(a, v)
    <2>1. CASE v \in 1..n
      <3>1. PICK i \in 1..L : Tells(w[i]) /\ w[i].ver = v
        BY <1>1, <1>4, <2>1 DEF Coming, Tell
      <3>2. i \in DOMAIN a /\ a[i] = w[i]
        BY <1>1
      <3> QED
        BY <3>1, <3>2 DEF Tell
    <2>2. CASE v \notin 1..n
      <3>1. Tells(m) /\ m.ver = v
        BY <1>3, <2>2
      <3>2. L + 1 \in DOMAIN a
        BY <1>1
      <3> QED
        BY <1>1, <3>1, <3>2 DEF Tell
    <2> QED
      BY <2>1, <2>2
  <1>5. ASSUME Coming(w, FALSE, b, n), NEW v \in 1..m.ver, v > b
        PROVE  Tell(w, v) \/ \A i \in DOMAIN w : w[i].ver < v
    <2>1. CASE v \in 1..n
      BY <1>5, <2>1 DEF Coming
    <2>2. CASE v \notin 1..n
      <3>1. v > n
        BY <1>3, <2>2
      <3> QED
        BY <1>1, <1>2, <3>1
    <2> QED
      BY <2>1, <2>2
  <1>6. ASSUME Orderly(w, b), NEW i \in 1..(L + 1), NEW j \in 1..(L + 1),
               i < j, Tells(a[j]), a[j].ver > b
        PROVE  a[i].seq < a[j].seq /\ a[i].ver < a[j].ver
    <2>1. i \in 1..L /\ a[i] = w[i]
      BY <1>1, <1>6
    <2>2. CASE j \in 1..L
      BY <1>1, <1>6, <2>1, <2>2 DEF Orderly
    <2>3. CASE j = L + 1
      <3>1. a[j] = m /\ m.ver = n + 1
        BY <1>1, <1>3, <1>6, <2>3
      <3> QED
        BY <1>2, <2>1, <3>1
    <2> QED
      BY <1>1, <2>2, <2>3
  <1> QED
    BY <1>1, <1>4, <1>5, <1>6 DEF Coming, Orderly, a

\* A message of what the page has already: replayed, or a snapshot.
LEMMA AppendPast ==
  ASSUME NEW w \in Seq(Message), NEW m \in Message, NEW n \in Nat, NEW b \in Nat, NEW live,
         m.ver <= b
  PROVE  /\ Coming(w, live, b, n) => Coming(Append(w, m), live, b, n)
         /\ Orderly(w, b) => Orderly(Append(w, m), b)
  <1> DEFINE a == Append(w, m)
             L == Len(w)
  <1>1. /\ a \in Seq(Message) /\ L \in Nat /\ DOMAIN w = 1..L /\ DOMAIN a = 1..(L + 1)
        /\ \A i \in 1..L : a[i] = w[i]
        /\ a[L + 1] = m
    BY AppendMessage, MessageType
  <1>2. m.ver \in Nat /\ ~(m.ver > b)
    BY DEF Message
  <1> HIDE DEF a, L
  <1>4. ASSUME Coming(w, live, b, n), NEW v \in 1..n, v > b
        PROVE  Tell(a, v) \/ (~live /\ \A i \in DOMAIN a : a[i].ver < v)
    <2>1. CASE Tell(w, v)
      BY <1>1, <2>1 DEF Tell
    <2>2. CASE ~live /\ \A i \in DOMAIN w : w[i].ver < v
      <3>1. m.ver < v
        BY <1>2, <1>4
      <3>2. \A i \in 1..(L + 1) : a[i].ver < v
        <4> TAKE i \in 1..(L + 1)
        <4>1. i \in 1..L \/ i = L + 1
          BY <1>1
        <4> QED
          BY <1>1, <2>2, <3>1, <4>1
      <3> QED
        BY <1>1, <2>2, <3>2
    <2> QED
      BY <1>4, <2>1, <2>2 DEF Coming
  <1>6. ASSUME Orderly(w, b), NEW i \in 1..(L + 1), NEW j \in 1..(L + 1),
               i < j, Tells(a[j]), a[j].ver > b
        PROVE  a[i].seq < a[j].seq /\ a[i].ver < a[j].ver
    <2>1. i \in 1..L /\ a[i] = w[i]
      BY <1>1, <1>6
    <2>2. j \in 1..L
      BY <1>1, <1>2, <1>6
    <2> QED
      BY <1>1, <1>6, <2>1, <2>2 DEF Orderly
  <1> QED
    BY <1>1, <1>4, <1>6 DEF Coming, Orderly, a

\* The page handles its first message and has version c of the accounts then.
LEMMA HandleFirst ==
  ASSUME NEW w \in Seq(Message), w # <<>>, NEW n \in Nat, NEW b \in Nat, NEW c \in Nat, NEW live,
         b <= c, Tells(w[1]) => w[1].ver # c + 1,
         Tells(w[1]) /\ w[1].ver > c => c = b,
         Coming(w, live, b, n), Orderly(w, b)
  PROVE  /\ Coming(Tail(w), live, c, n) /\ Orderly(Tail(w), c)
         /\ \A v \in 1..n : v > c =>
              \/ \E i \in DOMAIN w : i # 1 /\ Tells(w[i]) /\ w[i].ver = v
              \/ ~live /\ \A i \in DOMAIN w : w[i].ver < v
  <1> DEFINE t == Tail(w)
             L == Len(w)
  <1>1. /\ t \in Seq(Message) /\ L \in Nat /\ DOMAIN w = 1..L /\ DOMAIN t = 1..(L - 1) /\ L > 0
        /\ \A i \in 1..(L - 1) : t[i] = w[i + 1]
    BY TailMessage, MessageType
  <1>2. \A i \in 1..L : w[i].ver \in Nat /\ w[i].seq \in Nat
    BY <1>1, MessageVer
  <1> HIDE DEF t, L
  <1>6. \A i \in 1..(L - 1) : i + 1 \in 1..L /\ t[i] = w[i + 1]
    BY <1>1
  <1>3. \A i \in 1..L : i # 1 => i - 1 \in 1..(L - 1) /\ t[i - 1] = w[i]
    BY <1>1
  <1>4. ASSUME NEW v \in 1..n, v > c
        PROVE  \/ \E i \in DOMAIN w : i # 1 /\ Tells(w[i]) /\ w[i].ver = v
               \/ ~live /\ \A i \in DOMAIN w : w[i].ver < v
    <2>0. v \in Nat /\ v > b
      BY <1>4
    <2>3. CASE Tells(w[1]) /\ w[1].ver = v
      <3>1. c = b /\ v # b + 1
        BY <1>4, <2>3
      <3>2. b + 1 \in 1..n /\ b + 1 < v
        BY <1>4, <2>0, <3>1
      <3>3. Tell(w, b + 1) \/ \A i \in DOMAIN w : w[i].ver < b + 1
        BY <3>2 DEF Coming
      <3>4. ~(w[1].ver < b + 1) /\ 1 \in DOMAIN w
        BY <1>1, <2>3, <3>2
      <3>5. PICK k \in 1..L : Tells(w[k]) /\ w[k].ver = b + 1
        BY <1>1, <3>3, <3>4 DEF Tell
      <3>6. k # 1 /\ 1 < k /\ 1 \in 1..L
        BY <1>1, <2>3, <3>2, <3>5
      <3>7. w[1].ver < w[k].ver
        <4>1. w[k].ver > b
          BY <1>2, <3>5
        <4> QED
          BY <1>1, <3>5, <3>6, <4>1 DEF Orderly
      <3> QED
        BY <2>3, <3>2, <3>5, <3>7
    <2>4. Tell(w, v) \/ (~live /\ \A i \in DOMAIN w : w[i].ver < v)
      BY <1>4, <2>0 DEF Coming
    <2> QED
      BY <2>3, <2>4 DEF Tell
  <1>7. ASSUME NEW v \in 1..n, v > c PROVE Tell(t, v) \/ (~live /\ \A i \in DOMAIN t : t[i].ver < v)
    <2>1. CASE ~live /\ \A i \in DOMAIN w : w[i].ver < v
      <3>1. \A i \in 1..(L - 1) : t[i].ver < v
        BY <1>1, <1>6, <2>1
      <3> QED
        BY <1>1, <2>1, <3>1
    <2>2. CASE \E i \in DOMAIN w : i # 1 /\ Tells(w[i]) /\ w[i].ver = v
      BY <1>1, <1>3, <2>2 DEF Tell
    <2> QED
      BY <1>4, <1>7, <2>1, <2>2
  <1>5. ASSUME NEW i \in 1..(L - 1), NEW j \in 1..(L - 1), i < j, Tells(t[j]), t[j].ver > c
        PROVE  t[i].seq < t[j].seq /\ t[i].ver < t[j].ver
    <2>1. i + 1 \in 1..L /\ j + 1 \in 1..L /\ i + 1 < j + 1 /\ t[i] = w[i + 1] /\ t[j] = w[j + 1]
      <3>1. i + 1 < j + 1
        BY <1>5
      <3> QED
        BY <1>6, <3>1
    <2>2. w[j + 1].ver > b
      BY <1>2, <1>5, <2>1
    <2> QED
      BY <1>1, <1>5, <2>1, <2>2 DEF Orderly
  <1>8. Coming(t, live, c, n)
    BY <1>7 DEF Coming
  <1>9. Orderly(t, c)
    BY <1>1, <1>5 DEF Orderly
  <1> QED
    BY <1>4, <1>8, <1>9 DEF t

\* A live event takes its place at the end of the buffer, and may push one out.
LEMMA Slides ==
  ASSUME TypeOK, NumberOK, NEW k \in EventKinds, NEW m, Sends(k, m)
  PROVE  \E o \in {0, 1} :
           /\ Len(buffer') = Len(buffer) + 1 - o /\ Len(buffer) >= o
           /\ \A i \in 1..(Len(buffer) - o) : buffer'[i] = buffer[i + o]
           /\ buffer'[Len(buffer')] = m
  <1>1. /\ buffer' = Append1(buffer, m) /\ buffer \in Seq(Message) /\ m \in Message
        /\ Len(buffer) <= BufferSize
    BY DEF Sends, TypeOK
  <1>2. Len(buffer) \in Nat /\ DOMAIN buffer = 1..Len(buffer)
    BY <1>1, MessageType
  <1>3. CASE Len(buffer') = Len(buffer) + 1 /\ \A i \in DOMAIN buffer : buffer'[i] = buffer[i]
    <2>1. buffer'[Len(buffer')] = m
      BY <1>1, Append1Fact
    <2> QED
      BY <1>2, <1>3, <2>1
  <1>4. CASE /\ Len(buffer') = Len(buffer) /\ Len(buffer) > 0
             /\ \A i \in 1..(Len(buffer) - 1) : buffer'[i] = buffer[i + 1]
    <2>1. buffer'[Len(buffer')] = m
      BY <1>1, Append1Fact
    <2>2. Len(buffer') = Len(buffer) + 1 - 1 /\ Len(buffer) >= 1
      BY <1>2, <1>4
    <2>3. \A i \in 1..(Len(buffer) - 1) : buffer'[i] = buffer[i + 1]
      BY <1>4
    <2> QED
      BY <2>1, <2>2, <2>3
  <1> QED
    BY <1>1, <1>3, <1>4, Append1Fact

LEMMA ChainBroadcast ==
  ASSUME TypeOK, NumberOK, NEW k \in EventKinds, NEW m, Sends(k, m), ChainOK
  PROVE  ChainOK'
  <1> DEFINE b == buffer
             q == buffer'
             L == Len(b)
             K == Len(q)
             n == roster
             x == roster'
  <1>1. m \in Message /\ m.ver = x /\ (Tells(m) => x = n + 1) /\ (~Tells(m) => x = n)
        /\ n \in Nat /\ b \in Seq(Message) /\ q \in Seq(Message)
    BY Append1Fact DEF Sends, TypeOK, Tells
  <1>2. PICK o \in {0, 1} : K = L + 1 - o /\ L >= o /\ q[K] = m /\ \A i \in 1..(L - o) : q[i] = b[i + o]
    BY Slides
  <1>3. L \in Nat /\ K \in Nat /\ DOMAIN b = 1..L /\ DOMAIN q = 1..K
    BY <1>1, MessageType
  <1>4. \A i \in 1..L : b[i].ver \in Nat /\ b[i].ver <= n /\ Before(b[i]) \in Int
    BY <1>1, <1>3, MessageVer DEF ChainOK, Known
  <1>5. Before(m) = n /\ x \in Nat /\ x >= n
    BY <1>1 DEF Before
  <1>6. Chained(b, n)
    BY DEF ChainOK
  <1> HIDE DEF b, q, L, K, n, x
  <1>7. \A i \in 1..K : i = K \/ (i \in 1..(L - o) /\ i + o \in 1..L /\ q[i] = b[i + o])
    BY <1>2, <1>3
  <1>8. ASSUME NEW i \in 1..K, Tells(q[i]) PROVE q[i].ver > 0
    <2>1. CASE i = K
      BY <1>1, <1>2, <1>8, <2>1
    <2>2. CASE i + o \in 1..L /\ q[i] = b[i + o]
      BY <1>3, <1>6, <1>8, <2>2 DEF Chained
    <2> QED
      BY <1>7, <2>1, <2>2
  <1>9. ASSUME NEW i \in 1..K, NEW j \in 1..K, i < j
        PROVE  q[i].ver <= Before(q[j]) /\ (j = i + 1 => q[i].ver = Before(q[j]))
    <2>1. i + o \in 1..L /\ q[i] = b[i + o]
      BY <1>3, <1>7, <1>9
    <2>2. CASE j = K
      <3>1. j = i + 1 => i + o = L
        BY <1>2, <1>3, <2>2
      <3>2. j = i + 1 => b[i + o].ver = n
        BY <1>3, <1>6, <2>1, <3>1 DEF Chained, L
      <3> QED
        BY <1>2, <1>4, <1>5, <2>1, <2>2, <3>2
    <2>3. CASE j # K
      <3>1. j + o \in 1..L /\ q[j] = b[j + o] /\ i + o < j + o /\ (j = i + 1 => j + o = (i + o) + 1)
        BY <1>2, <1>3, <1>7, <1>9, <2>3
      <3> QED
        BY <1>3, <1>6, <2>1, <3>1 DEF Chained
    <2> QED
      BY <2>2, <2>3
  <1>10. ASSUME NEW i \in 1..K, NEW v \in 1..x, v > Before(q[i])
         PROVE  \E j \in 1..K : j >= i /\ Tells(q[j]) /\ q[j].ver = v
    <2>0. K \in 1..K /\ K >= i
      BY <1>3
    <2>1. CASE v = n + 1
      <3>1. Tells(q[K]) /\ q[K].ver = v
        BY <1>1, <1>2, <1>5, <2>1
      <3> QED
        BY <2>0, <3>1
    <2>2. CASE v # n + 1
      <3>1. v \in 1..n
        BY <1>1, <2>2
      <3>2. i # K
        BY <1>1, <1>2, <1>5, <1>10, <3>1
      <3>3. i + o \in 1..L /\ q[i] = b[i + o]
        BY <1>7, <3>2
      <3>4. PICK j \in 1..L : j >= i + o /\ Tells(b[j]) /\ b[j].ver = v
        BY <1>3, <1>6, <1>10, <3>1, <3>3 DEF Chained
      <3>5. j - o \in 1..(L - o) /\ j - o \in 1..K /\ j - o >= i /\ (j - o) + o = j
        BY <1>2, <1>3, <3>4
      <3>6. q[j - o] = b[j]
        BY <1>2, <3>5
      <3> QED
        BY <3>4, <3>5, <3>6
    <2> QED
      BY <2>1, <2>2
  <1>11. \A i \in 1..K : i = K => q[i].ver = x
    BY <1>1, <1>2
  <1>12. Chained(q, x)
    <2>1. \A i \in DOMAIN q : i = Len(q) => q[i].ver = x
      BY <1>3, <1>11 DEF K
    <2>2. \A i \in DOMAIN q : Tells(q[i]) => q[i].ver > 0
      BY <1>3, <1>8
    <2>3. \A i, j \in DOMAIN q :
            i < j => q[i].ver <= Before(q[j]) /\ (j = i + 1 => q[i].ver = Before(q[j]))
      BY <1>3, <1>9
    <2>4. \A i, j \in DOMAIN q : j = i + 1 => q[i].ver = Before(q[j])
      <3>1. \A i, j \in 1..K : j = i + 1 => i < j
        OBVIOUS
      <3> QED
        BY <1>3, <2>3, <3>1
    <2>5. \A i \in DOMAIN q, v \in 1..x : v > Before(q[i]) =>
            \E j \in DOMAIN q : j >= i /\ Tells(q[j]) /\ q[j].ver = v
      BY <1>3, <1>10
    <2> QED
      BY <2>1, <2>2, <2>3, <2>4, <2>5 DEF Chained
  <1>13. Known(q, x)
    <2> SUFFICES ASSUME NEW i \in 1..K PROVE q[i].ver <= x
      BY <1>3 DEF Known
    <2>1. CASE i = K
      BY <1>2, <1>1, <1>5, <2>1
    <2>2. CASE i + o \in 1..L /\ q[i] = b[i + o]
      <3>1. b[i + o].ver \in Nat /\ b[i + o].ver <= n
        BY <1>4, <2>2
      <3> QED
        BY <1>1, <1>5, <2>2, <3>1
    <2> QED
      BY <1>7, <2>1, <2>2
  <1> QED
    BY <1>12, <1>13 DEF ChainOK, q, x

\* How messages on the way and the numbers pages have stand to the buffer then.
LEMMA BufferMoves ==
  ASSUME TypeOK, NumberOK, NEW k \in EventKinds, NEW m, Sends(k, m), ChainOK
  PROVE  /\ Same(m, buffer')
         /\ \A h \in Message : h.seq <= seq /\ Same(h, buffer) => Same(h, buffer')
         /\ \A l \in Nat, c \in Nat :
              /\ l <= seq /\ ~(l < buffer'[1].seq - 1)
              /\ ~TooOld(l) => Kept(buffer, l, c, roster)
              => ~TooOld(l) /\ Kept(buffer', l, c, roster')
  <1> DEFINE b == buffer
             q == buffer'
             L == Len(b)
             K == Len(q)
             n == roster
             x == roster'
             s == seq
  <1>1. m \in Message /\ m.ver = x /\ (Tells(m) => x = n + 1) /\ (~Tells(m) => x = n) /\ m.seq = s + 1
        /\ n \in Nat /\ s \in Nat /\ b \in Seq(Message) /\ q \in Seq(Message)
    BY Append1Fact DEF Sends, TypeOK, Tells
  <1>2. PICK o \in {0, 1} : K = L + 1 - o /\ L >= o /\ q[K] = m /\ \A i \in 1..(L - o) : q[i] = b[i + o]
    BY Slides
  <1>3. L \in Nat /\ K \in Nat /\ DOMAIN b = 1..L /\ DOMAIN q = 1..K /\ K > 0
    BY <1>1, <1>2, MessageType
  <1>4. Before(m) = n
    BY <1>1 DEF Before
  <1>5. \A i \in 1..L : b[i].seq = (s - L) + i
    BY <1>3 DEF NumberOK
  <1>6. L <= s /\ (s > 0 => L > 0)
    BY <1>1, <1>3, NoMessage DEF NumberOK
  <1>7. L > 0 => b[L].ver = n /\ b[L].seq = s
    <2>1. L > 0 => b[L].ver = n
      BY <1>3 DEF ChainOK, Chained
    <2> QED
      BY <1>1, <1>3, <1>5, <2>1
  <1>8. \A l \in Nat : TooOld(l) <=> L > 0 /\ l < b[1].seq - 1
    BY <1>1, <1>3, NoMessage DEF TooOld
  <1> HIDE DEF b, q, L, K, n, x, s
  <1>9. \A i \in 1..K : i = K \/ (i \in 1..(L - o) /\ i + o \in 1..L /\ q[i] = b[i + o])
    BY <1>2, <1>3
  <1>10. \A i \in 1..K : q[i].seq = (s + 1 - K) + i
    <2> TAKE i \in 1..K
    <2>1. CASE i = K
      BY <1>1, <1>2, <1>3, <2>1
    <2>2. CASE i # K
      <3>1. i + o \in 1..L /\ q[i] = b[i + o]
        BY <1>9, <2>2
      <3>2. b[i + o].seq = (s - L) + (i + o)
        BY <1>5, <3>1
      <3> QED
        BY <1>1, <1>2, <1>3, <3>1, <3>2
    <2> QED
      BY <2>1, <2>2
  <1>11. Same(m, q)
    <2> SUFFICES ASSUME NEW j \in 1..K
                 PROVE  (m.seq = q[j].seq => m = q[j]) /\ m.seq + 1 # q[j].seq
      BY <1>3 DEF Same
    <2>1. q[j].seq = (s + 1 - K) + j
      BY <1>10
    <2>2. m.seq = q[j].seq => j = K
      BY <1>1, <1>3, <2>1
    <2> QED
      BY <1>1, <1>2, <1>3, <2>1, <2>2
  <1>12. ASSUME NEW h \in Message, h.seq <= s, Same(h, b) PROVE Same(h, q)
    <2> SUFFICES ASSUME h.seq > 0, NEW j \in 1..K
                 PROVE  /\ h.seq = q[j].seq => h = q[j]
                        /\ h.seq + 1 = q[j].seq => h.ver = Before(q[j])
      BY <1>3 DEF Same
    <2>1. CASE j # K
      <3>1. j + o \in 1..L /\ q[j] = b[j + o]
        BY <1>9, <2>1
      <3> QED
        BY <1>3, <1>12, <3>1 DEF Same
    <2>2. CASE j = K
      <3>1. q[j] = m /\ h.seq # s + 1 /\ h.seq \in Nat
        BY <1>1, <1>2, <1>12, <2>2 DEF Message
      <3>2. h.seq = s => h = b[L]
        <4>1. h.seq = s => L > 0 /\ L \in 1..L
          BY <1>3, <1>6
        <4> QED
          BY <1>3, <1>7, <1>12, <4>1 DEF Same
      <3>3. h.seq = s => h.ver = n
        BY <1>3, <1>6, <1>7, <3>2
      <3> QED
        BY <1>1, <1>4, <3>1, <3>3
    <2> QED
      BY <2>1, <2>2
  <1>13. ASSUME NEW l \in Nat, NEW c \in Nat, l <= s, ~(l < q[1].seq - 1),
                ~TooOld(l) => Kept(b, l, c, n)
         PROVE  ~TooOld(l) /\ Kept(q, l, c, x)
    <2>1. q[1].seq = s + 2 - K
      BY <1>1, <1>3, <1>10
    <2>2. L > 0 => b[1].seq = s - L + 1
      BY <1>1, <1>3, <1>5
    <2>3. ~TooOld(l)
      BY <1>1, <1>2, <1>3, <1>8, <1>13, <2>1, <2>2
    <2>4. ASSUME NEW v \in 1..x, v > c
          PROVE  \E j \in 1..K : Tells(q[j]) /\ q[j].ver = v /\ q[j].seq > l
      <3>1. CASE v = n + 1
        <4>1. Tells(q[K]) /\ q[K].ver = v /\ q[K].seq > l /\ K \in 1..K
          BY <1>1, <1>2, <1>3, <1>13, <3>1
        <4> QED
          BY <4>1
      <3>2. CASE v # n + 1
        <4>1. v \in 1..n
          BY <1>1, <3>2
        <4>2. PICK j \in 1..L : Tells(b[j]) /\ b[j].ver = v /\ b[j].seq > l
          BY <1>3, <1>13, <2>3, <2>4, <4>1 DEF Kept
        <4>3. b[j].seq = (s - L) + j
          BY <1>5
        <4>4. j - o \in 1..(L - o) /\ j - o \in 1..K /\ (j - o) + o = j
          BY <1>1, <1>2, <1>3, <1>13, <2>1, <4>2, <4>3
        <4>5. q[j - o] = b[j]
          BY <1>2, <4>4
        <4> QED
          BY <4>2, <4>4, <4>5
      <3> QED
        BY <3>1, <3>2
    <2> QED
      BY <1>3, <2>3, <2>4 DEF Kept
  <1> QED
    BY <1>11, <1>12, <1>13 DEF b, q, n, x, s

LEMMA SoundAppend ==
  ASSUME NEW w \in Seq(Message), NEW m \in Message, NEW b, NEW n, Sound(w, b, n), m.ver <= n, Same(m, b)
  PROVE  Sound(Append(w, m), b, n)
  <1> DEFINE a == Append(w, m)
             L == Len(w)
  <1>1. /\ L \in Nat /\ DOMAIN w = 1..L /\ DOMAIN a = 1..(L + 1)
        /\ \A i \in 1..L : a[i] = w[i]
        /\ a[L + 1] = m
    BY AppendMessage, MessageType
  <1> HIDE DEF a, L
  <1>2. \A i \in 1..(L + 1) : i \in 1..L \/ i = L + 1
    BY <1>1
  <1>3. \A i \in 1..L : w[i].ver <= n /\ Same(w[i], b)
    BY <1>1 DEF Sound, Known
  <1>4. \A i \in 1..(L + 1) : a[i].ver <= n /\ Same(a[i], b)
    BY <1>1, <1>2, <1>3
  <1> QED
    BY <1>1, <1>4 DEF Sound, Known, a

LEMMA SoundTail ==
  ASSUME NEW w \in Seq(Message), w # <<>>, NEW b, NEW n, Sound(w, b, n)
  PROVE  Sound(Tail(w), b, n) /\ w[1].ver <= n /\ Same(w[1], b) /\ w[1] \in Message
  BY TailMessage DEF Sound, Known

LEMMA SoundEmpty == \A b, n : Sound(<<>>, b, n)
  BY EmptySeq DEF Sound, Known

\* A replay takes its events from the buffer.
LEMMA SoundNewer ==
  ASSUME TypeOK, NumberOK, ChainOK, NEW l \in 0..MaxEvents
  PROVE  Sound(Newer(l), buffer, roster)
  <1> DEFINE L == Len(buffer)
  <1>1. L \in Nat /\ DOMAIN buffer = 1..L /\ seq \in Nat
    BY MessageType DEF TypeOK
  <1>2. \A i \in 1..L : buffer[i].seq = (seq - L) + i
    BY <1>1 DEF NumberOK
  <1> HIDE DEF L
  <1>3. ASSUME NEW k \in 1..L PROVE buffer[k].ver <= roster /\ Same(buffer[k], buffer)
    <2>1. \A j \in 1..L : buffer[k].seq = buffer[j].seq => j = k
      BY <1>1, <1>2
    <2>2. \A j \in 1..L : buffer[k].seq + 1 = buffer[j].seq => j = k + 1
      BY <1>1, <1>2
    <2> QED
      BY <1>1, <2>1, <2>2 DEF ChainOK, Known, Chained, Same
  <1>4. \A i \in DOMAIN Newer(l) : \E k \in DOMAIN buffer : Newer(l)[i] = buffer[k]
    BY NewerFact
  <1> HIDE DEF Newer
  <1> QED
    BY <1>1, <1>3, <1>4 DEF Sound, Known

LEMMA SoundStep ==
  ASSUME TypeOK, NumberOK, SentOK, ChainOK, SoundOK, [Next]_vars, NEW d \in Clients
  PROVE  Sound(wire[d], buffer, roster)' /\ Sound(todo[d], buffer, roster)'
  <1>0. /\ wire[d] \in Seq(Message) /\ todo[d] \in Seq(Message) /\ roster \in Nat /\ seq \in Nat
        /\ wire \in [Clients -> Seq(Message)] /\ todo \in [Clients -> Seq(Message)]
    BY DEF TypeOK
  <1>1. Sound(wire[d], buffer, roster) /\ Sound(todo[d], buffer, roster)
    BY DEF SoundOK
  <1>2. CASE \E k \in EventKinds : Broadcast(k)
    <2>1. PICK k \in EventKinds : Broadcast(k)
      BY <1>2
    <2>2. PICK m \in Message : Sends(k, m)
      BY <2>1, BroadcastFact
    <2>3. /\ Same(m, buffer') /\ m.ver <= roster' /\ roster <= roster'
          /\ \A h \in Message : h.seq <= seq /\ Same(h, buffer) => Same(h, buffer')
      BY <1>0, <2>2, BufferMoves DEF Sends
    <2>4. \A i \in DOMAIN wire[d] : wire[d][i].seq <= seq /\ wire[d][i] \in Message
      BY <1>0, MessageType DEF SentOK, Distinct
    <2>5. \A i \in DOMAIN todo[d] : todo[d][i].seq <= seq /\ todo[d][i] \in Message
      BY <1>0, MessageType DEF SentOK, Distinct
    <2>6. roster' \in Nat /\ \A h \in Message : h.ver <= roster => h.ver <= roster'
      <3>1. roster' \in Nat
        BY <1>0, <2>2 DEF Sends
      <3> QED
        BY <1>0, <2>3, <3>1 DEF Message
    <2>7. Sound(wire[d], buffer', roster') /\ Sound(todo[d], buffer', roster')
      BY <1>1, <2>3, <2>4, <2>5, <2>6 DEF Sound, Known
    <2>8. (wire'[d] = Append(wire[d], m) \/ wire'[d] = wire[d]) /\ todo'[d] = todo[d]
      BY <2>2 DEF Sends
    <2>9. Sound(Append(wire[d], m), buffer', roster')
      BY <1>0, <2>3, <2>7, SoundAppend
    <2> QED
      BY <2>7, <2>8, <2>9
  <1>3. ASSUME NEW c \in Clients, Connect(c)
        PROVE  Sound(wire[d], buffer, roster)' /\ Sound(todo[d], buffer, roster)'
    <2>1. UNCHANGED <<buffer, roster>> /\ Sound(Newer(lastSeq[c]), buffer, roster)
      BY <1>3, ConnectFact, SoundNewer DEF TypeOK
    <2>2. /\ wire'[d] = wire[d] \/ wire'[d] = Newer(lastSeq[c])
          /\ todo'[d] = todo[d] \/ todo'[d] = Newer(lastSeq[c])
      BY <1>3, ConnectFact
    <2> QED
      BY <1>1, <2>1, <2>2
  <1>4. ASSUME NEW c \in Clients, ReplayOne(c)
        PROVE  Sound(wire[d], buffer, roster)' /\ Sound(todo[d], buffer, roster)'
    <2>1. UNCHANGED manager
      BY <1>4, ReplayFact
    <2>2. CASE wire'[d] = wire[d] /\ todo'[d] = todo[d]
      BY <1>1, <2>1, <2>2
    <2>3. CASE /\ todo[d] # <<>> /\ wire'[d] = Append(wire[d], todo[d][1])
               /\ todo'[d] = Tail(todo[d])
      <3>1. /\ Sound(Tail(todo[d]), buffer, roster) /\ todo[d][1] \in Message
            /\ todo[d][1].ver <= roster /\ Same(todo[d][1], buffer)
        BY <1>0, <1>1, <2>3, SoundTail
      <3>2. Sound(Append(wire[d], todo[d][1]), buffer, roster)
        BY <1>0, <1>1, <3>1, SoundAppend
      <3> QED
        BY <2>1, <2>3, <3>1, <3>2
    <2> QED
      BY <1>0, <1>4, <2>2, <2>3, ReplayFact
  <1>5. ASSUME NEW c \in Clients, SendSnapshot(c)
        PROVE  Sound(wire[d], buffer, roster)' /\ Sound(todo[d], buffer, roster)'
    <2>1. PICK m \in Message :
            /\ m.seq = 0 /\ m.ver = 0
            /\ wire' = [wire EXCEPT ![c] = Append(wire[c], m)] \/ wire' = wire
            /\ UNCHANGED <<manager, conns, todo, client>>
      BY <1>5, SnapshotFact
    <2>2. Sound(Append(wire[d], m), buffer, roster)
      <3>1. Same(m, buffer) /\ m.ver <= roster
        BY <1>0, <2>1 DEF Same
      <3> QED
        BY <1>0, <1>1, <3>1, SoundAppend
    <2>3. wire'[d] = wire[d] \/ wire'[d] = Append(wire[d], m)
      BY <1>0, <2>1
    <2> QED
      BY <1>1, <2>1, <2>2, <2>3
  <1>6. ASSUME NEW c \in Clients, Receive(c)
        PROVE  Sound(wire[d], buffer, roster)' /\ Sound(todo[d], buffer, roster)'
    <2>1. /\ UNCHANGED <<manager, endpoint>> /\ wire[c] # <<>>
          /\ wire' = [wire EXCEPT ![c] = Tail(wire[c])]
      BY <1>6, ReceiveFact
    <2>2. d = c => Sound(Tail(wire[d]), buffer, roster)
      BY <1>0, <1>1, <2>1, SoundTail
    <2>3. wire'[d] = IF d = c THEN Tail(wire[d]) ELSE wire[d]
      BY <1>0, <2>1
    <2> QED
      BY <1>1, <2>1, <2>2, <2>3
  <1>7. ASSUME NEW c \in Clients, Fetched(c) \/ SendTimeout(c)
        PROVE  Sound(wire[d], buffer, roster)' /\ Sound(todo[d], buffer, roster)'
    <2>1. UNCHANGED <<manager, wire, todo>>
      BY <1>7, FetchedFact DEF SendTimeout
    <2> QED
      BY <1>1, <2>1
  <1>8. ASSUME NEW c \in Clients, Drop(c) \/ Reload(c)
        PROVE  Sound(wire[d], buffer, roster)' /\ Sound(todo[d], buffer, roster)'
    <2>1. /\ UNCHANGED manager
          /\ todo' = [todo EXCEPT ![c] = <<>>] /\ wire' = [wire EXCEPT ![c] = <<>>]
      BY <1>8, BreakFact
    <2>2. (wire'[d] = wire[d] \/ wire'[d] = <<>>) /\ (todo'[d] = todo[d] \/ todo'[d] = <<>>)
      BY <1>0, <2>1
    <2> QED
      BY <1>1, <2>1, <2>2, SoundEmpty
  <1>9. CASE Restart
    <2>1. wire'[d] = <<>> /\ todo'[d] = <<>>
      BY <1>9 DEF Restart
    <2> QED
      BY <2>1, SoundEmpty
  <1>10. CASE UNCHANGED vars
    BY <1>1, <1>10 DEF vars
  <1> QED
    BY <1>2, <1>3, <1>4, <1>5, <1>6, <1>7, <1>8, <1>9, <1>10 DEF Next, Proceed

LEMMA ChainStep ==
  ASSUME TypeOK, NumberOK, ChainOK, [Next]_vars
  PROVE  ChainOK'
  <1>1. CASE \E k \in EventKinds : Broadcast(k)
    BY <1>1, BroadcastFact, ChainBroadcast
  <1>2. CASE UNCHANGED manager
    BY <1>2 DEF ChainOK
  <1>3. ASSUME NEW c \in Clients,
               Proceed(c) \/ Fetched(c) \/ SendTimeout(c) \/ Drop(c) \/ Reload(c)
        PROVE  UNCHANGED manager
    BY <1>3, ConnectFact, ReplayFact, SnapshotFact, ReceiveFact, FetchedFact, BreakFact
       DEF Proceed, SendTimeout
  <1>4. CASE Restart
    <2>1. buffer' = <<>>
      BY <1>4 DEF Restart
    <2> QED
      BY <2>1, EmptySeq DEF ChainOK, Chained, Known
  <1>5. CASE UNCHANGED vars
    BY <1>2, <1>5 DEF vars
  <1> QED
    BY <1>1, <1>2, <1>3, <1>4, <1>5 DEF Next

\* What an event does to a page's copy of the accounts.
LEMMA ApplyFact ==
  ASSUME TypeOK, NEW c \in Clients, NEW m \in Message, Apply(c, m)
  PROVE  /\ \A d \in Clients : d # c =>
              /\ view'[d] = view[d] /\ fetch'[d] = fetch[d] /\ answer'[d] = answer[d]
              /\ skipped'[d] = skipped[d] /\ dated'[d] = dated[d]
         /\ \/ Tells(m) /\ fetch'[c] = "asked" /\ view'[c] = view[c] /\ answer'[c] = 0
            \/ /\ Tells(m)
               /\ view'[c] = IF view[c] + 1 = m.ver THEN m.ver ELSE view[c]
               /\ dated'[c] = (dated[c] \/ Older(c, m.ver))
               /\ fetch'[c] = fetch[c] /\ answer'[c] = answer[c] /\ skipped'[c] = skipped[c]
            \/ ~Tells(m) /\ UNCHANGED accounts
  <1>1. CASE m.kind = "roster" /\ Ask(c) /\ UNCHANGED <<view, skipped>>
    BY <1>1 DEF Ask, Tells, TypeOK
  <1>2. CASE /\ m.kind = "deleted"
             /\ view' = [view EXCEPT ![c] = IF @ + 1 = m.ver THEN m.ver ELSE @]
             /\ dated' = [dated EXCEPT ![c] = @ \/ Older(c, m.ver)]
             /\ UNCHANGED <<fetch, answer, skipped>>
    <2> DEFINE o == Older(c, m.ver)
    <2> HIDE DEF o
    <2>1. dated' = [dated EXCEPT ![c] = @ \/ o]
      BY <1>2 DEF o
    <2>2. dated'[c] = (dated[c] \/ o) /\ \A d \in Clients : d # c => dated'[d] = dated[d]
      BY <2>1 DEF TypeOK
    <2>3. /\ view'[c] = IF view[c] + 1 = m.ver THEN m.ver ELSE view[c]
          /\ \A d \in Clients : d # c => view'[d] = view[d]
      BY <1>2 DEF TypeOK
    <2> QED
      BY <1>2, <2>2, <2>3 DEF Tells, o
  <1>3. CASE m.kind = "usage" /\ UNCHANGED accounts
    BY <1>3 DEF Tells
  <1> QED
    BY <1>1, <1>2, <1>3 DEF Apply

LEMMA CopyStep ==
  ASSUME TypeOK, NumberOK, SoundOK, CopyOK, [Next]_vars, NEW d \in Clients
  PROVE  view'[d] <= roster' /\ answer'[d] <= roster'
  <1>0. /\ roster \in Nat /\ view[d] \in Nat /\ answer[d] \in Nat
        /\ view[d] <= roster /\ answer[d] <= roster
    BY DEF TypeOK, CopyOK
  <1>1. CASE \E k \in EventKinds : Broadcast(k)
    <2>1. PICK k \in EventKinds : Broadcast(k)
      BY <1>1
    <2>2. PICK m \in Message : Sends(k, m)
      BY <2>1, BroadcastFact
    <2>3. (roster' = roster \/ roster' = roster + 1) /\ UNCHANGED client
      BY <2>2 DEF Sends
    <2> QED
      BY <1>0, <2>3
  <1>2. ASSUME NEW c \in Clients, Connect(c) PROVE view'[d] <= roster' /\ answer'[d] <= roster'
    <2>1. UNCHANGED <<roster, view, answer>>
      BY <1>2, ConnectFact DEF Connect, Register
    <2> QED
      BY <1>0, <2>1
  <1>3. ASSUME NEW c \in Clients, ReplayOne(c) \/ SendSnapshot(c) \/ SendTimeout(c) \/ Drop(c)
        PROVE  view'[d] <= roster' /\ answer'[d] <= roster'
    BY <1>0, <1>3 DEF ReplayOne, SendSnapshot, SendTimeout, Drop
  <1>4. ASSUME NEW c \in Clients, Receive(c) PROVE view'[d] <= roster' /\ answer'[d] <= roster'
    <2>1. /\ Apply(c, wire[c][1]) /\ roster' = roster /\ wire[c][1] \in Message
          /\ 1 \in DOMAIN wire[c]
      BY <1>4, ReceiveFact
    <2>2. wire[c][1].ver <= roster
      BY <2>1 DEF SoundOK, Sound, Known
    <2>3. /\ view'[d] = view[d] \/ view'[d] = wire[c][1].ver
          /\ answer'[d] = answer[d] \/ answer'[d] = 0
      BY <2>1, ApplyFact
    <2> QED
      BY <1>0, <2>1, <2>2, <2>3
  <1>5. ASSUME NEW c \in Clients, Fetched(c) \/ Reload(c)
        PROVE  view'[d] <= roster' /\ answer'[d] <= roster'
    <2>1. roster' = roster /\ (view'[d] = view[d] \/ view'[d] = answer[d])
          /\ (answer'[d] = answer[d] \/ answer'[d] = roster \/ answer'[d] = 0)
      BY <1>5 DEF Fetched, Answer, Arrive, FetchFails, Conclude, Reload, Ask, TypeOK
    <2> QED
      BY <1>0, <2>1
  <1>6. CASE Restart
    BY <1>0, <1>6 DEF Restart
  <1>7. CASE UNCHANGED vars
    BY <1>0, <1>7 DEF vars
  <1> QED
    BY <1>1, <1>2, <1>3, <1>4, <1>5, <1>6, <1>7 DEF Next, Proceed

----------------------------------------------------------------------------
(* Whoever is told everything is ready.                                    *)

\* The events after one that has been on the way are in the buffer.
LEMMA Follows ==
  ASSUME TypeOK, NumberOK, ChainOK, NEW m \in Message, m.seq > 0, m.seq <= seq,
         Same(m, buffer), ~TooOld(m.seq), NEW v \in 1..roster, m.ver < v
  PROVE  \E j \in DOMAIN buffer : Tells(buffer[j]) /\ buffer[j].ver = v /\ buffer[j].seq > m.seq
  <1> DEFINE L == Len(buffer)
             l == m.seq
  <1>1. L \in Nat /\ DOMAIN buffer = 1..L /\ seq \in Nat /\ l \in Nat /\ l > 0 /\ l <= seq /\ v \in Nat
        /\ m.ver \in Nat
    BY MessageType DEF TypeOK, Message
  <1>2. \A i \in 1..L : buffer[i].seq = (seq - L) + i
    BY <1>1 DEF NumberOK
  <1>3. L > 0 /\ L <= seq /\ buffer # <<>>
    BY <1>1, NoMessage DEF NumberOK, TypeOK
  <1>4. l >= seq - L
    BY <1>1, <1>2, <1>3 DEF TooOld
  <1>5. \A i \in 1..L : v > Before(buffer[i]) => \E j \in 1..L : j >= i /\ Tells(buffer[j]) /\ buffer[j].ver = v
    BY <1>1 DEF ChainOK, Chained
  <1>6. \A j \in 1..L : /\ l = buffer[j].seq => m = buffer[j]
                        /\ l + 1 = buffer[j].seq => m.ver = Before(buffer[j])
    BY <1>1 DEF Same
  <1> HIDE DEF L, l
  <1>7. CASE l = seq - L
    <2>1. 1 \in 1..L /\ l + 1 = buffer[1].seq
      BY <1>1, <1>2, <1>3, <1>7
    <2>2. PICK j \in 1..L : j >= 1 /\ Tells(buffer[j]) /\ buffer[j].ver = v
      BY <1>5, <1>6, <2>1
    <2>3. buffer[j].seq > l
      BY <1>1, <1>2, <1>7
    <2> QED
      BY <1>1, <2>2, <2>3 DEF l
  <1>8. CASE l # seq - L
    <2> DEFINE i == l - (seq - L)
    <2>1. i \in 1..L /\ l = buffer[i].seq
      BY <1>1, <1>2, <1>3, <1>4, <1>8
    <2> HIDE DEF i
    <2>2. m = buffer[i]
      BY <1>6, <2>1
    <2>3. v > Before(buffer[i])
      BY <1>1, <2>2 DEF Before
    <2>4. PICK j \in 1..L : j >= i /\ Tells(buffer[j]) /\ buffer[j].ver = v
      BY <1>5, <2>1, <2>3
    <2>5. j > i
      BY <1>1, <2>1, <2>2, <2>4
    <2>6. buffer[j].seq > l
      BY <1>1, <1>2, <2>1, <2>5
    <2> QED
      BY <1>1, <2>4, <2>6 DEF l
  <1> QED
    BY <1>7, <1>8

\* What is on the way with a number that is not too old is in the buffer.
LEMMA InBuffer ==
  ASSUME TypeOK, NumberOK, NEW l \in Nat, ~TooOld(l), NEW h \in Message, h.seq > l, h.seq <= seq,
         Same(h, buffer)
  PROVE  \E j \in DOMAIN buffer : buffer[j] = h
  <1> DEFINE L == Len(buffer)
             n == h.seq
             i == n - (seq - L)
  <1>1. L \in Nat /\ DOMAIN buffer = 1..L /\ seq \in Nat /\ n \in Nat /\ n > l /\ n <= seq /\ n > 0
    BY MessageType DEF TypeOK, Message
  <1>2. \A j \in 1..L : buffer[j].seq = (seq - L) + j
    BY <1>1 DEF NumberOK
  <1>3. L > 0 /\ L <= seq /\ buffer # <<>>
    BY <1>1, NoMessage DEF NumberOK, TypeOK
  <1>4. l >= seq - L
    BY <1>1, <1>2, <1>3 DEF TooOld
  <1>5. \A j \in 1..L : n = buffer[j].seq => h = buffer[j]
    BY <1>1 DEF Same
  <1> HIDE DEF L, n
  <1>6. i \in 1..L /\ n = buffer[i].seq
    BY <1>1, <1>2, <1>3, <1>4
  <1> QED
    BY <1>1, <1>5, <1>6

\* A page a step leaves alone, or takes off the list.
LEMMA ReadyOn ==
  ASSUME NEW d, NEW b, Ready(d, b), UNCHANGED <<roster, buffer>>,
         wire'[d] = wire[d], todo'[d] = todo[d], lastSeq'[d] = lastSeq[d], old'[d] = old[d],
         page'[d] = "open" => page[d] = "open", d \in conns' => d \in conns
  PROVE  Ready(d, b)'
  <1>1. Replays(d)' <=> Replays(d)
    BY DEF Replays, TooOld
  <1>2. Coming(wire[d], d \in conns, b, roster) => Coming(wire[d], d \in conns', b, roster)
    BY DEF Coming
  <1> QED
    BY <1>1, <1>2 DEF Ready

\* A page that is up to date.
LEMMA ReadyTop ==
  ASSUME NEW d \in Clients, TypeOK', SoundOK'
  PROVE  Ready(d, roster)'
  <1>1. wire'[d] \in Seq(Message) /\ roster' \in Nat
    BY DEF TypeOK
  <1>2. Known(wire'[d], roster') /\ Known(todo'[d], roster')
    BY DEF SoundOK, Sound
  <1>3. /\ Coming(wire'[d], d \in conns', roster', roster') /\ Orderly(wire'[d], roster')
        /\ Kept(buffer', lastSeq'[d], roster', roster')
    BY <1>1, <1>2, UpToDate
  <1> QED
    BY <1>2, <1>3 DEF Ready

LEMMA ReadyBroadcast ==
  ASSUME TypeOK, NumberOK, IdleOK, SentOK, ChainOK, SoundOK, NEW k \in EventKinds, NEW m, Sends(k, m),
         NEW d \in Clients, NEW b \in Nat, Ready(d, b)
  PROVE  Ready(d, b)'
  <1>1. /\ m \in Message /\ m.seq = seq + 1 /\ m.ver = roster' /\ m.ver = IF Tells(m) THEN roster + 1 ELSE roster
        /\ wire'[d] = IF d \in conns THEN Append(wire[d], m) ELSE wire[d]
        /\ UNCHANGED <<endpoint, client>>
    BY DEF Sends, Tells
  <1>2. /\ wire[d] \in Seq(Message) /\ roster \in Nat /\ seq \in Nat
        /\ lastSeq[d] \in Nat
    BY DEF TypeOK
  <1>3. Known(wire[d], roster) /\ \A i \in DOMAIN wire[d] : wire[d][i].seq <= seq
    BY DEF SoundOK, Sound, SentOK, Distinct
  <1>4. /\ Coming(wire[d], TRUE, b, roster) => Coming(Append(wire[d], m), TRUE, b, roster')
        /\ Coming(wire[d], FALSE, b, roster) => Coming(wire[d], FALSE, b, roster')
        /\ Orderly(wire[d], b) => Orderly(Append(wire[d], m), b)
    BY <1>1, <1>2, <1>3, AppendLive
  <1>5. page[d] = "open" => Coming(wire'[d], d \in conns, b, roster') /\ Orderly(wire'[d], b)
    <2>1. CASE d \in conns
      <3>1. (d \in conns) = TRUE
        BY <2>1
      <3> QED
        BY <1>1, <1>4, <2>1, <3>1 DEF Ready
    <2>2. CASE d \notin conns
      <3>1. (d \in conns) = FALSE
        BY <2>2
      <3> QED
        BY <1>1, <1>4, <2>2, <3>1 DEF Ready
    <2> QED
      BY <2>1, <2>2
  <1>6. ASSUME Replays(d)' PROVE Kept(buffer', lastSeq[d], b, roster')
    <2>1. ~old[d] /\ lastSeq[d] > 0 /\ lastSeq[d] <= seq
      BY <1>1, <1>6 DEF Replays, IdleOK
    <2>2. ~(lastSeq[d] < buffer'[1].seq - 1)
      <3>1. buffer' \in Seq(Message) /\ Len(buffer') > 0
        BY Append1Fact DEF Sends, TypeOK
      <3>2. buffer' # <<>>
        BY <3>1, NoMessage
      <3> QED
        BY <1>1, <1>6, <3>2 DEF Replays, TooOld
    <2>3. ~TooOld(lastSeq[d]) => Kept(buffer, lastSeq[d], b, roster)
      BY <2>1 DEF Ready, Replays
    <2> QED
      BY <1>2, <2>1, <2>2, <2>3, BufferMoves
  <1>7. Known(todo[d], b)
    BY DEF Ready
  <1> QED
    BY <1>1, <1>5, <1>6, <1>7 DEF Ready

\* Whatever a page that is replayed to lacks, the replay has in order; to any
\* other the roster is either what it shows or known to be lacking.
LEMMA CountsConnect ==
  ASSUME TypeOK, CopyOK, NEW c \in Clients, Connect(c), NEW b, Counts(c, b)'
  PROVE  Counts(c, b) /\ ((stream'[c] = "clean" /\ ~old[c]) \/ b = roster)
  <1>1. UNCHANGED <<view, fetch, answer>>
    BY DEF Connect, Register
  <1>2. /\ view[c] \in Nat /\ answer[c] \in Nat /\ roster \in Nat
        /\ view[c] <= roster /\ answer[c] <= roster
    BY DEF TypeOK, CopyOK
  <1>3. PICK how \in {"clean", "gap", "held"} : Join(c, how)
    BY DEF Connect, Snapshot
  <1> DEFINE passes == how # "clean" \/ old[c]
  <1>4. /\ stream'[c] = IF how = "clean" /\ old[c] THEN "gap" ELSE how
        /\ skipped'[c] = (skipped[c] \/ (passes /\ view[c] # roster))
        /\ dated'[c] = (dated[c] \/ (passes /\ Older(c, roster)))
    <2> DEFINE o == Older(c, roster)
    <2> HIDE DEF o
    <2>1. /\ stream' = [stream EXCEPT ![c] = IF how = "clean" /\ old[c] THEN "gap" ELSE how]
          /\ skipped' = [skipped EXCEPT ![c] = @ \/ (passes /\ view[c] # roster)]
          /\ dated' = [dated EXCEPT ![c] = @ \/ (passes /\ o)]
      BY <1>3 DEF Join, o
    <2> HIDE DEF passes
    <2> QED
      BY <2>1 DEF TypeOK, o
  <1>5. CASE fetch[c] = "none" /\ ~skipped'[c] /\ b = view[c]
    BY <1>1, <1>4, <1>5 DEF Counts
  <1>6. CASE fetch[c] = "answered" /\ ~dated'[c] /\ b = answer[c]
    <2>1. passes => ~(answer[c] < roster)
      BY <1>4, <1>6 DEF Older
    <2>2. passes => b = roster
      BY <1>2, <1>6, <2>1
    <2>3. ~dated[c]
      BY <1>4, <1>6
    <2>4. Counts(c, b)
      BY <1>6, <2>3 DEF Counts
    <2>5. ~passes => stream'[c] = "clean" /\ ~old[c]
      BY <1>4
    <2> HIDE DEF passes
    <2> QED
      BY <2>2, <2>4, <2>5
  <1> QED
    BY <1>1, <1>5, <1>6 DEF Counts

LEMMA ReadyConnect ==
  ASSUME TypeOK, NumberOK, IdleOK, ChainOK, SoundOK, CopyOK, TypeOK', SoundOK',
         NEW c \in Clients, Connect(c), NEW b \in Nat, Counts(c, b)',
         Counts(c, b) => Ready(c, b)
  PROVE  Ready(c, b)'
  <1>1. CASE b = roster
    <2>1. roster' = roster
      BY ConnectFact
    <2> QED
      BY <1>1, <2>1, ReadyTop
  <1>2. CASE stream'[c] = "clean" /\ ~old[c] /\ b # roster
    <2> DEFINE q == Newer(lastSeq[c])
    <2>1. /\ ~TooOld(lastSeq[c]) /\ wire'[c] = q /\ todo'[c] = todo[c]
          /\ UNCHANGED <<manager, lastSeq, old>> /\ c \in conns'
      BY <1>2, ConnectFact
    <2>2. Ready(c, b)
      BY CountsConnect
    <2>3. lastSeq[c] > 0
      <3>1. lastSeq[c] > 0 \/ Snapshot(c)
        BY <1>2 DEF Connect
      <3>2. ~Snapshot(c)
        BY <1>2 DEF Snapshot, Join, TypeOK
      <3> QED
        BY <3>1, <3>2
    <2>4. Kept(buffer, lastSeq[c], b, roster)
      BY <1>2, <2>1, <2>2, <2>3 DEF Ready, Replays
    <2>5. /\ q \in Seq(Message) /\ DOMAIN q = 1..Len(q) /\ Len(q) \in Nat /\ seq \in Nat
          /\ \A i \in DOMAIN q : q[i].seq = (seq - Len(q)) + i
          /\ \A i \in DOMAIN q : \E k \in DOMAIN buffer : q[i] = buffer[k]
          /\ \A k \in DOMAIN buffer : buffer[k].seq > lastSeq[c] => \E i \in DOMAIN q : q[i] = buffer[k]
      <3>1. lastSeq[c] \in 0..MaxEvents /\ seq \in Nat
        BY DEF TypeOK
      <3>2. q \in Seq(Message)
        BY <3>1, NewerFact
      <3>3. DOMAIN q = 1..Len(q) /\ Len(q) \in Nat
        BY <3>2, MessageType
      <3> QED
        BY <3>1, <3>2, <3>3, NewerFact
    <2> HIDE DEF q
    <2>6. Coming(q, TRUE, b, roster)
      BY <2>4, <2>5 DEF Coming, Tell, Kept
    <2>7. Orderly(q, b)
      <3> SUFFICES ASSUME NEW i \in DOMAIN q, NEW j \in DOMAIN q, i < j, Tells(q[j])
                   PROVE  q[i].seq < q[j].seq /\ q[i].ver < q[j].ver
        BY DEF Orderly
      <3>1. q[i].seq < q[j].seq
        BY <2>5
      <3>2. PICK e \in DOMAIN buffer, f \in DOMAIN buffer : q[i] = buffer[e] /\ q[j] = buffer[f]
        BY <2>5
      <3>3. e < f
        <4>1. /\ Len(buffer) \in Nat /\ DOMAIN buffer = 1..Len(buffer)
          BY MessageType DEF TypeOK
        <4>2. buffer[e].seq = (seq - Len(buffer)) + e /\ buffer[f].seq = (seq - Len(buffer)) + f
          BY DEF NumberOK
        <4> QED
          BY <2>5, <3>1, <3>2, <4>1, <4>2
      <3>4. buffer[e].ver <= Before(buffer[f]) /\ Tells(buffer[f])
        BY <3>2, <3>3 DEF ChainOK, Chained
      <3>5. buffer[e].ver \in Nat /\ buffer[f].ver \in Nat
        BY MessageVer DEF TypeOK
      <3> QED
        BY <3>1, <3>2, <3>4, <3>5 DEF Before
    <2>8. (c \in conns') = TRUE
      BY <2>1
    <2> QED
      BY <2>1, <2>2, <2>4, <2>6, <2>7, <2>8 DEF Ready
  <1> QED
    BY <1>1, <1>2, CountsConnect

LEMMA ReadyReplay ==
  ASSUME TypeOK, NEW c \in Clients, ReplayOne(c), NEW b \in Nat, Ready(c, b)
  PROVE  Ready(c, b)'
  <1>1. UNCHANGED <<manager, conns, client>>
    BY ReplayFact
  <1>2. CASE UNCHANGED <<todo, wire>>
    BY <1>1, <1>2, ReadyOn
  <1>3. CASE /\ todo[c] # <<>> /\ todo[c][1] \in Message
             /\ wire' = [wire EXCEPT ![c] = Append(wire[c], todo[c][1])]
             /\ todo' = [todo EXCEPT ![c] = Tail(todo[c])]
    <2>1. /\ wire'[c] = Append(wire[c], todo[c][1]) /\ todo'[c] = Tail(todo[c])
          /\ wire[c] \in Seq(Message) /\ todo[c] \in Seq(Message) /\ roster \in Nat
      BY <1>3 DEF TypeOK
    <2>2. todo[c][1].ver <= b /\ Known(Tail(todo[c]), b)
      BY <1>3, <2>1, TailMessage DEF Ready, Known
    <2>3. /\ Coming(wire[c], c \in conns, b, roster) => Coming(wire'[c], c \in conns, b, roster)
          /\ Orderly(wire[c], b) => Orderly(wire'[c], b)
      BY <1>3, <2>1, <2>2, AppendPast
    <2>4. Replays(c)' <=> Replays(c)
      BY <1>1 DEF Replays, TooOld
    <2> QED
      BY <1>1, <2>1, <2>2, <2>3, <2>4 DEF Ready
  <1> QED
    BY <1>2, <1>3, ReplayFact

LEMMA ReadySnapshot ==
  ASSUME TypeOK, NEW c \in Clients, SendSnapshot(c), NEW b \in Nat, Ready(c, b)
  PROVE  Ready(c, b)'
  <1>1. PICK m \in Message :
          /\ m.seq = 0 /\ m.ver = 0
          /\ wire' = [wire EXCEPT ![c] = Append(wire[c], m)] \/ wire' = wire
          /\ UNCHANGED <<manager, conns, todo, client>>
    BY SnapshotFact
  <1>2. CASE wire' = wire
    BY <1>1, <1>2, ReadyOn
  <1>3. CASE wire' = [wire EXCEPT ![c] = Append(wire[c], m)]
    <2>1. wire'[c] = Append(wire[c], m) /\ wire[c] \in Seq(Message) /\ roster \in Nat
      BY <1>3 DEF TypeOK
    <2>2. /\ Coming(wire[c], c \in conns, b, roster) => Coming(wire'[c], c \in conns, b, roster)
          /\ Orderly(wire[c], b) => Orderly(wire'[c], b)
      <3>1. m.ver <= b
        BY <1>1
      <3> QED
        BY <2>1, <3>1, AppendPast
    <2>3. Replays(c)' <=> Replays(c)
      BY <1>1 DEF Replays, TooOld
    <2> QED
      BY <1>1, <2>2, <2>3 DEF Ready
  <1> QED
    BY <1>1, <1>2, <1>3

\* Handling a message: the version that counts afterwards comes from one that
\* counted before, and the message has had its effect on it.
LEMMA CountsReceive ==
  ASSUME TypeOK, NEW c \in Clients, NEW m \in Message, Apply(c, m), NEW b, Counts(c, b)'
  PROVE  \E a \in 0..MaxEvents :
           /\ Counts(c, a) /\ a <= b
           /\ Tells(m) => m.ver # b + 1
           /\ Tells(m) /\ m.ver > b => b = a
  <1>1. /\ view[c] \in 0..MaxEvents /\ answer[c] \in 0..MaxEvents /\ m.ver \in Nat
    BY DEF TypeOK, Message
  <1>2. fetch'[c] # "asked"
    BY DEF Counts
  <1>3. CASE ~Tells(m) /\ UNCHANGED accounts
    BY <1>1, <1>3 DEF Counts
  <1>4. CASE /\ Tells(m)
             /\ view'[c] = IF view[c] + 1 = m.ver THEN m.ver ELSE view[c]
             /\ dated'[c] = (dated[c] \/ Older(c, m.ver))
             /\ fetch'[c] = fetch[c] /\ answer'[c] = answer[c] /\ skipped'[c] = skipped[c]
    <2>1. CASE fetch'[c] = "none" /\ ~skipped'[c] /\ b = view'[c]
      <3>1. Counts(c, view[c])
        BY <1>4, <2>1 DEF Counts
      <3>2. /\ view[c] <= b /\ m.ver # b + 1 /\ (m.ver > b => b = view[c])
        BY <1>1, <1>4, <2>1
      <3> QED
        BY <1>1, <3>1, <3>2
    <2>2. CASE fetch'[c] = "answered" /\ ~dated'[c] /\ b = answer'[c]
      <3>1. Counts(c, answer[c]) /\ b = answer[c]
        BY <1>4, <2>2 DEF Counts
      <3>2. ~(answer[c] < m.ver)
        BY <1>4, <2>2 DEF Older
      <3>3. m.ver # b + 1 /\ ~(m.ver > b) /\ answer[c] <= b
        BY <1>1, <3>1, <3>2
      <3> QED
        BY <1>1, <3>1, <3>3
    <2> QED
      BY <2>1, <2>2 DEF Counts
  <1> QED
    BY <1>2, <1>3, <1>4, ApplyFact

LEMMA ReadyReceive ==
  ASSUME TypeOK, NumberOK, SentOK, ChainOK, SoundOK, NEW c \in Clients, Receive(c),
         NEW b \in Nat, Counts(c, b)', \A a \in 0..MaxEvents : Counts(c, a) => Ready(c, a)
  PROVE  Ready(c, b)'
  <1> DEFINE w == wire[c]
             m == w[1]
             t == Tail(w)
             live == c \in conns
  <1>1. /\ page[c] = "open" /\ w \in Seq(Message) /\ w # <<>> /\ m \in Message
        /\ 1 \in DOMAIN w /\ m.seq \in Nat
        /\ UNCHANGED <<manager, endpoint, page>> /\ Apply(c, m)
    BY ReceiveFact
  <1>2. /\ wire'[c] = t
        /\ IF m.seq > lastSeq[c] THEN lastSeq'[c] = m.seq
                                 ELSE lastSeq'[c] = lastSeq[c] /\ old'[c] = old[c]
    <2>1. /\ wire' = [wire EXCEPT ![c] = t]
          /\ \/ m.seq > lastSeq[c] /\ lastSeq' = [lastSeq EXCEPT ![c] = m.seq]
             \/ ~(m.seq > lastSeq[c]) /\ lastSeq' = lastSeq /\ old' = old
      BY ReceiveFact
    <2>2. wire'[c] = t
      BY <2>1 DEF TypeOK
    <2>3. m.seq > lastSeq[c] => lastSeq'[c] = m.seq
      BY <2>1 DEF TypeOK
    <2> QED
      BY <2>1, <2>2, <2>3
  <1>3. roster \in Nat /\ seq \in Nat /\ lastSeq[c] \in Nat
    BY DEF TypeOK
  <1>4. PICK a \in 0..MaxEvents :
          /\ Counts(c, a) /\ a <= b
          /\ Tells(m) => m.ver # b + 1
          /\ Tells(m) /\ m.ver > b => b = a
    BY <1>1, CountsReceive
  <1>5. Ready(c, a) /\ a \in Nat
    BY <1>4, WsConstantsOK
  <1>6. Coming(w, live, a, roster) /\ Orderly(w, a)
    BY <1>1, <1>5 DEF Ready
  <1>7. /\ \A i \in DOMAIN w : w[i] \in Message /\ w[i].seq \in Nat /\ w[i].seq <= seq /\ Same(w[i], buffer)
    <2>1. \A i \in DOMAIN w : w[i].seq <= seq /\ Same(w[i], buffer)
      BY DEF SentOK, Distinct, SoundOK, Sound
    <2>2. \A i \in DOMAIN w : w[i] \in Message /\ w[i].seq \in Nat
      BY <1>1, MessageType, MessageVer
    <2> QED
      BY <2>1, <2>2
  <1> HIDE DEF w, m, t, live
  <1>8. /\ Coming(t, live, b, roster) /\ Orderly(t, b)
        /\ \A v \in 1..roster : v > b =>
              \/ \E i \in DOMAIN w : i # 1 /\ Tells(w[i]) /\ w[i].ver = v
              \/ ~live /\ \A i \in DOMAIN w : w[i].ver < v
    BY <1>1, <1>3, <1>4, <1>5, <1>6, HandleFirst DEF m, t
  <1>9. Known(todo[c], b)
    <2>1. Known(todo[c], a)
      BY <1>5 DEF Ready
    <2>2. \A i \in DOMAIN todo[c] : todo[c][i].ver \in Nat
      BY MessageVer DEF TypeOK
    <2> QED
      BY <1>4, <1>5, <2>1, <2>2 DEF Known
  <1>10. ASSUME Replays(c)' PROVE Kept(buffer, lastSeq'[c], b, roster)
    <2>1. CASE ~(m.seq > lastSeq[c])
      <3>1. Replays(c) /\ lastSeq'[c] = lastSeq[c]
        BY <1>1, <1>2, <1>10, <2>1 DEF Replays, TooOld
      <3>2. Kept(buffer, lastSeq[c], a, roster)
        BY <1>5, <3>1 DEF Ready
      <3>3. \A v \in 1..roster : v > b => v > a
        BY <1>4, <1>5
      <3> QED
        BY <3>1, <3>2, <3>3 DEF Kept
    <2>2. CASE m.seq > lastSeq[c]
      <3>1. lastSeq'[c] = m.seq /\ m.seq > 0
        BY <1>1, <1>2, <1>3, <2>2
      <3>2. ~TooOld(m.seq)
        BY <1>1, <1>10, <3>1 DEF Replays, TooOld
      <3>3. ASSUME NEW v \in 1..roster, v > b
            PROVE  \E j \in DOMAIN buffer :
                     Tells(buffer[j]) /\ buffer[j].ver = v /\ buffer[j].seq > m.seq
        <4>1. CASE \E i \in DOMAIN w : i # 1 /\ Tells(w[i]) /\ w[i].ver = v
          <5>1. PICK i \in DOMAIN w : i # 1 /\ Tells(w[i]) /\ w[i].ver = v
            BY <4>1
          <5>2. 1 < i
            <6>1. DOMAIN w = 1..Len(w)
              BY <1>1, MessageType
            <6> QED
              BY <1>1, <5>1, <6>1, MessageType
          <5>3. w[i].ver > a
            BY <1>4, <1>5, <3>3, <5>1
          <5>4. w[1].seq < w[i].seq
            BY <1>1, <1>6, <5>1, <5>2, <5>3 DEF Orderly
          <5>5. w[i].seq > m.seq
            BY <1>1, <1>7, <5>4 DEF m
          <5>6. \E j \in DOMAIN buffer : buffer[j] = w[i]
            BY <1>1, <1>7, <3>2, <5>5, InBuffer
          <5> QED
            BY <5>1, <5>5, <5>6
        <4>2. CASE \A i \in DOMAIN w : w[i].ver < v
          <5>1. m.ver < v /\ m.seq <= seq /\ Same(m, buffer)
            BY <1>1, <1>7, <4>2 DEF m
          <5> QED
            BY <1>1, <3>1, <3>2, <5>1, Follows
        <4> QED
          BY <1>8, <3>3, <4>1, <4>2
      <3> QED
        BY <3>1, <3>3 DEF Kept
    <2> QED
      BY <2>1, <2>2
  <1>11. page[c] = "open" => Coming(t, c \in conns, b, roster) /\ Orderly(t, b)
    BY <1>8 DEF live
  <1> QED
    BY <1>1, <1>2, <1>9, <1>10, <1>11 DEF Ready

\* Another page's step.
LEMMA ReadyElsewhere ==
  ASSUME TypeOK, NumberOK, NEW c \in Clients, NEW d \in Clients, d # c,
         Proceed(c) \/ Drop(c) \/ Reload(c), NEW b,
         Counts(d, b)', Counts(d, b) => Ready(d, b)
  PROVE  Ready(d, b)'
  <1>1. /\ view'[d] = view[d] /\ fetch'[d] = fetch[d] /\ answer'[d] = answer[d]
        /\ skipped'[d] = skipped[d] /\ dated'[d] = dated[d]
    <2>1. CASE Connect(c)
      <3>1. UNCHANGED <<view, fetch, answer>>
        BY <2>1 DEF Connect, Register
      <3>2. PICK how : Join(c, how)
        BY <2>1 DEF Connect, Snapshot
      <3>3. skipped'[d] = skipped[d] /\ dated'[d] = dated[d]
        BY <3>2 DEF Join, TypeOK
      <3> QED
        BY <3>1, <3>3
    <2>2. CASE ReplayOne(c) \/ SendSnapshot(c) \/ Drop(c)
      BY <2>2 DEF ReplayOne, SendSnapshot, Drop
    <2>3. CASE Receive(c)
      BY <2>3, ReceiveFact, ApplyFact
    <2>4. CASE Reload(c)
      BY <2>4 DEF Reload, Ask, TypeOK
    <2> QED
      BY <2>1, <2>2, <2>3, <2>4 DEF Proceed
  <1>2. /\ UNCHANGED <<roster, buffer>> /\ wire'[d] = wire[d] /\ todo'[d] = todo[d]
        /\ lastSeq'[d] = lastSeq[d] /\ old'[d] = old[d]
        /\ page'[d] = page[d] /\ (d \in conns' => d \in conns)
    <2>1. CASE Connect(c)
      BY <2>1, ConnectFact
    <2>2. CASE ReplayOne(c)
      BY <2>2 DEF ReplayOne, TypeOK
    <2>3. CASE SendSnapshot(c)
      BY <2>3 DEF SendSnapshot, TypeOK
    <2>4. CASE Receive(c)
      <3>1. UNCHANGED <<manager, endpoint, page>> /\ wire' = [wire EXCEPT ![c] = Tail(wire[c])]
        BY <2>4, ReceiveFact
      <3>2. lastSeq'[d] = lastSeq[d] /\ old'[d] = old[d]
        <4> DEFINE m == wire[c][1]
        <4>1. \/ /\ lastSeq' = [lastSeq EXCEPT ![c] = m.seq]
                 /\ old' = [old EXCEPT ![c] = FALSE]
              \/ lastSeq' = lastSeq /\ old' = old
          BY <2>4, ReceiveFact
        <4>2. lastSeq \in [Clients -> 0..MaxEvents] /\ old \in [Clients -> BOOLEAN]
          BY DEF TypeOK
        <4> QED
          BY <4>1, <4>2, Zenon
      <3> QED
        BY <3>1, <3>2 DEF TypeOK
    <2>5. CASE Drop(c) \/ Reload(c)
      <3>1. /\ UNCHANGED <<manager, lastSeq, old>> /\ conns' = conns \ {c} /\ page'[d] = page[d]
            /\ todo' = [todo EXCEPT ![c] = <<>>] /\ wire' = [wire EXCEPT ![c] = <<>>]
        BY <2>5, BreakFact
      <3> QED
        BY <3>1 DEF TypeOK
    <2> QED
      BY <2>1, <2>2, <2>3, <2>4, <2>5 DEF Proceed
  <1>3. Counts(d, b)
    BY <1>1 DEF Counts
  <1> QED
    BY <1>2, <1>3, ReadyOn

LEMMA ReadyStep ==
  ASSUME IInv, ShowInv, TypeOK', SoundOK', [Next]_vars, NEW d \in Clients, NEW b \in Nat, Counts(d, b)'
  PROVE  Ready(d, b)'
  <1> USE DEF IInv, ShowInv
  <1>1. \A a \in 0..MaxEvents : Counts(d, a) => Ready(d, a)
    BY DEF ReadyOK
  <1>2. Counts(d, b) => Ready(d, b)
    <2>1. Counts(d, b) => b \in 0..MaxEvents
      <3>1. view[d] \in 0..MaxEvents /\ answer[d] \in 0..MaxEvents
        BY DEF TypeOK
      <3> QED
        BY <3>1 DEF Counts
    <2> QED
      BY <1>1, <2>1
  <1>3. CASE \E k \in EventKinds : Broadcast(k)
    <2>1. PICK k \in EventKinds : Broadcast(k)
      BY <1>3
    <2>2. PICK m \in Message : Sends(k, m)
      BY <2>1, BroadcastFact
    <2>3. Counts(d, b)
      BY <2>2 DEF Sends, Counts
    <2> QED
      BY <1>2, <2>2, <2>3, ReadyBroadcast
  <1>4. ASSUME NEW c \in Clients, Proceed(c) PROVE Ready(d, b)'
    <2>1. CASE d # c
      BY <1>2, <1>4, <2>1, ReadyElsewhere
    <2>2. CASE d = c /\ Connect(c)
      BY <1>2, <2>2, ReadyConnect
    <2>3. CASE d = c /\ ReplayOne(c)
      <3>1. Counts(d, b)
        BY <2>3 DEF ReplayOne, Counts
      <3> QED
        BY <1>2, <2>3, <3>1, ReadyReplay
    <2>4. CASE d = c /\ SendSnapshot(c)
      <3>1. Counts(d, b)
        BY <2>4 DEF SendSnapshot, Counts
      <3> QED
        BY <1>2, <2>4, <3>1, ReadySnapshot
    <2>5. CASE d = c /\ Receive(c)
      BY <1>1, <2>5, ReadyReceive
    <2> QED
      BY <1>4, <2>1, <2>2, <2>3, <2>4, <2>5 DEF Proceed
  <1>5. ASSUME NEW c \in Clients, Fetched(c) PROVE Ready(d, b)'
    <2>1. /\ UNCHANGED <<manager, endpoint, wire, lastSeq, stream, old>>
          /\ page'[d] = "open" <=> page[d] = "open"
      BY <1>5, FetchedFact
    <2>2. Counts(d, b) \/ b = roster \/ Counts(d, b)
      <3>1. CASE Answer(c)
        BY <3>1 DEF Answer, Counts, TypeOK
      <3>2. CASE Arrive(c)
        BY <3>2 DEF Arrive, Conclude, Counts, TypeOK
      <3>3. CASE FetchFails(c)
        BY <3>3 DEF FetchFails, Conclude, Counts, TypeOK
      <3> QED
        BY <1>5, <3>1, <3>2, <3>3 DEF Fetched
    <2>3. CASE Counts(d, b)
      BY <1>2, <2>1, <2>3, ReadyOn
    <2>4. CASE b = roster
      BY <2>1, <2>4, ReadyTop
    <2> QED
      BY <2>2, <2>3, <2>4
  <1>6. ASSUME NEW c \in Clients, SendTimeout(c) PROVE Ready(d, b)'
    <2>1. /\ UNCHANGED <<manager, todo, wire, client>> /\ (d \in conns' => d \in conns)
      BY <1>6 DEF SendTimeout
    <2>2. Counts(d, b)
      BY <2>1 DEF Counts
    <2> QED
      BY <1>2, <2>1, <2>2, ReadyOn
  <1>7. ASSUME NEW c \in Clients, Drop(c) \/ Reload(c) PROVE Ready(d, b)'
    <2>1. CASE d # c
      BY <1>2, <1>7, <2>1, ReadyElsewhere
    <2>2. CASE d = c
      <3>1. /\ UNCHANGED <<manager, lastSeq, old>> /\ page'[d] # "open" /\ todo'[d] = <<>>
        <4>1. /\ UNCHANGED <<manager, lastSeq, old>> /\ page'[d] # "open"
              /\ todo' = [todo EXCEPT ![d] = <<>>]
          BY <1>7, <2>2, BreakFact
        <4>2. todo'[d] = <<>>
          BY <4>1 DEF TypeOK
        <4> QED
          BY <4>1, <4>2
      <3>2. Counts(d, b)
        <4>1. ~Reload(c)
          BY <2>2 DEF Reload, Ask, Counts, TypeOK
        <4> QED
          BY <1>7, <4>1 DEF Drop, Counts
      <3>3. Replays(d)' <=> Replays(d)
        BY <3>1 DEF Replays, TooOld
      <3> QED
        BY <1>2, <3>1, <3>2, <3>3, EmptySeq DEF Ready, Known
    <2> QED
      BY <2>1, <2>2
  <1>8. CASE Restart
    <2>1. /\ page'[d] # "open" /\ todo'[d] = <<>> /\ old'[d] = (lastSeq[d] > 0) /\ lastSeq' = lastSeq
      BY <1>8 DEF Restart, TypeOK
    <2>2. ~Replays(d)'
      BY <2>1 DEF Replays
    <2> QED
      BY <2>1, <2>2, EmptySeq DEF Ready, Known
  <1>9. CASE UNCHANGED vars
    <2>1. Counts(d, b)
      BY <1>9 DEF vars, Counts
    <2> QED
      BY <1>2, <1>9, <2>1, ReadyOn DEF vars
  <1> QED
    BY <1>3, <1>4, <1>5, <1>6, <1>7, <1>8, <1>9 DEF Next

LEMMA ShowInit == Init => ShowInv
  <1> SUFFICES ASSUME Init PROVE ShowInv
    OBVIOUS
  <1>1. ChainOK
    BY EmptySeq DEF Init, ChainOK, Chained, Known
  <1>2. SoundOK
    BY SoundEmpty DEF Init, SoundOK
  <1>3. CopyOK
    <2>1. \A c \in Clients : view[c] = 0 /\ answer[c] = 0 /\ roster = 0
      BY DEF Init
    <2>2. \A c \in Clients : view[c] <= roster /\ answer[c] <= roster
      <3> TAKE c \in Clients
      <3>1. view[c] = 0 /\ answer[c] = 0 /\ roster = 0
        BY <2>1
      <3> QED
        BY <3>1
    <2> QED
      BY <2>2 DEF CopyOK
  <1>4. ReadyOK
    BY DEF Init, ReadyOK, Counts
  <1> QED
    BY <1>1, <1>2, <1>3, <1>4 DEF ShowInv

LEMMA ShowStep == IInv /\ ShowInv /\ [Next]_vars => ShowInv'
  <1> SUFFICES ASSUME IInv, ShowInv, [Next]_vars PROVE ShowInv'
    OBVIOUS
  <1>1. TypeOK'
    BY StepOK DEF IInv
  <1>2. ChainOK'
    BY ChainStep DEF IInv, ShowInv
  <1>3. SoundOK'
    BY SoundStep DEF IInv, ShowInv, SoundOK
  <1>4. CopyOK'
    BY CopyStep DEF IInv, ShowInv, CopyOK
  <1>5. ReadyOK'
    <2> SUFFICES ASSUME NEW d \in Clients, NEW b \in 0..MaxEvents, Counts(d, b)' PROVE Ready(d, b)'
      BY DEF ReadyOK
    <2>1. b \in Nat
      BY WsConstantsOK
    <2> QED
      BY <1>1, <1>3, <2>1, ReadyStep
  <1> QED
    BY <1>2, <1>3, <1>4, <1>5 DEF ShowInv

\* A page that has handled what it was sent shows the server's roster: for any
\* number of pages, events and breaks and any buffer size, but for the
\* exceptions ShowsRoster names (ws.py:84, main.py:230, accounts.js:438).
THEOREM PagesShowTheRoster == Spec => []ShowsRoster
  <1>1. IInv /\ ShowInv => ShowsRoster
    <2> SUFFICES ASSUME IInv, ShowInv, NEW c \in conns, AtRest(c), ~skipped[c]
                 PROVE  view[c] = roster
      BY DEF ShowsRoster
    <2>1. /\ c \in Clients /\ view[c] \in 0..MaxEvents /\ view[c] \in Nat /\ roster \in Nat
          /\ view[c] <= roster
      BY DEF IInv, ShowInv, TypeOK, CopyOK
    <2>2. Counts(c, view[c]) /\ page[c] = "open" /\ wire[c] = <<>>
      BY DEF AtRest, Counts
    <2>3. Coming(<<>>, c \in conns, view[c], roster)
      BY <2>1, <2>2 DEF ShowInv, ReadyOK, Ready
    <2>4. \A v \in 1..roster : ~(v > view[c])
      BY <2>3, EmptySeq DEF Coming, Tell
    <2> QED
      BY <2>1, <2>4
  <1> QED
    BY <1>1, Invariance, ShowInit, ShowStep, PTL DEF Spec
=============================================================================
