------------------------------ MODULE WsReplay ------------------------------
(***************************************************************************)
(* The /ws event stream: WebSocketManager's numbering and bounded replay   *)
(* buffer, the endpoint that replays or sends a snapshot to whoever        *)
(* connects, and the dashboard page that reconnects with the last number   *)
(* it has seen and keeps a copy of the accounts from what it is sent.      *)
(*                                                                         *)
(* The roster, which accounts there are and which is active, is abstracted *)
(* to a version number; a page shows some version.  Usage figures are sent *)
(* again at every poll, so a page that lacks one is not followed up here.  *)
(***************************************************************************)
EXTENDS Naturals, Sequences

CONSTANTS
  Clients,     \* pages; each has one socket at a time
  BufferSize,  \* ws_replay_buffer_size
  MaxEvents,   \* bound: broadcasts over all server runs
  MaxBreaks,   \* bound: dropped sockets, page reloads and server restarts
  Faults       \* what may go wrong, a subset of FaultKinds

FaultKinds == {"fetch",    \* GET /api/accounts fails
               "drop",     \* a socket breaks, with what is in flight on it
               "reload",   \* the page is reloaded
               "stall",    \* a send waits for a full write buffer
               "slow",     \* a send exceeds _WS_SEND_TIMEOUT
               "restart"}  \* the server is restarted

ASSUME WsConstantsOK ==
  /\ BufferSize \in Nat \ {0}
  /\ MaxEvents \in Nat /\ MaxBreaks \in Nat
  /\ Faults \subseteq FaultKinds

\* "roster": account_switched, account_added, account_updated, which make the
\* page fetch the accounts anew; "deleted", which it applies itself; "usage".
EventKinds == {"roster", "deleted", "usage"}

\* A message: its number, none in a snapshot, and the roster as it left it.
Message == [seq : 0..MaxEvents, kind : EventKinds, ver : 0..MaxEvents]

VARIABLES
  seq,      \* _seq
  buffer,   \* _buffer
  conns,    \* active_connections, by page
  handler,  \* per page, its websocket_endpoint: "none", "replay", "snapshot", "loop"
  todo,     \* missed events the handler has still to send
  roster,   \* the version on the server
  wire,     \* per page, messages sent and not yet handled
  page,     \* "loading", "closed", "open"
  lastSeq,  \* _lastSeq, kept in sessionStorage
  view,     \* the version the page shows
  fetch,    \* its newest GET /api/accounts: "none", "asked", "answered"
  answer,   \* the version in the answer that is on its way, 0 when none is
  stream,   \* history, how the socket's events join on to lastSeq: "clean",
            \* "gap" until one has been received, "held" after a held-up replay
  old,      \* history: does lastSeq come from an earlier run of the server?
  skipped,  \* history: does the page lack a roster change nothing will tell it of?
  dated,    \* history: does the answer on its way lack one?
  events, breaks \* bounded counts

manager   == <<seq, buffer, roster, events>>
endpoint  == <<conns, handler, todo>>
accounts  == <<view, fetch, answer, skipped, dated>>
client    == <<page, lastSeq, stream, old, accounts>>
vars      == <<manager, endpoint, wire, client, breaks>>

Greater(m, n) == IF m > n THEN m ELSE n

----------------------------------------------------------------------------
(* The server.                                                             *)

\* deque(maxlen): the oldest event makes room; the mutant has no bound.
MutantAppend1(buf, m) == Append(buf, m)

Append1(buf, m) ==
  IF Len(buf) < BufferSize THEN Append(buf, m) ELSE Append(Tail(buf), m)

\* A live event also queued behind a replay that is held up.
MutantBroadcast(kind) ==
  /\ events < MaxEvents
  /\ events' = events + 1
  /\ seq' = seq + 1
  /\ roster' = IF kind = "usage" THEN roster ELSE roster + 1
  /\ LET m == [seq |-> seq + 1, kind |-> kind, ver |-> roster']
     IN /\ buffer' = Append1(buffer, m)
        /\ wire' = [c \in Clients |-> IF c \in conns THEN Append(wire[c], m) ELSE wire[c]]
        /\ todo' = [c \in Clients |-> IF handler[c] = "replay" THEN Append(todo[c], m)
                                                             ELSE todo[c]]
  /\ UNCHANGED <<conns, handler, client, breaks>>

\* A change of the accounts and its broadcast to every registered socket; a
\* send to one cannot hold up the others.
Broadcast(kind) ==
  /\ events < MaxEvents
  /\ events' = events + 1
  /\ seq' = seq + 1
  /\ roster' = IF kind = "usage" THEN roster ELSE roster + 1
  /\ LET m == [seq |-> seq + 1, kind |-> kind, ver |-> roster']
     IN /\ buffer' = Append1(buffer, m)
        /\ wire' = [c \in Clients |-> IF c \in conns THEN Append(wire[c], m) ELSE wire[c]]
  /\ UNCHANGED <<endpoint, client, breaks>>

\* The send timed out: `disconnect` takes the socket off the list and does not
\* close it.
SendTimeout(c) ==
  /\ "slow" \in Faults /\ c \in conns /\ wire[c] # <<>>
  /\ conns' = conns \ {c}
  /\ UNCHANGED <<manager, handler, todo, wire, client, breaks>>

\* replay_since answers None.
TooOld(since) == buffer # <<>> /\ since < buffer[1].seq - 1

\* The events numbered above `since`: the end of an ascending buffer.
After(buf, since) ==
  LET first == CHOOSE i \in 1..(Len(buf) + 1) :
                 \A j \in DOMAIN buf : buf[j].seq > since <=> j >= i
  IN SubSeq(buf, first, Len(buf))

\* One event too few.
MutantNewer(since) == After(buffer, since + 1)

Newer(since) == After(buffer, since)

----------------------------------------------------------------------------
(* websocket_endpoint.                                                     *)

Older(c, v) == fetch[c] = "answered" /\ answer[c] < v

\* History: how the socket opened now joins on to what the page has.
Join(c, how) ==
  /\ stream' = [stream EXCEPT ![c] = IF how = "clean" /\ old[c] THEN "gap" ELSE how]
  /\ LET passes == how # "clean" \/ old[c]
     IN /\ skipped' = [skipped EXCEPT ![c] = @ \/ (passes /\ view[c] # roster)]
        /\ dated' = [dated EXCEPT ![c] = @ \/ (passes /\ Older(c, roster))]

\* connect() registers the socket.
Register(c) ==
  /\ page[c] = "closed"
  /\ page' = [page EXCEPT ![c] = "open"]
  /\ conns' = conns \cup {c}
  /\ UNCHANGED <<manager, lastSeq, view, fetch, answer, old, breaks>>

Snapshot(c) ==
  /\ handler' = [handler EXCEPT ![c] = "snapshot"]
  /\ Join(c, "gap")
  /\ UNCHANGED <<wire, todo>>

\* A gap one event wider than the buffer taken for covered.
MutantConnect(c) ==
  /\ Register(c)
  /\ IF lastSeq[c] > 0 /\ ~(buffer # <<>> /\ lastSeq[c] < buffer[1].seq - 2)
     THEN /\ handler' = [handler EXCEPT ![c] = "loop"]
          /\ wire' = [wire EXCEPT ![c] = Newer(lastSeq[c])]
          /\ Join(c, "clean")
          /\ UNCHANGED todo
     ELSE Snapshot(c)

\* The socket registered without what it has missed.
MutantConnectUnreplayed(c) ==
  /\ Register(c)
  /\ IF lastSeq[c] > 0
     THEN /\ handler' = [handler EXCEPT ![c] = "loop"]
          /\ Join(c, "clean")
          /\ UNCHANGED <<wire, todo>>
     ELSE Snapshot(c)

\* Registration and replay_since run with no await between.  The sends of the
\* replay suspend the handler only when the socket does not take what is
\* written.
Connect(c) ==
  /\ Register(c)
  /\ LET since  == lastSeq[c]
         replay == since > 0 /\ ~TooOld(since)
     IN \/ /\ replay
           /\ handler' = [handler EXCEPT ![c] = "loop"]
           /\ wire' = [wire EXCEPT ![c] = Newer(since)]
           /\ Join(c, "clean")
           /\ UNCHANGED todo
        \/ /\ replay /\ "stall" \in Faults
           /\ handler' = [handler EXCEPT ![c] = "replay"]
           /\ todo' = [todo EXCEPT ![c] = Newer(since)]
           /\ Join(c, "held")
           /\ UNCHANGED wire
        \/ ~replay /\ Snapshot(c)

\* A replay that was held up.
ReplayOne(c) ==
  /\ handler[c] = "replay"
  /\ IF todo[c] = <<>>
     THEN handler' = [handler EXCEPT ![c] = "loop"] /\ UNCHANGED <<todo, wire>>
     ELSE /\ wire' = [wire EXCEPT ![c] = Append(@, Head(todo[c]))]
          /\ todo' = [todo EXCEPT ![c] = Tail(@)]
          /\ UNCHANGED handler
  /\ UNCHANGED <<manager, conns, client, breaks>>

\* build_ws_snapshot, awaited: usage figures and nothing else; an empty cache
\* sends nothing.
SendSnapshot(c) ==
  /\ handler[c] = "snapshot"
  /\ handler' = [handler EXCEPT ![c] = "loop"]
  /\ \/ wire' = [wire EXCEPT ![c] =
                   Append(@, [seq |-> 0, kind |-> "usage", ver |-> 0])]
     \/ UNCHANGED wire
  /\ UNCHANGED <<manager, conns, todo, client, breaks>>

\* The handler ends: WebSocketDisconnect, `finally: disconnect`.
Close(c) ==
  /\ handler' = [handler EXCEPT ![c] = "none"]
  /\ conns'   = conns \ {c}
  /\ todo'    = [todo EXCEPT ![c] = <<>>]
  /\ wire'    = [wire EXCEPT ![c] = <<>>]

----------------------------------------------------------------------------
(* The page.                                                               *)

\* loadAccounts: a fetch that is still under way is superseded.
Ask(c) ==
  /\ fetch' = [fetch EXCEPT ![c] = "asked"]
  /\ answer' = [answer EXCEPT ![c] = 0]
  /\ dated' = [dated EXCEPT ![c] = FALSE]

\* Back from it, with these accounts or with an error.
Conclude(c, v, lacks) ==
  /\ view' = [view EXCEPT ![c] = v]
  /\ skipped' = [skipped EXCEPT ![c] = lacks]
  /\ fetch' = [fetch EXCEPT ![c] = "none"]
  /\ answer' = [answer EXCEPT ![c] = 0]
  /\ dated' = [dated EXCEPT ![c] = FALSE]

\* GET /api/accounts: what the database says then.
Answer(c) ==
  /\ fetch[c] = "asked"
  /\ fetch' = [fetch EXCEPT ![c] = "answered"]
  /\ answer' = [answer EXCEPT ![c] = roster]
  /\ UNCHANGED <<manager, endpoint, wire, page, lastSeq, stream, old, view, skipped, dated, breaks>>

\* The answer replaces what the page has; the first one is awaited before the
\* socket is opened.
Arrive(c) ==
  /\ fetch[c] = "answered"
  /\ Conclude(c, answer[c], dated[c])
  /\ page' = [page EXCEPT ![c] = IF @ = "loading" THEN "closed" ELSE @]
  /\ UNCHANGED <<manager, endpoint, wire, lastSeq, stream, old, breaks>>

\* An error is shown, and nothing asks again.
FetchFails(c) ==
  /\ "fetch" \in Faults /\ fetch[c] # "none"
  /\ Conclude(c, view[c], TRUE)
  /\ page' = [page EXCEPT ![c] = IF @ = "loading" THEN "closed" ELSE @]
  /\ UNCHANGED <<manager, endpoint, wire, lastSeq, stream, old, breaks>>

\* What a message does to the copy of the accounts: it makes the page fetch them
\* anew, or takes the deleted one out of what it has.
Apply(c, m) ==
  /\ \/ m.kind = "roster" /\ Ask(c) /\ UNCHANGED <<view, skipped>>
     \/ /\ m.kind = "deleted"
        /\ view' = [view EXCEPT ![c] = IF @ + 1 = m.ver THEN m.ver ELSE @]
        /\ dated' = [dated EXCEPT ![c] = @ \/ Older(c, m.ver)]
        /\ UNCHANGED <<fetch, answer, skipped>>
     \/ m.kind = "usage" /\ UNCHANGED accounts
  /\ IF m.seq > lastSeq[c]
     THEN /\ stream' = [stream EXCEPT ![c] = IF @ = "gap" THEN "clean" ELSE @]
          /\ old' = [old EXCEPT ![c] = FALSE]
     ELSE UNCHANGED <<stream, old>>
  /\ wire' = [wire EXCEPT ![c] = Tail(@)]

\* ws.onmessage.
Receive(c) ==
  /\ page[c] = "open" /\ wire[c] # <<>>
  /\ lastSeq' = [lastSeq EXCEPT ![c] = Greater(@, Head(wire[c]).seq)]
  /\ Apply(c, Head(wire[c]))
  /\ UNCHANGED <<manager, endpoint, page, breaks>>

Break(kind) ==
  /\ kind \in Faults /\ breaks < MaxBreaks
  /\ breaks' = breaks + 1

Drop(c) ==
  /\ Break("drop") /\ page[c] = "open"
  /\ page' = [page EXCEPT ![c] = "closed"]
  /\ Close(c)
  /\ UNCHANGED <<manager, lastSeq, stream, old, accounts>>

\* sessionStorage survives a reload; the page fetches the accounts.
Reload(c) ==
  /\ Break("reload")
  /\ page' = [page EXCEPT ![c] = "loading"]
  /\ Ask(c)
  /\ Close(c)
  /\ UNCHANGED <<manager, lastSeq, stream, old, view, skipped>>

\* Requests without an answer fail.
Restart ==
  /\ Break("restart")
  /\ seq' = 0 /\ buffer' = <<>>
  /\ conns' = {}
  /\ handler' = [c \in Clients |-> "none"]
  /\ todo' = [c \in Clients |-> <<>>]
  /\ old' = [c \in Clients |-> lastSeq[c] > 0]
  /\ wire' = [c \in Clients |-> <<>>]
  /\ page' = [c \in Clients |-> IF page[c] = "open" \/ fetch[c] = "asked"
                               THEN "closed" ELSE page[c]]
  /\ fetch' = [c \in Clients |-> IF fetch[c] = "asked" THEN "none" ELSE fetch[c]]
  /\ skipped' = [c \in Clients |-> skipped[c] \/ fetch[c] = "asked"]
  /\ UNCHANGED <<roster, events, lastSeq, view, answer, dated, stream>>

----------------------------------------------------------------------------
Init ==
  /\ seq = 0 /\ buffer = <<>>
  /\ roster = 0
  /\ events = 0 /\ breaks = 0
  /\ conns = {}
  /\ handler = [c \in Clients |-> "none"]
  /\ todo = [c \in Clients |-> <<>>]
  /\ wire = [c \in Clients |-> <<>>]
  /\ page = [c \in Clients |-> "loading"]
  /\ lastSeq = [c \in Clients |-> 0]
  /\ view = [c \in Clients |-> 0]
  /\ fetch = [c \in Clients |-> "asked"]
  /\ answer = [c \in Clients |-> 0]
  /\ stream = [c \in Clients |-> "clean"]
  /\ old = [c \in Clients |-> FALSE]
  /\ skipped = [c \in Clients |-> FALSE]
  /\ dated = [c \in Clients |-> FALSE]

\* What goes on by itself: the page reconnects with a timer, handlers send,
\* sockets deliver.
Proceed(c) == Connect(c) \/ ReplayOne(c) \/ SendSnapshot(c) \/ Receive(c)

\* Requests are answered, or fail.
Fetched(c) == Answer(c) \/ Arrive(c) \/ FetchFails(c)

Next ==
  \/ \E k \in EventKinds : Broadcast(k)
  \/ \E c \in Clients : Proceed(c) \/ Fetched(c)
  \/ \E c \in Clients : SendTimeout(c) \/ Drop(c) \/ Reload(c)
  \/ Restart

Spec     == Init /\ [][Next]_vars
FairSpec == Spec /\ \A c \in Clients : WF_vars(Proceed(c)) /\ WF_vars(Fetched(c))

----------------------------------------------------------------------------
(* Properties.                                                             *)

TypeOK ==
  /\ seq \in 0..MaxEvents
  /\ buffer \in Seq(Message)
  /\ Len(buffer) <= BufferSize
  /\ conns \subseteq Clients
  /\ handler \in [Clients -> {"none", "replay", "snapshot", "loop"}]
  /\ todo \in [Clients -> Seq(Message)]
  /\ roster \in 0..MaxEvents
  /\ wire \in [Clients -> Seq(Message)]
  /\ page \in [Clients -> {"loading", "closed", "open"}]
  /\ lastSeq \in [Clients -> 0..MaxEvents]
  /\ view \in [Clients -> 0..MaxEvents]
  /\ fetch \in [Clients -> {"none", "asked", "answered"}]
  /\ answer \in [Clients -> 0..MaxEvents]
  /\ stream \in [Clients -> {"clean", "gap", "held"}]
  /\ old \in [Clients -> BOOLEAN]
  /\ skipped \in [Clients -> BOOLEAN]
  /\ dated \in [Clients -> BOOLEAN]
  /\ events \in 0..MaxEvents
  /\ breaks \in 0..MaxBreaks

\* The events on their way to a page; a snapshot has no number.
Numbered(c) == {i \in DOMAIN wire[c] : wire[c][i].seq > 0}

\* What is on its way to a registered page is exactly what follows the number
\* it has, up to the newest event: nothing is lost, repeated or out of order
\* between the replay and the live events (ws.py:84-100, with the registration
\* before it).  Not so while a snapshot or a restart has left a gap in front,
\* nor on a socket whose replay a full buffer held up.
Contiguous ==
  \A c \in conns : stream[c] = "clean" =>
    /\ lastSeq[c] <= seq
    /\ \A n \in (lastSeq[c] + 1)..seq : \E i \in Numbered(c) : wire[c][i].seq = n
    /\ \A i \in Numbered(c) : wire[c][i].seq \in (lastSeq[c] + 1)..seq
    /\ \A i, j \in Numbered(c) : i < j => wire[c][i].seq < wire[c][j].seq

AtRest(c) ==
  page[c] = "open" /\ handler[c] = "loop" /\ wire[c] = <<>> /\ fetch[c] = "none"

\* A page that has handled what it was sent shows the server's roster: however
\* often its socket breaks or it is reloaded, what it missed is replayed, and
\* the dashboard is not left with an account that is gone or the wrong active
\* one.  The exceptions are a roster change that a snapshot passed over or that a
\* restarted server has no event of, a replay that was held up while a live event
\* overtook it, a fetch that failed, and an answer that was on its way when a
\* deletion was announced (accounts.js:438).
ShowsRoster ==
  \A c \in conns : AtRest(c) /\ ~skipped[c] => view[c] = roster

\* No event is sent twice on one socket: neither a replay that is held up nor a
\* broadcast in the middle of it sends what the other has sent or will send.
NoRepeat ==
  \A c \in Clients : LET all == wire[c] \o todo[c] IN
    \A i, j \in DOMAIN all : i # j /\ all[i].seq = all[j].seq => all[i].seq = 0

\* A page the server has taken off its list without closing its socket.
Deaf(c) == page[c] = "open" /\ c \notin conns

\* Every event reaches every page that had seen one before, by its socket or,
\* after any sequence of breaks, by a replay; unless the gap has outgrown the
\* buffer, the server restarts before (its numbers begin again), or a send timed
\* out and left the page deaf.
CatchesUp ==
  \A c \in Clients : \A n \in 1..MaxEvents :
    lastSeq[c] > 0 /\ seq = n ~>
      lastSeq[c] >= n \/ stream[c] = "gap" \/ seq < n \/ Deaf(c)
=============================================================================
