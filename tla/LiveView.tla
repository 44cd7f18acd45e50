------------------------------ MODULE LiveView ------------------------------
(***************************************************************************)
(* The live event view of the hub: HubState.broadcast_sync                 *)
(* (src/log_intel/hub_state.py), called by the ingest thread and the Mist  *)
(* poller, and the event stream of a browser (hub_stream in hub_flask.py). *)
(*                                                                         *)
(* A publisher puts the event at the front of recent_stream, copies the    *)
(* list of subscribers, offers the event to the queue of each, and removes *)
(* those whose queue was full.  A connection registers its queue, replays  *)
(* recent_stream, and then sends what arrives in its queue.  None of these *)
(* steps is atomic with the next.                                          *)
(*                                                                         *)
(* Events are numbered in the order in which they enter recent_stream.     *)
(***************************************************************************)
EXTENDS Integers, Sequences, FiniteSets

CONSTANTS
  Publishers,  \* threads that broadcast
  Clients,     \* connections; a browser that reconnects is a new one
  QueueMax,    \* size of the queue of a connection
  RecentMax,   \* length of recent_stream
  MaxEvents    \* bound: number of events

ASSUME ViewAssumption ==
  /\ QueueMax \in Nat \ {0} /\ RecentMax \in Nat \ {0} /\ MaxEvents \in Nat

VARIABLES
  last,        \* number of events so far
  recent,      \* recent_stream, newest first
  registered,  \* sync_stream_subscribers
  pub,         \* each publisher: where it is, its event, whom it has yet to
               \* offer it to, and whose queue was full
  at,          \* where each connection is
  q,           \* its queue
  got,         \* what it has sent to the browser, in order
  span         \* history: the first and the last event of its replay

publishing == <<last, recent, registered, pub>>
clients == <<at, q, got, span>>
vars == <<publishing, clients>>

Idle == [at |-> "idle", ev |-> 0, to |-> {}, full |-> {}]

\* Faulty: the deque has no maxlen.
PushUnbounded(s, e) == <<e>> \o s

\* A deque with maxlen drops its oldest entry.
Push(s, e) ==
  IF Len(s) < RecentMax THEN <<e>> \o s ELSE <<e>> \o SubSeq(s, 1, RecentMax - 1)

-----------------------------------------------------------------------------
(* HubState.broadcast_sync *)

Publish(p) ==
  /\ pub[p].at = "idle" /\ last < MaxEvents
  /\ last' = last + 1
  /\ recent' = Push(recent, last + 1)
  /\ pub' = [pub EXCEPT ![p] = [Idle EXCEPT !.at = "copy", !.ev = last + 1]]
  /\ UNCHANGED <<registered, clients>>

Copy(p) ==
  /\ pub[p].at = "copy"
  /\ pub' = [pub EXCEPT ![p].at = "offer", ![p].to = registered]
  /\ UNCHANGED <<last, recent, registered, clients>>

\* Faulty: the first full queue ends the round.
OfferGivesUp(p, c) ==
  /\ pub[p].at = "offer" /\ c \in pub[p].to
  /\ IF Len(q[c]) < QueueMax
     THEN /\ q' = [q EXCEPT ![c] = Append(@, pub[p].ev)]
          /\ pub' = [pub EXCEPT ![p].to = @ \ {c}]
     ELSE /\ pub' = [pub EXCEPT ![p].to = {}, ![p].full = @ \cup {c}]
          /\ UNCHANGED q
  /\ UNCHANGED <<last, recent, registered, at, got, span>>

Offer(p, c) ==
  /\ pub[p].at = "offer" /\ c \in pub[p].to
  /\ IF Len(q[c]) < QueueMax
     THEN /\ q' = [q EXCEPT ![c] = Append(@, pub[p].ev)]
          /\ pub' = [pub EXCEPT ![p].to = @ \ {c}]
     ELSE /\ pub' = [pub EXCEPT ![p].to = @ \ {c}, ![p].full = @ \cup {c}]
          /\ UNCHANGED q
  /\ UNCHANGED <<last, recent, registered, at, got, span>>

\* A subscriber that is already gone is passed over.
Remove(p, c) ==
  /\ pub[p].at = "offer" /\ pub[p].to = {} /\ c \in pub[p].full
  /\ registered' = registered \ {c}
  /\ pub' = [pub EXCEPT ![p].full = @ \ {c}]
  /\ UNCHANGED <<last, recent, clients>>

Published(p) ==
  /\ pub[p].at = "offer" /\ pub[p].to = {} /\ pub[p].full = {}
  /\ pub' = [pub EXCEPT ![p] = Idle]
  /\ UNCHANGED <<last, recent, registered, clients>>

-----------------------------------------------------------------------------
(* gen() of hub_stream *)

Connect(c) ==
  /\ at[c] = "new"
  /\ registered' = registered \cup {c}
  /\ at' = [at EXCEPT ![c] = "replay"]
  /\ UNCHANGED <<last, recent, pub, q, got, span>>

\* list(hub.recent_stream) is read at once; the queue is left alone until all
\* of it has been sent.
Replay(c) ==
  /\ at[c] = "replay"
  /\ got' = [got EXCEPT ![c] = recent]
  /\ span' = [span EXCEPT ![c] = [from |-> last - Len(recent) + 1, upto |-> last]]
  /\ at' = [at EXCEPT ![c] = "live"]
  /\ UNCHANGED <<publishing, q>>

\* Faulty: an event is sent and stays in the queue.
SendTwice(c) ==
  /\ at[c] = "live" /\ q[c] # <<>> /\ Len(got[c]) < 2 * MaxEvents
  /\ got' = [got EXCEPT ![c] = Append(@, Head(q[c]))]
  /\ UNCHANGED <<publishing, at, q, span>>

\* Faulty: what was in the replay is not sent again, and one event more.
SendUnseen(c) ==
  /\ at[c] = "live" /\ q[c] # <<>>
  /\ got' = IF Head(q[c]) > span[c].upto + 1
            THEN [got EXCEPT ![c] = Append(@, Head(q[c]))] ELSE got
  /\ q' = [q EXCEPT ![c] = Tail(@)]
  /\ UNCHANGED <<publishing, at, span>>

Send(c) ==
  /\ at[c] = "live" /\ q[c] # <<>>
  /\ got' = [got EXCEPT ![c] = Append(@, Head(q[c]))]
  /\ q' = [q EXCEPT ![c] = Tail(@)]
  /\ UNCHANGED <<publishing, at, span>>

\* The browser is gone: the generator is closed and takes its queue with it.
Disconnect(c) ==
  /\ at[c] \in {"replay", "live"}
  /\ at' = [at EXCEPT ![c] = "closed"]
  /\ registered' = registered \ {c}
  /\ UNCHANGED <<last, recent, pub, q, got, span>>

-----------------------------------------------------------------------------
Init ==
  /\ last = 0 /\ recent = <<>> /\ registered = {}
  /\ pub = [p \in Publishers |-> Idle]
  /\ at = [c \in Clients |-> "new"]
  /\ q = [c \in Clients |-> <<>>]
  /\ got = [c \in Clients |-> <<>>]
  /\ span = [c \in Clients |-> [from |-> 1, upto |-> 0]]

Broadcast(p) ==
  \/ Publish(p) \/ Copy(p) \/ Published(p)
  \/ \E c \in Clients : Offer(p, c) \/ Remove(p, c)

Stream(c) == Connect(c) \/ Replay(c) \/ Send(c) \/ Disconnect(c)

Next == (\E p \in Publishers : Broadcast(p)) \/ (\E c \in Clients : Stream(c))

Spec == Init /\ [][Next]_vars

\* A broadcast never blocks, and a browser that stays takes what it is sent.
Fairness ==
  /\ \A p \in Publishers :
        WF_vars(Copy(p) \/ Published(p) \/ \E c \in Clients : Offer(p, c) \/ Remove(p, c))
  /\ \A c \in Clients : WF_vars(Replay(c) \/ Send(c))

FairSpec == Spec /\ Fairness
-----------------------------------------------------------------------------
In(e, s) == \E i \in DOMAIN s : s[i] = e
Events == 1..MaxEvents

ViewTypeOK ==
  /\ last \in 0..MaxEvents
  /\ recent \in Seq(Events) /\ Len(recent) <= RecentMax
  /\ registered \subseteq Clients
  /\ pub \in [Publishers -> [at : {"idle", "copy", "offer"}, ev : 0..MaxEvents,
                             to : SUBSET Clients, full : SUBSET Clients]]
  /\ at \in [Clients -> {"new", "replay", "live", "closed"}]
  /\ q \in [Clients -> Seq(Events)]
  /\ got \in [Clients -> Seq(Events)]
  /\ span \in [Clients -> [from : 1..(MaxEvents + 1), upto : 0..MaxEvents]]

\* Event e is on its way to connection c.
Coming(e, c) ==
  \E p \in Publishers : pub[p].ev = e /\ (pub[p].at = "copy" \/ c \in pub[p].to)

\* Connection c has been, or is about to be, dropped from the subscribers.
Dropped(c) == c \notin registered \/ \E p \in Publishers : c \in pub[p].full

\* A connection misses nothing from the oldest event of its replay on: as long
\* as its queue has not overflowed, each event has been sent, waits in its
\* queue, or is still being offered, however the replay, its registration and
\* several broadcasts overlap.
NoGap ==
  \A c \in Clients : at[c] = "live" /\ ~Dropped(c) =>
    \A e \in span[c].from..last : In(e, got[c]) \/ In(e, q[c]) \/ Coming(e, c)

Replayed(c) == span[c].upto - span[c].from + 1

\* No event comes twice from the queue: an event reaches the browser twice only
\* if it was broadcast while the connection was being set up, first in the
\* replay and then from the queue, and never a third time.
AtMostTwice ==
  \A c \in Clients : \A i, j \in DOMAIN got[c] :
    i < j /\ got[c][i] = got[c][j] => i <= Replayed(c) /\ Replayed(c) < j

\* An event that is broadcast to a connected browser is sent to it in the end,
\* unless the browser goes or its queue overflows first.
Delivered ==
  \A c \in Clients, e \in Events :
    (at[c] = "live" /\ ~Dropped(c) /\ e \in span[c].from..last)
      ~> (In(e, got[c]) \/ at[c] = "closed" \/ Dropped(c))
=============================================================================
