--------------------------- MODULE LiveViewProofs ---------------------------
(***************************************************************************)
(* Proofs about LiveView, for any number of publishers and connections and *)
(* any sizes of queue and replay.                                          *)
(***************************************************************************)
EXTENDS LiveView, SequenceTheorems, TLAPS

\* The replay buffer holds the newest events without a gap.
RecentOK ==
  /\ Len(recent) <= last
  /\ \A i \in DOMAIN recent : recent[i] = last + 1 - i

\* A broadcast has nothing to offer or to remove before its copy is taken.
PubOK ==
  \A p \in Publishers :
    /\ pub[p].at # "offer" => pub[p].to = {} /\ pub[p].full = {}
    /\ pub[p].at # "idle" => pub[p].ev \in 1..last

Inv == ViewTypeOK /\ RecentOK /\ PubOK

PubRecord == [at : {"idle", "copy", "offer"}, ev : 0..MaxEvents,
              to : SUBSET Clients, full : SUBSET Clients]

-----------------------------------------------------------------------------
(* The replay buffer. *)

\* A sequence with an element put in front of it.
LEMMA Cons ==
  ASSUME NEW S, NEW e \in S, NEW s \in Seq(S)
  PROVE  /\ <<e>> \o s \in Seq(S) /\ Len(<<e>> \o s) = Len(s) + 1
         /\ \A i \in 1..(Len(s) + 1) :
               (<<e>> \o s)[i] = IF i = 1 THEN e ELSE s[i - 1]
<1>1. <<e>> \in Seq(S) /\ Len(<<e>>) = 1 /\ <<e>>[1] = e
  OBVIOUS
<1>2. /\ <<e>> \o s \in Seq(S) /\ Len(<<e>> \o s) = 1 + Len(s)
      /\ \A i \in 1..(1 + Len(s)) :
            (<<e>> \o s)[i] = IF i <= 1 THEN <<e>>[i] ELSE s[i - 1]
  BY <1>1, ConcatProperties
<1>3. Len(s) \in Nat
  OBVIOUS
<1>4. QED
  BY <1>1, <1>2, <1>3

\* Pushing the next event keeps the buffer gapless and within its length.
LEMMA PushEffect ==
  ASSUME ViewTypeOK, RecentOK, last < MaxEvents, NEW s, s = Push(recent, last + 1)
  PROVE  /\ s \in Seq(Events) /\ Len(s) <= RecentMax /\ Len(s) <= last + 1
         /\ \A i \in DOMAIN s : s[i] = last + 2 - i
<1>1. recent \in Seq(Events) /\ last + 1 \in Events /\ last \in Nat
  BY ViewAssumption DEF ViewTypeOK, Events, ViewAssumption
<1>2. Len(recent) \in Nat /\ Len(recent) <= last
  BY <1>1 DEF RecentOK
<1>3. RecentMax \in Nat /\ RecentMax > 0 /\ Len(recent) <= RecentMax
  BY ViewAssumption DEF ViewAssumption, ViewTypeOK
\* What is left of the old buffer.
<1>4. PICK r : /\ r \in Seq(Events) /\ s = <<last + 1>> \o r
               /\ Len(r) < RecentMax /\ Len(r) <= Len(recent)
               /\ \A i \in 1..Len(r) : r[i] = recent[i]
  <2>1. CASE Len(recent) < RecentMax
    <3>1. s = <<last + 1>> \o recent
      BY <2>1, Zenon DEF Push
    <3>2. QED
      BY <1>1, <1>2, <2>1, <3>1
  <2>2. CASE ~(Len(recent) < RecentMax)
    <3>2. Len(recent) = RecentMax /\ RecentMax - 1 \in Nat
      BY <1>2, <1>3, <2>2
    <3> DEFINE r == SubSeq(recent, 1, RecentMax - 1)
    <3>1. s = <<last + 1>> \o r
      BY <2>2, Zenon DEF Push
    <3>3. \A i \in 1..(RecentMax - 1) : recent[i] \in Events
      BY <1>1, <1>2, <3>2
    <3>4. /\ r \in Seq(Events)
          /\ Len(r) = IF 1 <= RecentMax - 1 THEN RecentMax - 1 - 1 + 1 ELSE 0
          /\ \A i \in 1..(RecentMax - 1 - 1 + 1) : r[i] = recent[1 + i - 1]
      BY <3>2, <3>3, SubSeqProperties
    <3> HIDE DEF r
    <3>5. Len(r) = RecentMax - 1
      BY <3>2, <3>4
    <3>6. \A i \in 1..Len(r) : r[i] = recent[i]
      BY <3>2, <3>4, <3>5
    <3>7. QED
      BY <1>3, <3>1, <3>2, <3>4, <3>5, <3>6
  <2>3. QED
    BY <2>1, <2>2
<1>5. /\ s \in Seq(Events) /\ Len(s) = Len(r) + 1
      /\ \A i \in 1..(Len(r) + 1) : s[i] = IF i = 1 THEN last + 1 ELSE r[i - 1]
  <2> DEFINE n == <<last + 1>> \o r
  <2>1. last + 1 \in Events /\ r \in Seq(Events)
    BY <1>1, <1>4
  <2>2. n \in Seq(Events) /\ Len(n) = Len(r) + 1
    BY <2>1, Cons
  <2>3. \A i \in 1..(Len(r) + 1) : n[i] = IF i = 1 THEN last + 1 ELSE r[i - 1]
    BY <2>1, Cons
  <2>4. s = n
    BY <1>4
  <2> HIDE DEF n
  <2>5. QED
    BY <2>2, <2>3, <2>4
<1>6. Len(r) \in Nat
  BY <1>4
<1>7. \A i \in DOMAIN s : s[i] = last + 2 - i
  <2> SUFFICES ASSUME NEW i \in 1..(Len(r) + 1)
               PROVE  s[i] = last + 2 - i
    BY <1>5
  <2>1. CASE i = 1
    BY <1>1, <1>5, <1>6, <2>1
  <2>2. CASE i # 1
    <3>1. i - 1 \in 1..Len(r) /\ i - 1 \in DOMAIN recent
      BY <1>1, <1>2, <1>4, <1>6, <2>2
    <3>2. s[i] = last + 1 - (i - 1)
      BY <1>4, <1>5, <2>2, <3>1 DEF RecentOK
    <3>3. QED
      BY <1>1, <1>6, <3>2
  <2>3. QED
    BY <2>1, <2>2
<1>8. Len(s) <= RecentMax /\ Len(s) <= last + 1
  BY <1>1, <1>2, <1>3, <1>4, <1>5, <1>6
<1>9. QED
  BY <1>5, <1>7, <1>8

-----------------------------------------------------------------------------
(* Type correctness, with what the other proofs need. *)

LEMMA InvInit == Init => Inv
<1> SUFFICES ASSUME Init PROVE Inv
  OBVIOUS
<1>1. MaxEvents \in Nat /\ RecentMax \in Nat
  BY ViewAssumption DEF ViewAssumption
<1>2. ViewTypeOK
  <2>1. recent \in Seq(Events) /\ Len(recent) <= RecentMax /\ last \in 0..MaxEvents
    BY <1>1 DEF Init
  <2>2. registered \subseteq Clients
    BY DEF Init
  <2>3. pub \in [Publishers -> [at : {"idle", "copy", "offer"}, ev : 0..MaxEvents,
                               to : SUBSET Clients, full : SUBSET Clients]]
    BY <1>1 DEF Init, Idle
  <2>4. at \in [Clients -> {"new", "replay", "live", "closed"}]
    BY DEF Init
  <2>5. q \in [Clients -> Seq(Events)] /\ got \in [Clients -> Seq(Events)]
    BY DEF Init
  <2>6. span \in [Clients -> [from : 1..(MaxEvents + 1), upto : 0..MaxEvents]]
    BY <1>1 DEF Init
  <2>7. QED
    BY <2>1, <2>2, <2>3, <2>4, <2>5, <2>6 DEF ViewTypeOK
<1>3. RecentOK
  BY DEF Init, RecentOK
<1>4. PubOK
  BY DEF Init, PubOK, Idle
<1>5. QED
  BY <1>2, <1>3, <1>4 DEF Inv

LEMMA InvStep == Inv /\ [Next]_vars => Inv'
<1> SUFFICES ASSUME Inv, [Next]_vars PROVE Inv'
  OBVIOUS
<1> USE DEF Inv
<1>0. MaxEvents \in Nat /\ RecentMax \in Nat /\ last \in 0..MaxEvents
  BY ViewAssumption DEF ViewAssumption, ViewTypeOK
<1>1. ASSUME NEW p \in Publishers, Publish(p) PROVE Inv'
  <2>1. /\ last < MaxEvents /\ last' = last + 1
        /\ recent' = Push(recent, last + 1)
        /\ pub' = [pub EXCEPT ![p] = [Idle EXCEPT !.at = "copy", !.ev = last + 1]]
        /\ UNCHANGED <<registered, at, q, got, span>>
    BY <1>1 DEF Publish, clients
  <2>2. /\ recent' \in Seq(Events) /\ Len(recent') <= RecentMax
        /\ Len(recent') <= last + 1
        /\ \A i \in DOMAIN recent' : recent'[i] = last + 2 - i
    BY <2>1, PushEffect
  <2> DEFINE r == [Idle EXCEPT !.at = "copy", !.ev = last + 1]
  <2>3. /\ Idle \in PubRecord /\ r \in PubRecord
        /\ r.at = "copy" /\ r.ev = last + 1 /\ r.to = {} /\ r.full = {}
    <3>1. Idle \in PubRecord /\ Idle.to = {} /\ Idle.full = {}
      BY <1>0 DEF Idle, PubRecord
    <3>2. last + 1 \in 0..MaxEvents
      BY <1>0, <2>1
    <3>3. QED
      BY <3>1, <3>2 DEF PubRecord
  <2> HIDE DEF r
  <2>4. pub' = [pub EXCEPT ![p] = r]
    BY <2>1 DEF r
  <2>5. ViewTypeOK'
    <3>1. last' \in 0..MaxEvents
      BY <1>0, <2>1
    <3>2. pub' \in [Publishers -> PubRecord]
      BY <2>3, <2>4 DEF ViewTypeOK, PubRecord
    <3>3. QED
      BY <2>1, <2>2, <3>1, <3>2 DEF ViewTypeOK, Events, PubRecord
  <2>6. RecentOK'
    BY <1>0, <2>1, <2>2 DEF RecentOK
  <2>7. PubOK'
    <3>1. pub'[p] = r /\ \A o \in Publishers \ {p} : pub'[o] = pub[o]
      BY <2>4 DEF ViewTypeOK
    <3>2. last + 1 \in 1..last'
      BY <1>0, <2>1
    <3>3. 1..last \subseteq 1..last'
      BY <1>0, <2>1
    <3>4. QED
      BY <2>3, <3>1, <3>2, <3>3 DEF PubOK
  <2>8. QED
    BY <2>5, <2>6, <2>7
<1>2. ASSUME NEW p \in Publishers, Copy(p) PROVE Inv'
  <2>1. /\ pub[p].at = "copy"
        /\ pub' = [pub EXCEPT ![p].at = "offer", ![p].to = registered]
        /\ UNCHANGED <<last, recent, registered, at, q, got, span>>
    BY <1>2 DEF Copy, clients
  <2>2. registered \in SUBSET Clients /\ pub \in [Publishers -> PubRecord]
    BY DEF ViewTypeOK, PubRecord
  <2>3. pub' \in [Publishers -> PubRecord]
    BY <2>1, <2>2 DEF PubRecord
  <2>4. /\ pub'[p].at = "offer" /\ pub'[p].ev = pub[p].ev
        /\ \A o \in Publishers \ {p} : pub'[o] = pub[o]
    BY <2>1, <2>2 DEF PubRecord
  <2>5. PubOK'
    BY <2>1, <2>4 DEF PubOK
  <2>6. QED
    BY <2>1, <2>3, <2>5 DEF ViewTypeOK, RecentOK, PubRecord
<1>3. ASSUME NEW p \in Publishers, Published(p) PROVE Inv'
  BY <1>0, <1>3 DEF Published, clients, ViewTypeOK, RecentOK, PubOK, Idle
<1>4. ASSUME NEW p \in Publishers, NEW c \in Clients, Offer(p, c) PROVE Inv'
  <2>1. /\ pub[p].at = "offer" /\ c \in pub[p].to
        /\ UNCHANGED <<last, recent, registered, at, got, span>>
    BY <1>4 DEF Offer
  <2>2. /\ \/ q' = [q EXCEPT ![c] = Append(@, pub[p].ev)]
           \/ q' = q
        /\ \/ pub' = [pub EXCEPT ![p].to = @ \ {c}]
           \/ pub' = [pub EXCEPT ![p].to = @ \ {c}, ![p].full = @ \cup {c}]
    BY <1>4 DEF Offer
  <2>3. q' \in [Clients -> Seq(Events)]
    <3>1. pub[p].ev \in Events /\ q \in [Clients -> Seq(Events)]
      BY <1>0, <2>1 DEF PubOK, ViewTypeOK, Events
    <3>2. Append(q[c], pub[p].ev) \in Seq(Events)
      BY <3>1
    <3>3. QED
      BY <2>2, <3>1, <3>2
  <2>4. pub \in [Publishers -> PubRecord]
    BY DEF ViewTypeOK, PubRecord
  <2>5. pub' \in [Publishers -> PubRecord]
    BY <2>2, <2>4 DEF PubRecord
  <2>6. /\ pub'[p].at = pub[p].at /\ pub'[p].ev = pub[p].ev
        /\ \A o \in Publishers \ {p} : pub'[o] = pub[o]
    BY <2>2, <2>4 DEF PubRecord
  <2>7. PubOK'
    BY <2>1, <2>6 DEF PubOK
  <2>8. QED
    BY <2>1, <2>3, <2>5, <2>7 DEF ViewTypeOK, RecentOK, PubRecord
<1>5. ASSUME NEW p \in Publishers, NEW c \in Clients, Remove(p, c) PROVE Inv'
  <2>1. /\ pub[p].at = "offer" /\ registered' \subseteq registered
        /\ pub' = [pub EXCEPT ![p].full = @ \ {c}]
        /\ UNCHANGED <<last, recent, at, q, got, span>>
    BY <1>5 DEF Remove, clients
  <2>2. pub \in [Publishers -> PubRecord]
    BY DEF ViewTypeOK, PubRecord
  <2>3. pub' \in [Publishers -> PubRecord]
    BY <2>1, <2>2 DEF PubRecord
  <2>4. /\ pub'[p].at = pub[p].at /\ pub'[p].ev = pub[p].ev
        /\ \A o \in Publishers \ {p} : pub'[o] = pub[o]
    BY <2>1, <2>2 DEF PubRecord
  <2>5. PubOK'
    BY <2>1, <2>4 DEF PubOK
  <2>6. QED
    BY <2>1, <2>3, <2>5 DEF ViewTypeOK, RecentOK, PubRecord
<1>6. ASSUME NEW c \in Clients, Connect(c) PROVE Inv'
  BY <1>6 DEF Connect, ViewTypeOK, RecentOK, PubOK
<1>7. ASSUME NEW c \in Clients, Replay(c) PROVE Inv'
  <2>1. /\ UNCHANGED <<last, recent, registered, pub, q>>
        /\ got' = [got EXCEPT ![c] = recent]
        /\ span' = [span EXCEPT ![c] = [from |-> last - Len(recent) + 1, upto |-> last]]
        /\ at' = [at EXCEPT ![c] = "live"]
    BY <1>7 DEF Replay, publishing
  <2>2. last - Len(recent) + 1 \in 1..(MaxEvents + 1)
    <3>1. Len(recent) \in Nat /\ Len(recent) <= last
      BY DEF ViewTypeOK, RecentOK
    <3>2. QED
      BY <1>0, <3>1
  <2>3. ViewTypeOK'
    BY <1>0, <2>1, <2>2 DEF ViewTypeOK
  <2>4. QED
    BY <2>1, <2>3 DEF RecentOK, PubOK
<1>8. ASSUME NEW c \in Clients, Send(c) PROVE Inv'
  <2>1. /\ UNCHANGED <<last, recent, registered, pub, at, span>>
        /\ q[c] # <<>> /\ q[c] \in Seq(Events) /\ got[c] \in Seq(Events)
        /\ got' = [got EXCEPT ![c] = Append(@, Head(q[c]))]
        /\ q' = [q EXCEPT ![c] = Tail(@)]
    BY <1>8 DEF Send, publishing, ViewTypeOK
  <2>2. Head(q[c]) \in Events /\ Tail(q[c]) \in Seq(Events)
    BY <2>1
  <2>3. ViewTypeOK'
    BY <2>1, <2>2 DEF ViewTypeOK
  <2>4. QED
    BY <2>1, <2>3 DEF RecentOK, PubOK
<1>9. ASSUME NEW c \in Clients, Disconnect(c) PROVE Inv'
  BY <1>9 DEF Disconnect, ViewTypeOK, RecentOK, PubOK
<1>10. CASE UNCHANGED vars
  BY <1>10 DEF vars, publishing, clients, ViewTypeOK, RecentOK, PubOK
<1>11. QED
  BY <1>1, <1>2, <1>3, <1>4, <1>5, <1>6, <1>7, <1>8, <1>9, <1>10
  DEF Next, Broadcast, Stream

\* The variables of the live view keep their types.
THEOREM ViewTypeCorrect == Spec => []ViewTypeOK
<1>1. Inv => ViewTypeOK
  BY DEF Inv
<1>2. QED
  BY <1>1, InvInit, InvStep, PTL DEF Spec

-----------------------------------------------------------------------------
(* No gap. *)

LEMMA InAppend ==
  ASSUME NEW S, NEW s \in Seq(S), NEW x \in S, NEW e
  PROVE  In(e, Append(s, x)) <=> In(e, s) \/ e = x
<1>1. /\ Append(s, x) \in Seq(S) /\ Len(Append(s, x)) = Len(s) + 1 /\ Len(s) \in Nat
      /\ \A i \in 1..Len(s) : Append(s, x)[i] = s[i]
      /\ Append(s, x)[Len(s) + 1] = x
  OBVIOUS
<1>2. DOMAIN s = 1..Len(s)
  OBVIOUS
<1>3. DOMAIN Append(s, x) = 1..(Len(s) + 1)
  BY <1>1
<1>4. In(e, s) => In(e, Append(s, x))
  <2> SUFFICES ASSUME NEW i \in 1..Len(s), s[i] = e PROVE In(e, Append(s, x))
    BY <1>2 DEF In
  <2>1. i \in 1..(Len(s) + 1) /\ Append(s, x)[i] = e
    BY <1>1
  <2>2. QED
    BY <1>3, <2>1 DEF In
<1>5. e = x => In(e, Append(s, x))
  <2>1. Len(s) + 1 \in 1..(Len(s) + 1)
    BY <1>1
  <2>2. QED
    BY <1>1, <1>3, <2>1 DEF In
<1>6. In(e, Append(s, x)) => In(e, s) \/ e = x
  <2> SUFFICES ASSUME NEW i \in 1..(Len(s) + 1), Append(s, x)[i] = e
               PROVE  In(e, s) \/ e = x
    BY <1>3 DEF In
  <2>1. CASE i = Len(s) + 1
    BY <1>1, <2>1
  <2>2. CASE i # Len(s) + 1
    <3>1. i \in 1..Len(s) /\ s[i] = e
      BY <1>1, <2>2
    <3>2. QED
      BY <1>2, <3>1 DEF In
  <2>3. QED
    BY <2>1, <2>2
<1>7. QED
  BY <1>4, <1>5, <1>6

LEMMA InTail ==
  ASSUME NEW S, NEW s \in Seq(S), s # <<>>, NEW e
  PROVE  In(e, s) <=> e = Head(s) \/ In(e, Tail(s))
<1>1. /\ Tail(s) \in Seq(S) /\ Len(Tail(s)) = Len(s) - 1 /\ Len(s) \in Nat /\ Len(s) > 0
      /\ \A i \in 1..(Len(s) - 1) : Tail(s)[i] = s[i + 1]
      /\ Head(s) = s[1]
  OBVIOUS
<1>2. DOMAIN s = 1..Len(s)
  OBVIOUS
<1>3. DOMAIN Tail(s) = 1..(Len(s) - 1)
  BY <1>1
<1>4. In(e, s) => e = Head(s) \/ In(e, Tail(s))
  <2> SUFFICES ASSUME NEW i \in 1..Len(s), s[i] = e
               PROVE  e = Head(s) \/ In(e, Tail(s))
    BY <1>2 DEF In
  <2>1. CASE i = 1
    BY <1>1, <2>1
  <2>2. CASE i # 1
    <3>1. i - 1 \in 1..(Len(s) - 1) /\ Tail(s)[i - 1] = e
      BY <1>1, <2>2
    <3>2. QED
      BY <1>3, <3>1 DEF In
  <2>3. QED
    BY <2>1, <2>2
<1>5. e = Head(s) => In(e, s)
  <2>1. 1 \in 1..Len(s)
    BY <1>1
  <2>2. QED
    BY <1>1, <1>2, <2>1 DEF In
<1>6. In(e, Tail(s)) => In(e, s)
  <2> SUFFICES ASSUME NEW i \in 1..(Len(s) - 1), Tail(s)[i] = e PROVE In(e, s)
    BY <1>3 DEF In
  <2>1. i + 1 \in 1..Len(s) /\ s[i + 1] = e
    BY <1>1
  <2>2. QED
    BY <1>2, <2>1 DEF In
<1>7. QED
  BY <1>4, <1>5, <1>6

\* Event e has reached connection c, waits for it, or is on its way to it.
Covered(e, c) == In(e, got[c]) \/ In(e, q[c]) \/ Coming(e, c)

LEMMA GapStep == Inv /\ NoGap /\ [Next]_vars => NoGap'
<1> SUFFICES ASSUME Inv, NoGap, [Next]_vars,
                    NEW c \in Clients, at'[c] = "live", ~Dropped(c)',
                    NEW e \in span'[c].from..last'
             PROVE  Covered(e, c)'
  BY DEF NoGap, Covered
<1> USE DEF Inv
<1>0. /\ last \in Nat /\ pub \in [Publishers -> PubRecord]
      /\ at \in [Clients -> {"new", "replay", "live", "closed"}]
      /\ q \in [Clients -> Seq(Events)] /\ got \in [Clients -> Seq(Events)]
      /\ span \in [Clients -> [from : 1..(MaxEvents + 1), upto : 0..MaxEvents]]
  BY DEF ViewTypeOK, PubRecord
<1>1. /\ c \in registered'
      /\ \A p \in Publishers : c \notin pub'[p].full
  BY DEF Dropped
\* The induction hypothesis.
<1>2. at[c] = "live" /\ ~Dropped(c) /\ e \in span[c].from..last => Covered(e, c)
  BY DEF NoGap, Covered
<1>3. ASSUME NEW p \in Publishers, Publish(p) PROVE Covered(e, c)'
  <2>1. /\ pub[p].at = "idle" /\ last' = last + 1
        /\ UNCHANGED <<registered, at, q, got, span>>
        /\ \A o \in Publishers \ {p} : pub'[o] = pub[o]
        /\ pub'[p].at = "copy" /\ pub'[p].ev = last + 1
    BY <1>0, <1>3 DEF Publish, clients, Idle
  <2>2. pub[p].to = {} /\ pub[p].full = {}
    BY <2>1 DEF PubOK
  <2>3. CASE e = last + 1
    BY <2>1, <2>3 DEF Covered, Coming
  <2>4. CASE e # last + 1
    <3>1. span[c].from \in Int
      BY <1>0
    <3>2. e \in span[c].from..last
      BY <1>0, <2>1, <2>4, <3>1
    <3>3. at[c] = "live" /\ ~Dropped(c)
      BY <1>1, <2>1, <2>2 DEF Dropped
    <3>4. Coming(e, c) => Coming(e, c)'
      BY <2>1, <2>2 DEF Coming
    <3>5. QED
      BY <1>2, <2>1, <3>2, <3>3, <3>4 DEF Covered
  <2>5. QED
    BY <2>3, <2>4
<1>4. ASSUME NEW p \in Publishers, Copy(p) PROVE Covered(e, c)'
  <2>1. /\ pub[p].at = "copy" /\ UNCHANGED <<last, registered, at, q, got, span>>
        /\ \A o \in Publishers \ {p} : pub'[o] = pub[o]
        /\ pub'[p].to = registered /\ pub'[p].ev = pub[p].ev
    BY <1>0, <1>4 DEF Copy, clients, PubRecord
  <2>2. pub[p].to = {} /\ pub[p].full = {}
    BY <2>1 DEF PubOK
  <2>3. at[c] = "live" /\ ~Dropped(c) /\ c \in registered
    BY <1>1, <2>1, <2>2 DEF Dropped
  <2>4. Coming(e, c) => Coming(e, c)'
    BY <2>1, <2>2, <2>3 DEF Coming
  <2>5. QED
    BY <1>2, <2>1, <2>3, <2>4 DEF Covered
<1>5. ASSUME NEW p \in Publishers, Published(p) PROVE Covered(e, c)'
  <2>1. /\ pub[p].at = "offer" /\ pub[p].to = {} /\ pub[p].full = {}
        /\ UNCHANGED <<last, registered, at, q, got, span>>
        /\ \A o \in Publishers \ {p} : pub'[o] = pub[o]
    BY <1>0, <1>5 DEF Published, clients
  <2>2. at[c] = "live" /\ ~Dropped(c)
    BY <1>1, <2>1 DEF Dropped
  <2>3. Coming(e, c) => Coming(e, c)'
    BY <2>1 DEF Coming
  <2>4. QED
    BY <1>2, <2>1, <2>2, <2>3 DEF Covered
<1>6. ASSUME NEW p \in Publishers, NEW d \in Clients, Offer(p, d)
      PROVE  Covered(e, c)'
  <2>1. /\ UNCHANGED <<last, registered, at, got, span>>
        /\ \A o \in Publishers \ {p} : pub'[o] = pub[o]
        /\ pub'[p].at = pub[p].at /\ pub'[p].ev = pub[p].ev
        /\ pub'[p].to = pub[p].to \ {d}
        /\ pub[p].full \subseteq pub'[p].full
    <3>1. /\ UNCHANGED <<last, registered, at, got, span>>
          /\ \/ pub' = [pub EXCEPT ![p].to = @ \ {d}]
             \/ pub' = [pub EXCEPT ![p].to = @ \ {d}, ![p].full = @ \cup {d}]
      BY <1>6 DEF Offer
    <3>2. CASE pub' = [pub EXCEPT ![p].to = @ \ {d}]
      BY <1>0, <3>1, <3>2 DEF PubRecord
    <3>3. CASE pub' = [pub EXCEPT ![p].to = @ \ {d}, ![p].full = @ \cup {d}]
      BY <1>0, <3>1, <3>3 DEF PubRecord
    <3>4. QED
      BY <3>1, <3>2, <3>3
  <2>2. at[c] = "live" /\ ~Dropped(c)
    BY <1>1, <2>1 DEF Dropped
  <2>3. Covered(e, c)
    BY <1>2, <2>1, <2>2
  <2>4. CASE c # d
    <3>1. q'[c] = q[c]
      BY <1>0, <1>6, <2>4 DEF Offer
    <3>2. Coming(e, c) => Coming(e, c)'
      BY <2>1, <2>4 DEF Coming
    <3>3. QED
      BY <2>1, <2>3, <3>1, <3>2 DEF Covered
  <2>5. CASE c = d
    <3>1. q'[c] = Append(q[c], pub[p].ev)
      <4>1. pub'[p].full = pub[p].full \cup {d} => FALSE
        BY <1>1, <2>5
      <4>2. pub' = [pub EXCEPT ![p].to = @ \ {d}, ![p].full = @ \cup {d}] => FALSE
        BY <1>0, <4>1 DEF PubRecord
      <4>3. q' = [q EXCEPT ![d] = Append(@, pub[p].ev)]
        BY <1>6, <4>2 DEF Offer
      <4>4. QED
        BY <1>0, <2>5, <4>3
    <3>2. pub[p].ev \in Events
      BY <1>6 DEF Offer, PubOK, ViewTypeOK, Events
    <3>3. \A x : In(x, q'[c]) <=> In(x, q[c]) \/ x = pub[p].ev
      BY <1>0, <3>1, <3>2, InAppend
    <3>4. Coming(e, c) => Coming(e, c)' \/ e = pub[p].ev
      BY <2>1, <2>5 DEF Coming
    <3>5. QED
      BY <2>1, <2>3, <3>3, <3>4 DEF Covered
  <2>6. QED
    BY <2>4, <2>5
<1>7. ASSUME NEW p \in Publishers, NEW d \in Clients, Remove(p, d)
      PROVE  Covered(e, c)'
  <2>1. /\ UNCHANGED <<last, at, q, got, span>> /\ registered' = registered \ {d}
        /\ \A o \in Publishers \ {p} : pub'[o] = pub[o]
        /\ pub'[p].at = pub[p].at /\ pub'[p].ev = pub[p].ev
        /\ pub'[p].to = pub[p].to /\ pub'[p].full = pub[p].full \ {d}
    BY <1>0, <1>7 DEF Remove, clients, PubRecord
  <2>2. at[c] = "live" /\ ~Dropped(c)
    BY <1>1, <2>1 DEF Dropped
  <2>3. Coming(e, c) => Coming(e, c)'
    BY <2>1 DEF Coming
  <2>4. QED
    BY <1>2, <2>1, <2>2, <2>3 DEF Covered
<1>8. ASSUME NEW d \in Clients, Connect(d) PROVE Covered(e, c)'
  <2>1. /\ UNCHANGED <<last, pub, q, got, span>> /\ registered' = registered \cup {d}
        /\ at' = [at EXCEPT ![d] = "replay"]
    BY <1>8 DEF Connect
  <2>2. c # d /\ at[c] = "live"
    BY <1>0, <2>1
  <2>3. ~Dropped(c) /\ (Coming(e, c) => Coming(e, c)')
    BY <1>1, <2>1, <2>2 DEF Dropped, Coming
  <2>4. QED
    BY <1>2, <2>1, <2>2, <2>3 DEF Covered
<1>9. ASSUME NEW d \in Clients, Replay(d) PROVE Covered(e, c)'
  <2>1. /\ UNCHANGED <<last, recent, registered, pub, q>>
        /\ got' = [got EXCEPT ![d] = recent]
        /\ span' = [span EXCEPT ![d] = [from |-> last - Len(recent) + 1, upto |-> last]]
        /\ at' = [at EXCEPT ![d] = "live"]
    BY <1>9 DEF Replay, publishing
  <2>2. CASE c = d
    <3>1. span'[c].from = last - Len(recent) + 1 /\ got'[c] = recent
      BY <1>0, <2>1, <2>2
    <3>2. recent \in Seq(Events) /\ Len(recent) \in Nat
      BY DEF ViewTypeOK
    <3>3. last + 1 - e \in 1..Len(recent) /\ last + 1 - (last + 1 - e) = e
      BY <1>0, <2>1, <3>1, <3>2
    <3>4. last + 1 - e \in DOMAIN recent
      BY <3>2, <3>3
    <3>5. In(e, recent)
      BY <3>3, <3>4 DEF In, RecentOK
    <3>6. QED
      BY <3>1, <3>5 DEF Covered
  <2>3. CASE c # d
    <3>1. got'[c] = got[c] /\ span'[c] = span[c] /\ at[c] = "live"
      BY <1>0, <2>1, <2>3
    <3>2. ~Dropped(c) /\ (Coming(e, c) => Coming(e, c)')
      BY <1>1, <2>1 DEF Dropped, Coming
    <3>3. QED
      BY <1>2, <2>1, <3>1, <3>2 DEF Covered
  <2>4. QED
    BY <2>2, <2>3
<1>10. ASSUME NEW d \in Clients, Send(d) PROVE Covered(e, c)'
  <2>1. /\ UNCHANGED <<last, registered, pub, at, span>> /\ q[d] # <<>>
        /\ got' = [got EXCEPT ![d] = Append(@, Head(q[d]))]
        /\ q' = [q EXCEPT ![d] = Tail(@)]
    BY <1>10 DEF Send, publishing
  <2>2. ~Dropped(c) /\ (Coming(e, c) => Coming(e, c)')
    BY <1>1, <2>1 DEF Dropped, Coming
  <2>3. Covered(e, c)
    BY <1>2, <2>1, <2>2
  <2>4. In(e, got[c]) \/ In(e, q[c]) => In(e, got'[c]) \/ In(e, q'[c])
    <3>1. CASE c = d
      <4>1. got'[c] = Append(got[c], Head(q[c])) /\ q'[c] = Tail(q[c])
        BY <1>0, <2>1, <3>1
      <4>2. q[c] \in Seq(Events) /\ q[c] # <<>> /\ got[c] \in Seq(Events)
        BY <1>0, <2>1, <3>1
      <4>3. Head(q[c]) \in Events
        BY <4>2
      <4>4. In(e, got'[c]) <=> In(e, got[c]) \/ e = Head(q[c])
        BY <4>1, <4>2, <4>3, InAppend
      <4>5. In(e, q[c]) <=> e = Head(q[c]) \/ In(e, q'[c])
        BY <4>1, <4>2, InTail
      <4>6. QED
        BY <4>4, <4>5
    <3>2. CASE c # d
      BY <1>0, <2>1, <3>2
    <3>3. QED
      BY <3>1, <3>2
  <2>5. QED
    BY <2>2, <2>3, <2>4 DEF Covered
<1>11. ASSUME NEW d \in Clients, Disconnect(d) PROVE Covered(e, c)'
  <2>1. /\ UNCHANGED <<last, pub, q, got, span>> /\ registered' = registered \ {d}
        /\ at' = [at EXCEPT ![d] = "closed"]
    BY <1>11 DEF Disconnect
  <2>2. at[c] = "live"
    BY <1>0, <2>1
  <2>3. ~Dropped(c) /\ (Coming(e, c) => Coming(e, c)')
    BY <1>1, <2>1 DEF Dropped, Coming
  <2>4. QED
    BY <1>2, <2>1, <2>2, <2>3 DEF Covered
<1>12. CASE UNCHANGED vars
  <2>1. UNCHANGED <<last, registered, pub, at, q, got, span>>
    BY <1>12 DEF vars, publishing, clients
  <2>2. at[c] = "live" /\ ~Dropped(c) /\ (Coming(e, c) => Coming(e, c)')
    BY <1>1, <2>1 DEF Dropped, Coming
  <2>3. QED
    BY <1>2, <2>1, <2>2 DEF Covered
<1>13. QED
  BY <1>3, <1>4, <1>5, <1>6, <1>7, <1>8, <1>9, <1>10, <1>11, <1>12
  DEF Next, Broadcast, Stream

\* However replay, registration and broadcasts overlap, no event falls between
\* the replay of a connection and its queue.
THEOREM NoGapHolds == Spec => []NoGap
<1>1. Init => NoGap
  BY DEF Init, NoGap
<1>2. QED
  BY <1>1, InvInit, InvStep, GapStep, PTL DEF Spec

-----------------------------------------------------------------------------
(* At most twice. *)

\* The places of got[c] that came from the queue.
Sent(c) == (Replayed(c) + 1)..Len(got[c])

\* Event e may still be put into the queue of c by p.
Offering(p, c) == pub[p].at = "copy" \/ c \in pub[p].to

ReplayOnce(c) ==
  /\ Replayed(c) \in Nat /\ Replayed(c) <= Len(got[c])
  /\ \A i, j \in 1..Replayed(c) : i # j => got[c][i] # got[c][j]

SentOnce(c) == \A i, j \in Sent(c) : i # j => got[c][i] # got[c][j]

QueuedOnce(c) == \A i, j \in 1..Len(q[c]) : i # j => q[c][i] # q[c][j]

SentNotQueued(c) == \A i \in Sent(c), j \in 1..Len(q[c]) : got[c][i] # q[c][j]

\* What is still offered to c has been neither queued for it nor sent to it.
OfferedOnce(c) ==
  \A p \in Publishers : Offering(p, c) =>
    /\ \A j \in 1..Len(q[c]) : q[c][j] # pub[p].ev
    /\ \A i \in Sent(c) : got[c][i] # pub[p].ev

Past(c) ==
  /\ \A i \in 1..Len(got[c]) : got[c][i] <= last
  /\ \A j \in 1..Len(q[c]) : q[c][j] <= last

\* No two publishers broadcast the same event.
Distinct ==
  \A p, o \in Publishers :
    p # o /\ pub[p].at # "idle" /\ pub[o].at # "idle" => pub[p].ev # pub[o].ev

OnceFor(c) ==
  /\ ReplayOnce(c) /\ SentOnce(c) /\ QueuedOnce(c) /\ SentNotQueued(c)
  /\ OfferedOnce(c) /\ Past(c)

Once == Distinct /\ \A c \in Clients : OnceFor(c)

LEMMA OnceInit == Init => Once
<1> SUFFICES ASSUME Init PROVE Once
  OBVIOUS
<1>1. Distinct
  BY DEF Init, Distinct, Idle
<1>2. ASSUME NEW c \in Clients PROVE OnceFor(c)
  <2>1. Replayed(c) = 0 /\ got[c] = <<>> /\ q[c] = <<>>
    BY DEF Init, Replayed
  <2>2. Len(got[c]) = 0 /\ Len(q[c]) = 0
    BY <2>1
  <2>3. Sent(c) = {}
    BY <2>1, <2>2 DEF Sent
  <2>4. QED
    BY <2>1, <2>2, <2>3
    DEF OnceFor, ReplayOnce, SentOnce, QueuedOnce, SentNotQueued, OfferedOnce, Past
<1>3. QED
  BY <1>1, <1>2 DEF Once

\* A step that sends nothing, queues nothing for c, and offers c nothing new.
LEMMA OnceFrame ==
  ASSUME NEW c \in Clients, OnceFor(c),
         last' = last, q'[c] = q[c], got'[c] = got[c], span'[c] = span[c],
         \A p \in Publishers :
            Offering(p, c)' => Offering(p, c) /\ pub'[p].ev = pub[p].ev
  PROVE  OnceFor(c)'
<1>1. Replayed(c)' = Replayed(c)
  BY DEF Replayed
<1>2. Sent(c)' = Sent(c)
  BY <1>1 DEF Sent
<1>3. OfferedOnce(c)'
  BY <1>2 DEF OfferedOnce, OnceFor
<1>4. QED
  BY <1>1, <1>2, <1>3
  DEF OnceFor, ReplayOnce, SentOnce, QueuedOnce, SentNotQueued, Past

LEMMA OnceStep == Inv /\ Once /\ [Next]_vars => Once'
<1> SUFFICES ASSUME Inv, Once, [Next]_vars PROVE Once'
  OBVIOUS
<1> USE DEF Inv
<1>0. /\ last \in Nat /\ pub \in [Publishers -> PubRecord]
      /\ q \in [Clients -> Seq(Events)] /\ got \in [Clients -> Seq(Events)]
      /\ span \in [Clients -> [from : 1..(MaxEvents + 1), upto : 0..MaxEvents]]
  BY DEF ViewTypeOK, PubRecord
\* A publisher that offers something is not idle, and its event is a past one.
<1>1. ASSUME NEW p \in Publishers, NEW c \in Clients, Offering(p, c)
      PROVE  pub[p].at # "idle"
  BY <1>1 DEF Offering, PubOK
<1>2. ASSUME NEW p \in Publishers, Publish(p) PROVE Once'
  <2>1. /\ last' = last + 1 /\ UNCHANGED <<q, got, span>>
        /\ \A o \in Publishers \ {p} : pub'[o] = pub[o]
        /\ pub'[p].ev = last + 1
    BY <1>0, <1>2 DEF Publish, clients, Idle
  <2>2. Distinct'
    <3>1. \A o \in Publishers : pub[o].at # "idle" => pub[o].ev # last + 1
      BY <1>0 DEF PubOK
    <3>2. QED
      BY <2>1, <3>1 DEF Distinct, Once
  <2>3. ASSUME NEW c \in Clients PROVE OnceFor(c)'
    <3>1. OnceFor(c) /\ q[c] \in Seq(Events) /\ got[c] \in Seq(Events)
      BY <1>0 DEF Once
    <3>2. Replayed(c)' = Replayed(c) /\ Sent(c)' = Sent(c)
      BY <2>1 DEF Replayed, Sent
    <3>3. /\ \A i \in 1..Len(got[c]) : got[c][i] \in Nat /\ got[c][i] <= last
          /\ \A j \in 1..Len(q[c]) : q[c][j] \in Nat /\ q[c][j] <= last
      <4>1. /\ \A i \in 1..Len(got[c]) : got[c][i] \in Events
            /\ \A j \in 1..Len(q[c]) : q[c][j] \in Events
        BY <3>1
      <4>2. Events \subseteq Nat
        BY ViewAssumption DEF Events, ViewAssumption
      <4>3. QED
        BY <3>1, <4>1, <4>2 DEF OnceFor, Past
    <3>4. Past(c)'
      <4>1. \A x \in Nat : x <= last => x <= last + 1
        BY <1>0
      <4>2. QED
        BY <2>1, <3>3, <4>1 DEF Past
    <3>5. Sent(c) \subseteq 1..Len(got[c])
      BY <3>1 DEF Sent, OnceFor, ReplayOnce
    <3>6. OfferedOnce(c)'
      <4>1. \A j \in 1..Len(q[c]) : q[c][j] # last + 1
        BY <1>0, <3>3
      <4>2. \A i \in Sent(c) : got[c][i] # last + 1
        BY <1>0, <3>3, <3>5
      <4>3. QED
        BY <2>1, <3>1, <3>2, <4>1, <4>2 DEF OfferedOnce, OnceFor, Offering
    <3>7. QED
      BY <2>1, <3>1, <3>2, <3>4, <3>6
      DEF OnceFor, ReplayOnce, SentOnce, QueuedOnce, SentNotQueued
  <2>4. QED
    BY <2>2, <2>3 DEF Once
<1>3. ASSUME NEW p \in Publishers, Copy(p) PROVE Once'
  <2>1. /\ pub[p].at = "copy" /\ UNCHANGED <<last, q, got, span>>
        /\ \A o \in Publishers \ {p} : pub'[o] = pub[o]
        /\ pub'[p].ev = pub[p].ev
    BY <1>0, <1>3 DEF Copy, clients, PubRecord
  <2>2. Distinct'
    BY <2>1 DEF Distinct, Once
  <2>3. ASSUME NEW c \in Clients PROVE OnceFor(c)'
    <3>1. \A o \in Publishers : Offering(o, c)' => Offering(o, c) /\ pub'[o].ev = pub[o].ev
      BY <2>1 DEF Offering
    <3>2. QED
      BY <2>1, <3>1, OnceFrame DEF Once
  <2>4. QED
    BY <2>2, <2>3 DEF Once
<1>4. ASSUME NEW p \in Publishers, Published(p) PROVE Once'
  <2>1. /\ UNCHANGED <<last, q, got, span>>
        /\ \A o \in Publishers \ {p} : pub'[o] = pub[o]
        /\ pub'[p].at = "idle" /\ pub'[p].to = {}
    BY <1>0, <1>4 DEF Published, clients, Idle
  <2>2. Distinct'
    BY <2>1 DEF Distinct, Once
  <2>3. ASSUME NEW c \in Clients PROVE OnceFor(c)'
    <3>1. \A o \in Publishers : Offering(o, c)' => Offering(o, c) /\ pub'[o].ev = pub[o].ev
      BY <2>1 DEF Offering
    <3>2. QED
      BY <2>1, <3>1, OnceFrame DEF Once
  <2>4. QED
    BY <2>2, <2>3 DEF Once
<1>5. ASSUME NEW p \in Publishers, NEW d \in Clients, Offer(p, d) PROVE Once'
  <2>1. /\ pub[p].at = "offer" /\ d \in pub[p].to
        /\ UNCHANGED <<last, got, span>>
        /\ \/ q' = [q EXCEPT ![d] = Append(@, pub[p].ev)]
           \/ q' = q
        /\ \/ pub' = [pub EXCEPT ![p].to = @ \ {d}]
           \/ pub' = [pub EXCEPT ![p].to = @ \ {d}, ![p].full = @ \cup {d}]
    BY <1>5 DEF Offer
  <2>2. /\ \A o \in Publishers \ {p} : pub'[o] = pub[o]
        /\ pub'[p].at = pub[p].at /\ pub'[p].ev = pub[p].ev
        /\ pub'[p].to = pub[p].to \ {d}
    <3>1. CASE pub' = [pub EXCEPT ![p].to = @ \ {d}]
      BY <1>0, <3>1 DEF PubRecord
    <3>2. CASE pub' = [pub EXCEPT ![p].to = @ \ {d}, ![p].full = @ \cup {d}]
      BY <1>0, <3>2 DEF PubRecord
    <3>3. QED
      BY <2>1, <3>1, <3>2
  <2>3. Distinct'
    BY <2>2 DEF Distinct, Once
  <2>4. ASSUME NEW c \in Clients PROVE OnceFor(c)'
    <3>1. \A o \in Publishers : Offering(o, c)' => Offering(o, c) /\ pub'[o].ev = pub[o].ev
      BY <2>2 DEF Offering
    <3>2. CASE q'[c] = q[c]
      BY <2>1, <3>1, <3>2, OnceFrame DEF Once
    <3>3. CASE q'[c] # q[c]
      <4> DEFINE e == pub[p].ev
      <4>1. c = d /\ q'[c] = Append(q[c], e)
        BY <1>0, <2>1, <3>3
      <4>2. e \in Events /\ e <= last
        BY <1>0, <2>1 DEF PubOK, ViewTypeOK, Events
      <4>3. /\ Len(q'[c]) = Len(q[c]) + 1 /\ Len(q[c]) \in Nat
            /\ \A j \in 1..Len(q[c]) : q'[c][j] = q[c][j]
            /\ q'[c][Len(q[c]) + 1] = e
        BY <1>0, <4>1, <4>2
      <4>4. /\ OnceFor(c) /\ Offering(p, c)
        BY <2>1, <4>1 DEF Once, Offering
      <4>5. Replayed(c)' = Replayed(c) /\ Sent(c)' = Sent(c) /\ got'[c] = got[c]
        BY <2>1 DEF Replayed, Sent
      <4>6. /\ \A j \in 1..Len(q[c]) : q[c][j] # e
            /\ \A i \in Sent(c) : got[c][i] # e
        BY <4>4 DEF OnceFor, OfferedOnce
      <4> HIDE DEF e
      <4>7. \A j \in 1..Len(q'[c]) : j \in 1..Len(q[c]) \/ (j = Len(q[c]) + 1 /\ q'[c][j] = e)
        BY <4>3
      <4>8. QueuedOnce(c)'
        BY <4>3, <4>4, <4>6, <4>7 DEF QueuedOnce, OnceFor
      <4>9. SentNotQueued(c)'
        BY <4>3, <4>4, <4>5, <4>6, <4>7 DEF SentNotQueued, OnceFor
      <4>10. Past(c)'
        BY <2>1, <4>2, <4>3, <4>4, <4>5, <4>7 DEF Past, OnceFor
      <4>11. OfferedOnce(c)'
        <5> SUFFICES ASSUME NEW o \in Publishers, Offering(o, c)'
                     PROVE  /\ \A j \in 1..Len(q'[c]) : q'[c][j] # pub'[o].ev
                            /\ \A i \in Sent(c)' : got'[c][i] # pub'[o].ev
          BY DEF OfferedOnce
        <5>1. Offering(o, c) /\ pub'[o].ev = pub[o].ev
          BY <3>1
        <5>2. o # p
          BY <2>1, <2>2, <4>1 DEF Offering
        <5>3. pub[o].ev # e
          BY <1>1, <2>1, <5>1, <5>2 DEF Distinct, Once, e
        <5>4. QED
          BY <4>3, <4>4, <4>5, <4>7, <5>1, <5>3 DEF OnceFor, OfferedOnce
      <4>12. QED
        BY <4>4, <4>5, <4>8, <4>9, <4>10, <4>11 DEF OnceFor, ReplayOnce, SentOnce
    <3>4. QED
      BY <3>2, <3>3
  <2>5. QED
    BY <2>3, <2>4 DEF Once
<1>6. ASSUME NEW p \in Publishers, NEW d \in Clients, Remove(p, d) PROVE Once'
  <2>1. /\ UNCHANGED <<last, q, got, span>>
        /\ \A o \in Publishers \ {p} : pub'[o] = pub[o]
        /\ pub'[p].at = pub[p].at /\ pub'[p].ev = pub[p].ev /\ pub'[p].to = pub[p].to
    BY <1>0, <1>6 DEF Remove, clients, PubRecord
  <2>2. Distinct'
    BY <2>1 DEF Distinct, Once
  <2>3. ASSUME NEW c \in Clients PROVE OnceFor(c)'
    <3>1. \A o \in Publishers : Offering(o, c)' => Offering(o, c) /\ pub'[o].ev = pub[o].ev
      BY <2>1 DEF Offering
    <3>2. QED
      BY <2>1, <3>1, OnceFrame DEF Once
  <2>4. QED
    BY <2>2, <2>3 DEF Once
<1>7. ASSUME UNCHANGED <<last, pub, q, got, span>> PROVE Once'
  <2>1. ASSUME NEW c \in Clients PROVE OnceFor(c)'
    <3>1. \A o \in Publishers : Offering(o, c)' => Offering(o, c) /\ pub'[o].ev = pub[o].ev
      BY <1>7 DEF Offering
    <3>2. QED
      BY <1>7, <3>1, OnceFrame DEF Once
  <2>2. QED
    BY <1>7, <2>1 DEF Once, Distinct
<1>8. ASSUME NEW d \in Clients, Connect(d) PROVE Once'
  BY <1>7, <1>8 DEF Connect
<1>9. ASSUME NEW d \in Clients, Disconnect(d) PROVE Once'
  BY <1>7, <1>9 DEF Disconnect
<1>10. CASE UNCHANGED vars
  BY <1>7, <1>10 DEF vars, publishing, clients
<1>11. ASSUME NEW d \in Clients, Replay(d) PROVE Once'
  <2>1. /\ UNCHANGED <<last, pub, q>>
        /\ got' = [got EXCEPT ![d] = recent]
        /\ span' = [span EXCEPT ![d] = [from |-> last - Len(recent) + 1, upto |-> last]]
    BY <1>11 DEF Replay, publishing
  <2>2. Distinct'
    BY <2>1 DEF Distinct, Once
  <2>3. ASSUME NEW c \in Clients PROVE OnceFor(c)'
    <3>1. \A o \in Publishers : Offering(o, c)' => Offering(o, c) /\ pub'[o].ev = pub[o].ev
      BY <2>1 DEF Offering
    <3>2. CASE c # d
      <4>1. got'[c] = got[c] /\ span'[c] = span[c]
        BY <1>0, <2>1, <3>2
      <4>2. QED
        BY <2>1, <3>1, <4>1, OnceFrame DEF Once
    <3>3. CASE c = d
      <4>1. got'[c] = recent /\ q'[c] = q[c]
        BY <1>0, <2>1, <3>3
      <4>2. recent \in Seq(Events) /\ Len(recent) \in Nat /\ Len(recent) <= last
        BY DEF ViewTypeOK, RecentOK
      <4>3. Replayed(c)' = Len(recent)
        <5>1. span'[c].from = last - Len(recent) + 1 /\ span'[c].upto = last
          BY <1>0, <2>1, <3>3
        <5>2. QED
          BY <1>0, <4>2, <5>1 DEF Replayed
      <4>4. Sent(c)' = {}
        BY <4>1, <4>2, <4>3 DEF Sent
      <4>5. \A i \in 1..Len(recent) : recent[i] = last + 1 - i
        BY <4>2 DEF RecentOK
      <4>6. ReplayOnce(c)'
        BY <1>0, <4>1, <4>2, <4>3, <4>5 DEF ReplayOnce
      <4>7. OnceFor(c)
        BY DEF Once
      <4>8. Past(c)'
        BY <1>0, <2>1, <4>1, <4>2, <4>5, <4>7 DEF Past, OnceFor
      <4>9. SentOnce(c)' /\ QueuedOnce(c)' /\ SentNotQueued(c)'
        BY <4>1, <4>4, <4>7 DEF SentOnce, QueuedOnce, SentNotQueued, OnceFor
      <4>10. OfferedOnce(c)'
        BY <3>1, <4>1, <4>4, <4>7 DEF OfferedOnce, OnceFor
      <4>11. QED
        BY <4>6, <4>8, <4>9, <4>10 DEF OnceFor
    <3>4. QED
      BY <3>2, <3>3
  <2>4. QED
    BY <2>2, <2>3 DEF Once
<1>12. ASSUME NEW d \in Clients, Send(d) PROVE Once'
  <2>1. /\ UNCHANGED <<last, pub, span>> /\ q[d] # <<>>
        /\ got' = [got EXCEPT ![d] = Append(@, Head(q[d]))]
        /\ q' = [q EXCEPT ![d] = Tail(@)]
    BY <1>12 DEF Send, publishing
  <2>2. Distinct'
    BY <2>1 DEF Distinct, Once
  <2>3. ASSUME NEW c \in Clients PROVE OnceFor(c)'
    <3>1. \A o \in Publishers : Offering(o, c)' => Offering(o, c) /\ pub'[o].ev = pub[o].ev
      BY <2>1 DEF Offering
    <3>2. CASE c # d
      <4>1. got'[c] = got[c] /\ q'[c] = q[c]
        BY <1>0, <2>1, <3>2
      <4>2. QED
        BY <2>1, <3>1, <4>1, OnceFrame DEF Once
    <3>3. CASE c = d
      <4> DEFINE h == q[c][1]
      <4> DEFINE n == Len(got[c])
      <4> DEFINE k == Len(q[c])
      <4>1. /\ q[c] \in Seq(Events) /\ q[c] # <<>> /\ got[c] \in Seq(Events)
            /\ got'[c] = Append(got[c], Head(q[c])) /\ q'[c] = Tail(q[c])
        BY <1>0, <2>1, <3>3
      <4>2. /\ k \in Nat /\ k > 0 /\ n \in Nat /\ h \in Events /\ Head(q[c]) = h
        BY <4>1
      <4>3. /\ Len(got'[c]) = n + 1 /\ got'[c][n + 1] = h
            /\ \A i \in 1..n : got'[c][i] = got[c][i]
        BY <4>1, <4>2
      <4>4. /\ Len(q'[c]) = k - 1
            /\ \A j \in 1..(k - 1) : q'[c][j] = q[c][j + 1]
        BY <4>1, <4>2
      <4>5. OnceFor(c)
        BY DEF Once
      <4>6. Replayed(c)' = Replayed(c) /\ Replayed(c) \in Nat /\ Replayed(c) <= n
        BY <2>1, <4>5 DEF Replayed, OnceFor, ReplayOnce
      <4>7. Sent(c)' = Sent(c) \cup {n + 1} /\ Sent(c) \subseteq 1..n
        BY <4>2, <4>3, <4>6 DEF Sent
      <4>8. /\ \A i \in Sent(c) : got[c][i] # h
            /\ \A j \in 1..(k - 1) : j + 1 \in 1..k /\ q[c][j + 1] # h
        <5>1. 1 \in 1..k /\ \A j \in 1..(k - 1) : j + 1 \in 1..k /\ j + 1 # 1
          BY <4>2
        <5>2. QED
          BY <4>5, <5>1 DEF OnceFor, SentNotQueued, QueuedOnce
      <4> HIDE DEF h, n, k
      <4>9. ReplayOnce(c)'
        <5>1. 1..Replayed(c) \subseteq 1..n
          BY <4>2, <4>6
        <5>2. QED
          BY <4>2, <4>3, <4>5, <4>6, <5>1 DEF ReplayOnce, OnceFor
      <4>10. SentOnce(c)'
        BY <4>2, <4>3, <4>5, <4>7, <4>8 DEF SentOnce, OnceFor
      <4>11. QueuedOnce(c)'
        BY <4>2, <4>4, <4>5, <4>8 DEF QueuedOnce, OnceFor, k
      <4>12. SentNotQueued(c)'
        <5> SUFFICES ASSUME NEW i \in Sent(c) \cup {n + 1}, NEW j \in 1..(k - 1)
                     PROVE  got'[c][i] # q[c][j + 1]
          BY <4>4, <4>7 DEF SentNotQueued
        <5>1. CASE i = n + 1
          BY <4>3, <4>8, <5>1
        <5>2. CASE i \in Sent(c)
          BY <4>3, <4>5, <4>7, <4>8, <5>2 DEF SentNotQueued, OnceFor, k
        <5>3. QED
          BY <5>1, <5>2
      <4>13. Past(c)'
        <5>1. h <= last
          BY <4>2, <4>5 DEF Past, OnceFor, h, k
        <5>2. \A i \in 1..(n + 1) : i \in 1..n \/ i = n + 1
          BY <4>2
        <5>3. QED
          BY <2>1, <4>2, <4>3, <4>4, <4>5, <4>8, <5>1, <5>2 DEF Past, OnceFor, k, n
      <4>14. OfferedOnce(c)'
        <5> SUFFICES ASSUME NEW o \in Publishers, Offering(o, c)'
                     PROVE  /\ \A j \in 1..Len(q'[c]) : q'[c][j] # pub'[o].ev
                            /\ \A i \in Sent(c)' : got'[c][i] # pub'[o].ev
          BY DEF OfferedOnce
        <5>1. Offering(o, c) /\ pub'[o].ev = pub[o].ev
          BY <3>1
        <5>2. /\ \A j \in 1..k : q[c][j] # pub[o].ev
              /\ \A i \in Sent(c) : got[c][i] # pub[o].ev
          BY <4>5, <5>1 DEF OfferedOnce, OnceFor, k
        <5>3. h # pub[o].ev
          BY <4>2, <5>2 DEF h
        <5>4. QED
          BY <4>2, <4>3, <4>4, <4>7, <4>8, <5>1, <5>2, <5>3
      <4>15. QED
        BY <4>9, <4>10, <4>11, <4>12, <4>13, <4>14 DEF OnceFor
    <3>4. QED
      BY <3>2, <3>3
  <2>4. QED
    BY <2>2, <2>3 DEF Once
<1>13. QED
  BY <1>2, <1>3, <1>4, <1>5, <1>6, <1>8, <1>9, <1>10, <1>11, <1>12
  DEF Next, Broadcast, Stream

\* An event reaches a browser twice only by the replay and then the queue, and
\* never a third time.
THEOREM AtMostTwiceHolds == Spec => []AtMostTwice
<1>1. Inv /\ Once => AtMostTwice
  <2> SUFFICES ASSUME Inv, Once, NEW c \in Clients,
                      NEW i \in DOMAIN got[c], NEW j \in DOMAIN got[c],
                      i < j, got[c][i] = got[c][j]
               PROVE  i <= Replayed(c) /\ Replayed(c) < j
    BY DEF AtMostTwice
  <2>1. got[c] \in Seq(Events)
    BY DEF Inv, ViewTypeOK
  <2>2. /\ i \in 1..Len(got[c]) /\ j \in 1..Len(got[c]) /\ i # j
        /\ Len(got[c]) \in Nat
    BY <2>1
  <2>3. OnceFor(c) /\ Replayed(c) \in Nat
    BY DEF Once, OnceFor, ReplayOnce
  <2>4. ~(i \in 1..Replayed(c) /\ j \in 1..Replayed(c))
    BY <2>2, <2>3 DEF OnceFor, ReplayOnce
  <2>5. ~(i \in Sent(c) /\ j \in Sent(c))
    BY <2>2, <2>3 DEF OnceFor, SentOnce
  <2>6. QED
    BY <2>2, <2>3, <2>4, <2>5 DEF Sent
<1>2. QED
  BY <1>1, InvInit, InvStep, OnceInit, OnceStep, PTL DEF Spec
=============================================================================
