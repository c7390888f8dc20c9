-------------------------------- MODULE Events --------------------------------
(***************************************************************************)
(* How control events get from send_event to the streams of receive_events *)
(* (the trait EventBridge).  Three bridges:                                *)
(*                                                                         *)
(*  "table"      the SQL backends: a row with the time of its sender; each *)
(*               listener polls for rows after the last one it looked at   *)
(*  "pubsub"     Redis: a channel that reaches whoever is connected        *)
(*  "broadcast"  memory: a channel that keeps the last Capacity events     *)
(*                                                                         *)
(* Clocks of processes lag behind the real time by up to Skew, and an      *)
(* insert may commit at any time after its event was stamped.  On the      *)
(* channels the stamp of an event is its place in the order of publication *)
(* (and `now' counts the events published).                                *)
(***************************************************************************)
EXTENDS Integers, Sequences, SequencesExt

CONSTANTS Event,     \* events that are sent, each once
          Unknown,   \* those whose data the listeners cannot decode
          Listener,  \* streams of receive_events
          MaxTime,   \* bound on the clock
          Skew,      \* how far the clock of a process may lag behind
          Capacity   \* events a broadcast channel keeps for a slow receiver

ASSUME UnknownAssumption == Unknown \subseteq Event
ASSUME TimeAssumption    == MaxTime \in Nat /\ Skew \in Nat /\ Capacity \in Nat \ {0}

Never == -1
Time  == 0 .. MaxTime

VARIABLES bridge,  \* the bridge in use; never changes
          now,     \* the clock
          stamp,   \* `sent' of each event, or Never
          stored,  \* events that are in the table or were published
          open,    \* listeners whose stream is open
          offset,  \* of each listener: the stamp of the last event looked at
          from,    \* history: what it was when the stream was opened
          buf,     \* of each listener: published events it has not looked at
          got,     \* of each listener: the events its stream has yielded
          lost     \* history: <<l, e>>: e came too late for l, or was pushed out

eventVars == <<bridge, now, stamp, stored, open, offset, from, buf, got, lost>>
history == <<from, lost>>

EventsTypeOK ==
    /\ bridge \in {"table", "pubsub", "broadcast"}
    /\ now \in Time
    /\ stamp \in [Event -> Time \cup {Never}]
    /\ stored \in SUBSET Event
    /\ open \in SUBSET Listener
    /\ offset \in [Listener -> Time \cup {Never}]
    /\ from \in [Listener -> Time \cup {Never}]
    /\ buf \in [Listener -> Seq(Event)] /\ got \in [Listener -> Seq(Event)]
    /\ lost \in SUBSET (Listener \X Event)

EventsInit ==
    /\ bridge \in {"table", "pubsub", "broadcast"}
    /\ now = 0
    /\ stamp = [e \in Event |-> Never]
    /\ stored = {} /\ open = {}
    /\ offset = [l \in Listener |-> Never] /\ from = offset
    /\ buf = [l \in Listener |-> <<>>] /\ got = buf
    /\ lost = {}

ClockTime == {t \in Time : now - Skew <= t /\ t <= now}

-----------------------------------------------------------------------------
(* The table.                                                              *)

\* receive_events: nothing that was sent before is looked at.
Subscribe(l) ==
    /\ offset[l] = Never
    /\ \E t \in IF bridge = "table" THEN ClockTime ELSE {now} :
          offset' = [offset EXCEPT ![l] = t] /\ from' = [from EXCEPT ![l] = t]
    /\ open' = open \cup {l}
    /\ UNCHANGED <<bridge, now, stamp, stored, buf, got, lost>>

\* send_event reads the clock of the sender.
Stamp(e) ==
    /\ bridge = "table" /\ stamp[e] = Never
    /\ \E t \in ClockTime : stamp' = [stamp EXCEPT ![e] = t]
    /\ UNCHANGED <<bridge, now, stored, open, offset, from, buf, got, lost>>

\* The insert commits; if it fails, the row never appears.
Insert(e) ==
    /\ bridge = "table" /\ stamp[e] # Never /\ e \notin stored
    /\ stored' = stored \cup {e}
    /\ lost' = lost \cup {<<l, e>> : l \in {m \in open : stamp[e] <= offset[m]}}
    /\ UNCHANGED <<bridge, now, stamp, open, offset, from, buf, got>>

Bug_Rows(l) == {e \in stored : stamp[e] >= offset[l]}

\* SELECT ... WHERE sent > offset
Rows(l) == {e \in stored : stamp[e] > offset[l]}

FirstOf(S) == {e \in S : \A f \in S : stamp[e] <= stamp[f]}

Bug_Fetch(l) ==
    /\ bridge = "table" /\ l \in open /\ Rows(l) # {}
    /\ \E e \in Rows(l) :
          /\ \A f \in Rows(l) : stamp[f] <= stamp[e]
          /\ offset' = [offset EXCEPT ![l] = stamp[e]]
    /\ got' = IF Rows(l) \subseteq Unknown THEN got
              ELSE [got EXCEPT ![l] = Append(@, CHOOSE e \in FirstOf(Rows(l) \ Unknown) : TRUE)]
    /\ UNCHANGED <<bridge, now, stamp, stored, open, buf, history>>

\* One round of the stream: the rows are gone through in the order of `sent' up
\* to the first one that can be decoded.  A failed query only delays the round.
Fetch(l) ==
    /\ bridge = "table" /\ l \in open /\ Rows(l) # {}
    /\ \/ \E e \in FirstOf(Rows(l) \ Unknown) :
             /\ offset' = [offset EXCEPT ![l] = stamp[e]]
             /\ got' = [got EXCEPT ![l] = Append(@, e)]
       \/ \E e \in Rows(l) :
             /\ Rows(l) \subseteq Unknown
             /\ \A f \in Rows(l) : stamp[f] <= stamp[e]
             /\ offset' = [offset EXCEPT ![l] = stamp[e]]
             /\ UNCHANGED got
    /\ UNCHANGED <<bridge, now, stamp, stored, open, buf, history>>

Tick ==
    /\ bridge = "table" /\ now < MaxTime
    /\ now' = now + 1
    /\ UNCHANGED <<bridge, stamp, stored, open, offset, buf, got, history>>

-----------------------------------------------------------------------------
(* The channels.                                                           *)

\* A broadcast channel forgets its oldest event when it is full.
Kept(b) == IF bridge = "broadcast" /\ Len(b) > Capacity THEN Tail(b) ELSE b

Publish(e) ==
    /\ bridge # "table" /\ stamp[e] = Never /\ now < MaxTime
    /\ now' = now + 1
    /\ stamp' = [stamp EXCEPT ![e] = now + 1]
    /\ stored' = stored \cup {e}
    /\ buf' = [l \in Listener |-> IF l \in open THEN Kept(Append(buf[l], e)) ELSE buf[l]]
    /\ lost' = lost \cup {<<l, Head(buf[l])>> : l \in {m \in open : Kept(Append(buf[m], e)) # Append(buf[m], e)}}
    /\ UNCHANGED <<bridge, open, offset, from, got>>

Bug_Take(l) ==
    /\ l \in open /\ buf[l] # <<>> /\ Head(buf[l]) \notin Unknown
    /\ LET e == Head(buf[l]) IN
          /\ offset' = [offset EXCEPT ![l] = stamp[e]]
          /\ got' = [got EXCEPT ![l] = Append(@, e)]
    /\ buf' = [buf EXCEPT ![l] = Tail(@)]
    /\ UNCHANGED <<bridge, now, stamp, stored, open, history>>

\* The stream takes the next event, and goes on if it cannot be decoded.  What
\* is broadcast in memory needs no decoding.
Take(l) ==
    /\ l \in open /\ buf[l] # <<>>
    /\ LET e == Head(buf[l]) IN
          /\ offset' = [offset EXCEPT ![l] = stamp[e]]
          /\ got' = IF bridge = "pubsub" /\ e \in Unknown THEN got
                    ELSE [got EXCEPT ![l] = Append(@, e)]
    /\ buf' = [buf EXCEPT ![l] = Tail(@)]
    /\ UNCHANGED <<bridge, now, stamp, stored, open, history>>

\* The connection of the stream breaks: it ends.  The stream of a table goes on
\* through failures, and the memory channel lives as long as its listener.
End(l) ==
    /\ bridge = "pubsub" /\ l \in open
    /\ open' = open \ {l}
    /\ buf' = [buf EXCEPT ![l] = <<>>]
    /\ UNCHANGED <<bridge, now, stamp, stored, offset, got, history>>

-----------------------------------------------------------------------------
EventsNext ==
    \/ \E e \in Event : Stamp(e) \/ Insert(e) \/ Publish(e)
    \/ \E l \in Listener : Subscribe(l) \/ Fetch(l) \/ Take(l) \/ End(l)
    \/ Tick

EventsSpec == EventsInit /\ [][EventsNext]_eventVars

\* A listener keeps polling its stream (Runtime::run), and not every query fails.
EventsFairness ==
    \A l \in Listener : WF_eventVars(Fetch(l)) /\ WF_eventVars(Take(l))

EventsFairSpec == EventsSpec /\ EventsFairness

-----------------------------------------------------------------------------
(* Properties.                                                             *)

Decodable(e) == bridge = "broadcast" \/ e \notin Unknown

Yielded(l, e) == e \in ToSet(got[l])

\* A twin of e, an event with the very same stamp, was yielded: the rows after
\* that stamp no longer include e, and the stream will never yield it.
Displaced(l, e) == \E f \in Event \ {e} : stamp[f] = stamp[e] /\ Yielded(l, f)

\* The bridge has e while the stream is open and has not got past its stamp.
InTime(l, e) == e \in stored /\ l \in open /\ offset[l] < stamp[e] /\ Decodable(e)

\* A stream yields events in the order of their stamps and none of them twice,
\* although it reads the rows anew for each one (sqlx.rs, receive_events).
YieldsInOrder ==
    \A l \in Listener : \A i, j \in DOMAIN got[l] :
       i < j => stamp[got[l][i]] < stamp[got[l][j]]

\* What a stream skips.  An event that is behind the offset without having been
\* yielded cannot be decoded, or came too late (it was inserted when the offset
\* had passed its stamp) or was pushed out of a full channel (`lost'), or one of
\* its twins was yielded in its place.  So one that cannot be decoded takes no
\* other with it, and of several read at once those with stamps of their own
\* are all yielded (sqlx.rs, receive_events).
SkipsOnlyTwins ==
    \A l \in Listener : \A e \in stored :
       /\ from[l] # Never /\ from[l] < stamp[e] /\ stamp[e] <= offset[l]
       /\ Decodable(e) /\ <<l, e>> \notin lost
       => Yielded(l, e) \/ Displaced(l, e)

\* Of the events in time that have one stamp, an open stream yields one in the
\* end, unless a full broadcast channel pushed the event out (the rounds of
\* receive_events).  An event in time that is alone at its stamp is received.
EachStampIsHeard ==
    \A l \in Listener, e \in Event :
       InTime(l, e) ~> \/ l \notin open
                       \/ Yielded(l, e) \/ Displaced(l, e)
                       \/ bridge = "broadcast" /\ <<l, e>> \in lost

-----------------------------------------------------------------------------
(* What the documentation says and the code does not do.                   *)

\* "will be received by all workers subscribed to the event stream"
\* (backend.rs, send_event), even if only events in time are counted.
SubscribersReceiveAll ==
    \A l \in Listener, e \in Event :
       InTime(l, e) ~> (l \notin open \/ Yielded(l, e))

=============================================================================
