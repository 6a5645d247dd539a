---------------------------- MODULE EventStream ----------------------------
(***************************************************************************)
(* GET /api/v2/events/stream: the connections of                           *)
(* src/src/api/expansion/sse/stream.ts and the snapshots that those of one *)
(* isolate share in sse/poller.ts.  A connection is admitted under two     *)
(* caps, replays the frames its Last-Event-ID is missing, then polls: each *)
(* poll pulls the topic's snapshot at most once per interval, and whoever  *)
(* finds it different from the last framed one makes the next frame.  One  *)
(* topic per connection; the keepalive is one more write that may stall.   *)
(***************************************************************************)
EXTENDS Naturals, Sequences, FiniteSets

CONSTANTS
    Conns,       \* connections
    Ips,         \* their addresses
    Topics,      \* "status", whose snapshot is a state, and "events", a tail of rows
    PerIp,       \* MAX_STREAMS_PER_IP
    PerIsolate,  \* MAX_STREAMS_PER_ISOLATE
    RingSize,    \* RING_SIZE
    Interval,    \* intervalMs
    MaxClock, MaxSeq   \* bounds

VARIABLES
    now,
    openTotal, openByIp,   \* the counters of live streams
    source,    \* per topic, what its database holds: a state, or rows not yet pulled
    topic,     \* per topic, the state the isolate shares
    conn,      \* per connection: where it is, its address, its topic
    replay,    \* the missed frames a connection still has to write
    got        \* (history) the frames it wrote

streamVars == <<now, openTotal, openByIp, source, topic, conn, replay, got>>

None == "none"
NoSnapshot == [value |-> 0, at |-> 0, set |-> FALSE]
Closed == [at |-> "closed", ip |-> None, topic |-> None]
Live == {"replay", "poll", "pulling", "frame", "wait"}

Init ==
    /\ now = 0 /\ openTotal = 0
    /\ openByIp = [i \in Ips |-> 0]
    /\ source = [t \in Topics |-> 0]
    /\ topic = [t \in Topics |-> [inFlight |-> FALSE, requested |-> 0, last |-> NoSnapshot,
                                  framed |-> 0, seq |-> 0, ring |-> <<>>]]
    /\ conn = [c \in Conns |-> Closed]
    /\ replay = [c \in Conns |-> <<>>]
    /\ got = [c \in Conns |-> <<>>]

-----------------------------------------------------------------------------
At(c, where) == conn' = [conn EXCEPT ![c].at = where]

acquireStream(i) ==
    /\ openTotal' = openTotal + 1
    /\ openByIp' = [openByIp EXCEPT ![i] = @ + 1]

(* Mutant: a stream that ends by a stalled write is not released.           *)
ReleaseAtTheCapOnly(c, how) ==
    /\ conn' = [conn EXCEPT ![c] = Closed]
    /\ replay' = [replay EXCEPT ![c] = <<>>] /\ got' = [got EXCEPT ![c] = <<>>]
    /\ IF how = "cap"
       THEN openTotal' = openTotal - 1 /\ openByIp' = [openByIp EXCEPT ![conn[c].ip] = @ - 1]
       ELSE UNCHANGED <<openTotal, openByIp>>

(* pump settles: the finally of the handler, releaseStream included.        *)
releaseStream(c, how) ==
    /\ conn' = [conn EXCEPT ![c] = Closed]
    /\ replay' = [replay EXCEPT ![c] = <<>>] /\ got' = [got EXCEPT ![c] = <<>>]
    /\ openTotal' = openTotal - 1
    /\ openByIp' = [openByIp EXCEPT ![conn[c].ip] = @ - 1]

(* The frames above seen.  The ring ascends (FramesRise), so they are its   *)
(* end.                                                                     *)
framesAfter(t, seen) ==
    LET ring == topic[t].ring
        upTo == {k \in 1..Len(ring) : ring[k].seq <= seen} IN
    SubSeq(ring, Cardinality(upTo) + 1, Len(ring))

(* GET: the caps, then the counters, in one turn of the event loop.  An     *)
(* unknown topic is refused before; a refused request changes nothing.      *)
Open(c, i, t, seen) ==
    /\ conn[c] = Closed
    /\ openByIp[i] < PerIp /\ openTotal < PerIsolate
    /\ acquireStream(i)
    /\ conn' = [conn EXCEPT ![c] = [at |-> "replay", ip |-> i, topic |-> t]]
    /\ replay' = [replay EXCEPT ![c] = framesAfter(t, seen)]
    /\ UNCHANGED <<now, source, topic, got>>

Replay(c) ==
    /\ conn[c].at = "replay"
    /\ IF replay[c] = <<>> THEN At(c, "poll") /\ UNCHANGED <<replay, got>>
       ELSE /\ got' = [got EXCEPT ![c] = Append(@, Head(replay[c]).seq)]
            /\ replay' = [replay EXCEPT ![c] = Tail(@)]
            /\ UNCHANGED conn
    /\ UNCHANGED <<now, openTotal, openByIp, source, topic>>

(* sharedSnapshot: joins the pull in flight, takes the snapshot of this     *)
(* interval, or pulls; the window starts when the pull was asked for.       *)
Fresh(t) == topic[t].last.set /\ now - topic[t].last.at < Interval
sharedSnapshot(c) ==
    LET t == conn[c].topic IN
    /\ conn[c].at \in {"poll", "wait"}
    /\ IF topic[t].inFlight THEN At(c, "pulling") /\ UNCHANGED topic
       ELSE IF Fresh(t) THEN At(c, "frame") /\ UNCHANGED topic
       ELSE /\ At(c, "pulling")
            /\ topic' = [topic EXCEPT ![t].inFlight = TRUE, ![t].requested = now]
    /\ UNCHANGED <<now, openTotal, openByIp, source, replay, got>>

(* The fetch settles for everybody who joined it.  The events fetch moves   *)
(* its cursor and answers a failure with no rows; a status that cannot be   *)
(* read keeps the last snapshot and everybody's frame is suppressed.        *)
Joined(t) == {c \in Conns : conn[c].at = "pulling" /\ conn[c].topic = t}
Settle(t, where) ==
    conn' = [c \in Conns |-> IF c \in Joined(t) THEN [conn[c] EXCEPT !.at = where] ELSE conn[c]]
Fetched(t, value) ==
    /\ topic' = [topic EXCEPT ![t].inFlight = FALSE,
                              ![t].last = [value |-> value, at |-> topic[t].requested, set |-> TRUE]]
    /\ Settle(t, "frame")
fetch(t) ==
    /\ topic[t].inFlight
    /\ \/ Fetched(t, source[t]) /\ source' = IF t = "events" THEN [source EXCEPT ![t] = 0] ELSE source
       \/ t = "events" /\ Fetched(t, 0) /\ UNCHANGED source
       \/ /\ t # "events" /\ topic' = [topic EXCEPT ![t].inFlight = FALSE]
          /\ Settle(t, "wait") /\ UNCHANGED source
    /\ UNCHANGED <<now, openTotal, openByIp, replay, got>>

(* frameIfChanged and the write of its frame, which a stalled consumer      *)
(* turns into the end of the stream.                                        *)
same(t) == IF t = "events" THEN topic[t].last.value = 0
           ELSE topic[t].framed = topic[t].last.value
Changed(t) == topic[t].last.set /\ (topic[t].ring = <<>> \/ ~same(t))

(* Mutant: the ring is measured before the new frame is in it.              *)
LastOfBefore(s, n) == SubSeq(s, IF Len(s) > n + 1 THEN Len(s) - n ELSE 1, Len(s))
LastOf(s, n) == SubSeq(s, IF Len(s) > n THEN Len(s) - n + 1 ELSE 1, Len(s))

(* Mutant: the new frame takes the number of the last one.                  *)
NextSeqForgotten(t) == IF topic[t].seq = 0 THEN 1 ELSE topic[t].seq
NextSeq(t) == topic[t].seq + 1

frameIfChanged(c) ==
    LET t == conn[c].topic
        n == NextSeq(t) IN
    /\ conn[c].at = "frame"
    /\ IF Changed(t)
       THEN /\ topic[t].seq < MaxSeq
            /\ topic' = [topic EXCEPT ![t].seq = n, ![t].framed = topic[t].last.value,
                                      ![t].ring = LastOf(Append(@, [seq |-> n]), RingSize)]
            /\ got' = [got EXCEPT ![c] = Append(@, n)]
       ELSE UNCHANGED <<topic, got>>
    /\ At(c, "wait")
    /\ UNCHANGED <<now, openTotal, openByIp, source, replay>>

(* Any write may stall or find the client gone; a frame made for it stays   *)
(* in the ring.  After CONNECTION_CAP_MS the stream says bye.               *)
Stall(c) ==
    /\ conn[c].at \in {"replay", "wait"}
    /\ releaseStream(c, "stall")
    /\ UNCHANGED <<now, source, topic>>
Bye(c) ==
    /\ conn[c].at = "wait"
    /\ releaseStream(c, "cap")
    /\ UNCHANGED <<now, source, topic>>

SourceMoves(t) ==
    /\ source' = [source EXCEPT ![t] = 1 - @]
    /\ t = "events" => source[t] = 0
    /\ UNCHANGED <<now, openTotal, openByIp, topic, conn, replay, got>>
Tick ==
    /\ now < MaxClock /\ now' = now + 1
    /\ UNCHANGED <<openTotal, openByIp, source, topic, conn, replay, got>>

Next ==
    \/ \E c \in Conns : Replay(c) \/ sharedSnapshot(c) \/ frameIfChanged(c) \/ Stall(c) \/ Bye(c)
    \/ \E c \in Conns, i \in Ips, t \in Topics, seen \in 0..MaxSeq : Open(c, i, t, seen)
    \/ \E t \in Topics : fetch(t) \/ SourceMoves(t)
    \/ Tick
Spec == Init /\ [][Next]_streamVars

-----------------------------------------------------------------------------
StreamTypeOK ==
    /\ now \in 0..MaxClock /\ openTotal \in Nat
    /\ \A i \in Ips : openByIp[i] \in Nat
    /\ \A c \in Conns : conn[c].at \in Live \cup {"closed"}
    /\ \A t \in Topics : Len(topic[t].ring) <= RingSize /\ topic[t].seq \in 0..MaxSeq

(* The counters are the live streams, whichever way the others ended, so    *)
(* the caps count live streams and an address never stays locked out.       *)
CountersAreLive ==
    /\ openTotal = Cardinality({c \in Conns : conn[c].at # "closed"})
    /\ openTotal <= PerIsolate
    /\ \A i \in Ips : /\ openByIp[i] = Cardinality({c \in Conns : conn[c].ip = i})
                      /\ openByIp[i] <= PerIp

(* The ids a connection is sent rise strictly, however its replay and its   *)
(* polls interleave with the frames that other connections make: what it    *)
(* resumes from next is what it saw last.                                   *)
FramesRise ==
    \A c \in Conns : \A j, k \in 1..Len(got[c]) : j < k => got[c][j] < got[c][k]
=============================================================================
