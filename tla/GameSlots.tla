----------------------------- MODULE GameSlots -----------------------------
(***************************************************************************)
(* Reading the game's MySQL from a worker: the slots of                    *)
(* src/src/db/gameMysql.ts and the wire client of src/src/db/mysqlWire.ts. *)
(* A query takes a slot or waits for one, opens a socket, goes through     *)
(* handshake, authentication (switched at most once), the statement, the   *)
(* columns and the rows, and gives its slot back on every path.  Packets   *)
(* are abstracted to what the client tells apart; at every read the socket *)
(* may close or the deadline of readDeadline.ts pass, and the server may   *)
(* send an ERR packet.                                                     *)
(***************************************************************************)
EXTENDS Naturals, Sequences, FiniteSets

CONSTANTS
    Queries,   \* calls of gameQuery in one isolate
    Slots,     \* the cap on sockets in flight (6 in the code)
    RowCap     \* the hard read cap of a result (200 in the code)

VARIABLES
    inFlight,  \* the counter
    waiters,   \* the queue of calls waiting for a slot
    at,        \* where a call is
    rows,      \* rows read so far
    switched,  \* the calls whose authentication was switched
    faults     \* (history) where the call met a fault

slotVars == <<inFlight, waiters, at, rows, switched, faults>>

None == "none"
Reading == {"handshake", "auth", "query", "columns", "rows"}
InSocket == {"connect"} \cup Reading
Settled == {"returned", "wrote", "threw"}

Init ==
    /\ inFlight = 0 /\ waiters = <<>> /\ switched = {}
    /\ at = [q \in Queries |-> "idle"]
    /\ rows = [q \in Queries |-> 0]
    /\ faults = [q \in Queries |-> None]

-----------------------------------------------------------------------------
(* acquireSlot: the counter is raised by the call itself, a waiter raises   *)
(* it only when it runs again.                                              *)
acquireSlot(q) ==
    /\ at[q] = "idle"
    /\ IF inFlight < Slots
       THEN inFlight' = inFlight + 1 /\ at' = [at EXCEPT ![q] = "connect"] /\ UNCHANGED waiters
       ELSE waiters' = Append(waiters, q) /\ at' = [at EXCEPT ![q] = "waiting"] /\ UNCHANGED inFlight
    /\ UNCHANGED <<rows, switched, faults>>
Resume(q) ==
    /\ at[q] = "woken"
    /\ inFlight' = inFlight + 1 /\ at' = [at EXCEPT ![q] = "connect"]
    /\ UNCHANGED <<waiters, rows, switched, faults>>

(* Mutant: a query that throws gives its slot back without waking anybody.  *)
ReleaseQuietly(q, result) ==
    /\ inFlight' = inFlight - 1
    /\ IF waiters = <<>> \/ result = "threw" THEN at' = [at EXCEPT ![q] = result] /\ UNCHANGED waiters
       ELSE /\ at' = [at EXCEPT ![q] = result, ![Head(waiters)] = "woken"]
            /\ waiters' = Tail(waiters)

(* workerQuery's finally: releaseSlot wakes the first waiter.               *)
releaseSlot(q, result) ==
    /\ inFlight' = inFlight - 1
    /\ IF waiters = <<>> THEN at' = [at EXCEPT ![q] = result] /\ UNCHANGED waiters
       ELSE /\ at' = [at EXCEPT ![q] = result, ![Head(waiters)] = "woken"]
            /\ waiters' = Tail(waiters)

-----------------------------------------------------------------------------
GoOn(q, where) ==
    at' = [at EXCEPT ![q] = where] /\ UNCHANGED <<inFlight, waiters, faults>>

(* connect, then each read: refused, closed mid-packet, or past deadline.   *)
SocketFails(q) ==
    /\ at[q] \in InSocket
    /\ faults' = [faults EXCEPT ![q] = "socket"]
    /\ releaseSlot(q, "threw")
    /\ UNCHANGED <<rows, switched>>
Connect(q) ==
    /\ at[q] = "connect" /\ GoOn(q, "handshake") /\ UNCHANGED <<rows, switched>>

(* Mutant: an ERR packet after the columns is taken for their end.          *)
ErrAfterColumnsIsTheirEnd(q) ==
    IF at[q] \in {"columns", "rows"} THEN releaseSlot(q, "returned") ELSE releaseSlot(q, "threw")

(* What an ERR packet does: it throws, except among the rows, where it ends *)
(* the result like an EOF packet.                                           *)
onErr(q) ==
    IF at[q] = "rows" THEN releaseSlot(q, "returned") ELSE releaseSlot(q, "threw")
ErrPacket(q) ==
    /\ at[q] \in Reading
    /\ faults' = [faults EXCEPT ![q] = at[q]]
    /\ onErr(q)
    /\ UNCHANGED <<rows, switched>>

(* The handshake, then the answer to the client's own: an unknown plugin or *)
(* a first packet that is neither OK nor a switch is refused.               *)
Handshake(q) ==
    /\ at[q] = "handshake" /\ GoOn(q, "auth") /\ UNCHANGED <<rows, switched>>
AuthSwitch(q) ==
    /\ at[q] = "auth" /\ q \notin switched
    /\ switched' = switched \cup {q}
    /\ GoOn(q, "auth") /\ UNCHANGED rows
AuthRefused(q) ==
    /\ at[q] = "auth"
    /\ faults' = [faults EXCEPT ![q] = "auth"]
    /\ releaseSlot(q, "threw")
    /\ UNCHANGED <<rows, switched>>
AuthOk(q) ==
    /\ at[q] = "auth" /\ GoOn(q, "query") /\ UNCHANGED <<rows, switched>>

(* The statement: an OK packet is a write's, otherwise columns follow.      *)
WriteOk(q) ==
    /\ at[q] = "query" /\ releaseSlot(q, "wrote") /\ UNCHANGED <<rows, switched, faults>>
Columns(q) ==
    /\ \/ at[q] = "query" /\ GoOn(q, "columns")
       \/ at[q] = "columns" /\ GoOn(q, "rows")
    /\ UNCHANGED <<rows, switched>>

Row(q) ==
    /\ at[q] = "rows" /\ rows[q] < RowCap
    /\ rows' = [rows EXCEPT ![q] = @ + 1]
    /\ IF rows[q] + 1 = RowCap THEN releaseSlot(q, "returned")
       ELSE UNCHANGED <<at, inFlight, waiters>>
    /\ UNCHANGED <<switched, faults>>
Eof(q) ==
    /\ at[q] = "rows" /\ releaseSlot(q, "returned") /\ UNCHANGED <<rows, switched, faults>>

(* The caller asks again.                                                   *)
Again(q) ==
    /\ at[q] \in Settled
    /\ at' = [at EXCEPT ![q] = "idle"] /\ rows' = [rows EXCEPT ![q] = 0]
    /\ switched' = switched \ {q} /\ faults' = [faults EXCEPT ![q] = None]
    /\ UNCHANGED <<inFlight, waiters>>

wireQuery(q) ==
    \/ Connect(q) \/ Handshake(q) \/ AuthSwitch(q) \/ AuthRefused(q) \/ AuthOk(q)
    \/ WriteOk(q) \/ Columns(q) \/ Row(q) \/ Eof(q) \/ ErrPacket(q) \/ SocketFails(q)
Next ==
    \E q \in Queries : acquireSlot(q) \/ Resume(q) \/ wireQuery(q) \/ Again(q)
Spec == Init /\ [][Next]_slotVars

-----------------------------------------------------------------------------
SlotTypeOK ==
    /\ inFlight \in 0..Cardinality(Queries)
    /\ waiters \in Seq(Queries)
    /\ at \in [Queries -> {"idle", "waiting", "woken"} \cup InSocket \cup Settled]
    /\ rows \in [Queries -> 0..RowCap]
    /\ switched \subseteq Queries
    /\ faults \in [Queries -> Reading \cup {"socket", None}]

(* No wake-up is lost: the counter is the number of sockets held, and as    *)
(* long as a call waits, the sockets held and the calls already woken make  *)
(* up the cap, so that somebody will wake it.                               *)
NoIdleSlot ==
    /\ inFlight = Cardinality({q \in Queries : at[q] \in InSocket})
    /\ waiters # <<>> =>
          inFlight + Cardinality({q \in Queries : at[q] = "woken"}) >= Slots

(* gameQuery: an answer is never a failure that was swallowed.  The one     *)
(* exception is the code's own: an ERR packet among the rows, which returns *)
(* the rows read so far.                                                    *)
FailureIsThrown ==
    \A q \in Queries : at[q] \in {"returned", "wrote"} => faults[q] \in {None, "rows"}
=============================================================================
