------------------------------ MODULE DbSignals ------------------------------
(***************************************************************************)
(* The signal mailboxes of the database store: SetSignal and PollSignals   *)
(* of internal/store/db.go over the table signals, as the REST endpoints   *)
(* and the WebSocket handler call them.                                    *)
(*                                                                         *)
(* Each is two statements without a transaction: SetSignal looks the peer  *)
(* up and inserts, PollSignals selects the peer's rows and then deletes    *)
(* them, by peer and not by row, and does not look at the error of the     *)
(* DELETE.  calls[c] is what call c carries from one to the next.          *)
(*                                                                         *)
(* No row leaves the table in any other way: Delete of a peer keeps them,  *)
(* and the statement of DeleteExpiredChunks on signals names a column the  *)
(* table does not have on SQLite and is empty on PostgreSQL.               *)
(***************************************************************************)
EXTENDS Integers, FiniteSets

CONSTANTS
    PeerIDs,      \* peer ids
    Calls,        \* request goroutines
    Signals,      \* signals ever sent (a bound), each at most once
    To,           \* the target of each signal
    Incomplete,   \* the signals without a from or a type
    MaxReceipts,  \* bound: a DELETE fails only for signals received less often
    None          \* no call

\* A call between two statements: SetSignal before its INSERT, PollSignals
\* before its DELETE and before its answer.
Call == [op : {"set"}, sig : Signals]
          \cup [op : {"poll"}, peer : PeerIDs, sigs : SUBSET Signals]
          \cup [op : {"answer"}, sigs : SUBSET Signals]

ASSUME DbSignalsAssumption ==
    /\ MaxReceipts \in Nat
    /\ To \in [Signals -> PeerIDs]
    /\ Incomplete \subseteq Signals
    /\ None \notin Call

VARIABLES
    known,      \* the peers with an unexpired row
    rows,       \* table signals
    calls,      \* per goroutine: None, or the call it is in the middle of
    sent,       \* the signals a SetSignal was called with
    received,   \* how often a client received each signal
    stored,     \* ghost: signals ever inserted
    missed,     \* ghost: inserted while a poll was between its statements, or
                \* left out by a SELECT whose scan ended early
    again,      \* ghost: still in the table when a poll that had selected them
                \* answered, or when a second one selected them
    dropped     \* ghost: in an answer nobody received

sgvars == <<known, rows, calls, sent, received, stored, missed, again, dropped>>

SignalsInit ==
    /\ known = {}
    /\ rows = {}
    /\ calls = [c \in Calls |-> None]
    /\ sent = {}
    /\ received = [x \in Signals |-> 0]
    /\ stored = {}
    /\ missed = {}
    /\ again = {}
    /\ dropped = {}

At(c, op) == calls[c] # None /\ calls[c].op = op

Set(c, call) == calls' = [calls EXCEPT ![c] = call]

Of(p) == {x \in rows : To[x] = p}

\* The polls of peer p between their SELECT and their DELETE.
Open(p) == {c \in Calls : At(c, "poll") /\ calls[c].peer = p}

-----------------------------------------------------------------------------
\* Upsert, or a Heartbeat of an expired peer.
PeerKnown(p) ==
    /\ p \notin known
    /\ known' = known \cup {p}
    /\ UNCHANGED <<rows, calls, sent, received, stored, missed, again, dropped>>

\* Delete, or the TTL has run out.
PeerGone(p) ==
    /\ p \in known
    /\ known' = known \ {p}
    /\ UNCHANGED <<rows, calls, sent, received, stored, missed, again, dropped>>

\* The checks and getPeerByID; a signal that is refused is not stored.
SetSignal(c, x) ==
    /\ calls[c] = None
    /\ x \notin sent
    /\ sent' = sent \cup {x}
    /\ IF x \notin Incomplete /\ To[x] \in known
       THEN Set(c, [op |-> "set", sig |-> x])
       ELSE UNCHANGED calls
    /\ UNCHANGED <<known, rows, received, stored, missed, again, dropped>>

\* INSERT INTO signals; the peer may have gone.
InsertSignal(c) ==
    /\ At(c, "set")
    /\ LET x == calls[c].sig
       IN  /\ rows' = rows \cup {x}
           /\ stored' = stored \cup {x}
           /\ missed' = IF Open(To[x]) # {} THEN missed \cup {x} ELSE missed
    /\ Set(c, None)
    /\ UNCHANGED <<known, sent, received, again, dropped>>

\* SELECT ... WHERE peer_id.
PollSignals(c, p) ==
    /\ calls[c] = None
    /\ again' = again \cup {x \in Of(p) : \E d \in Open(p) : x \in calls[d].sigs}
    /\ Set(c, [op |-> "poll", peer |-> p, sigs |-> Of(p)])
    /\ UNCHANGED <<known, rows, sent, received, stored, missed, dropped>>

\* The scan of the rows ends early; rows.Err is not called, and the poll goes
\* on as if the rows it has read were all.
PollCutShort(c, p, sigs) ==
    /\ calls[c] = None
    /\ sigs \subseteq Of(p)
    /\ sigs # Of(p)
    /\ missed' = missed \cup (Of(p) \ sigs)
    /\ again' = again \cup {x \in sigs : \E d \in Open(p) : x \in calls[d].sigs}
    /\ Set(c, [op |-> "poll", peer |-> p, sigs |-> sigs])
    /\ UNCHANGED <<known, rows, sent, received, stored, dropped>>

Answering(c) == [op |-> "answer", sigs |-> calls[c].sigs]

\* Mutant: the whole table goes.
Remaining_None(p) == {}

\* Mutant: nothing is deleted.
Remaining_All(p) == rows

\* DELETE FROM signals WHERE peer_id: whatever is there by now.
Remaining(p) == rows \ Of(p)

DeleteSignals(c) ==
    /\ At(c, "poll")
    /\ rows' = Remaining(calls[c].peer)
    /\ Set(c, Answering(c))
    /\ UNCHANGED <<known, sent, received, stored, missed, again, dropped>>

\* The DELETE fails and the answer is given all the same.
DeleteFailed(c) ==
    /\ At(c, "poll")
    /\ \A x \in calls[c].sigs : received[x] < MaxReceipts
    /\ again' = again \cup calls[c].sigs
    /\ Set(c, Answering(c))
    /\ UNCHANGED <<known, rows, sent, received, stored, missed, dropped>>

\* The client gets the signals ...
Answered(c) ==
    /\ At(c, "answer")
    /\ received' = [x \in Signals |->
                       IF x \in calls[c].sigs THEN received[x] + 1 ELSE received[x]]
    /\ Set(c, None)
    /\ UNCHANGED <<known, rows, sent, stored, missed, again, dropped>>

Unanswered(cs) == UNION {calls[c].sigs : c \in {d \in cs : At(d, "answer")}}

\* ... or the calls cs end before that: a statement fails, the client has
\* gone, the process stops.
Break(cs) ==
    /\ calls' = [c \in Calls |-> IF c \in cs THEN None ELSE calls[c]]
    /\ dropped' = dropped \cup Unanswered(cs)
    /\ UNCHANGED <<known, rows, sent, received, stored, missed, again>>

-----------------------------------------------------------------------------
CallStep(c) ==
    \/ \E x \in Signals : SetSignal(c, x)
    \/ InsertSignal(c)
    \/ \E p \in PeerIDs : PollSignals(c, p)
    \/ \E p \in PeerIDs, sigs \in SUBSET Signals : PollCutShort(c, p, sigs)
    \/ DeleteSignals(c)
    \/ DeleteFailed(c)
    \/ Answered(c)
    \/ calls[c] # None /\ Break({c})

SignalsNext ==
    \/ \E c \in Calls : CallStep(c)
    \/ \E p \in PeerIDs : PeerKnown(p) \/ PeerGone(p)

SignalsSpec == SignalsInit /\ [][SignalsNext]_sgvars

-----------------------------------------------------------------------------
InFlight(x) == \E c \in Calls : /\ calls[c] # None
                                /\ calls[c].op \in {"poll", "answer"}
                                /\ x \in calls[c].sigs

\* A stored signal is not lost but in three ways: it was inserted between the
\* SELECT and the DELETE of a poll of its peer, a poll of its peer did not read
\* all the rows it deleted, or the answer that carried it was lost.  In
\* particular no other peer's poll, no failed DELETE, no stop of the server and
\* no deletion of the peer loses one.
NoSilentLoss ==
    \A x \in stored \ rows :
        received[x] > 0 \/ InFlight(x) \/ x \in missed \/ x \in dropped

\* A signal is received twice in two cases only: a second poll selected it
\* before the first had deleted it, or the DELETE of a poll that answered had
\* failed.
NoRepeat == \A x \in Signals : received[x] > 1 => x \in again
=============================================================================
