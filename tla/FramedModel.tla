------------------------------ MODULE FramedModel ------------------------------
(***************************************************************************)
(* FramedModelDriver of src/strongwiz/modelkit.py over the framed streams  *)
(* of src/strongwiz/transport.py: propose reserves a sequence number,      *)
(* writes one request, reads one frame, consumes its identity in a bounded *)
(* replay window, and only then looks at what the frame answers.           *)
(*                                                                         *)
(* The state sink is a caller's: it persists what it is given before it    *)
(* returns, as the restart state's contract asks, and when it raises it    *)
(* may or may not have persisted.  The worker at the other end is external *)
(* and may answer any request it has read, any number of times, late, and  *)
(* with content that does not validate.  The driver object may be lost at  *)
(* any moment and reconstructed from the state that was persisted last.    *)
(***************************************************************************)
EXTENDS Integers, Sequences

CONSTANTS
    Requests,     \* reasoning requests
    ReplyIds,     \* message identities a worker chooses
    Capacity,     \* replay_capacity
    Nothing,      \* no call; a frame without a usable message_id
    MaxSequence,  \* bound on reserved sequence numbers
    MaxInbox      \* bound on frames waiting in the inbound stream

VARIABLES
    stage,    \* where propose stands: idle, reserved, written; or down
    current,  \* identity of the request of the call in progress
    memory,   \* the driver's restart_state
    durable,  \* the restart state the sink persisted last
    written,  \* identities of the requests written whole, in order
    inbox,    \* frames in the inbound stream
    torn,     \* the first of them has been read in part
    returned  \* the replies propose has returned

vars == <<stage, current, memory, durable, written, inbox, torn, returned>>

-----------------------------------------------------------------------------
(* Identities, frames and restart states.                                   *)

\* The digest binds the request and the sequence number, driver and session
\* being fixed; without collisions it is the pair.
Identity == [request : Requests, sequence : Nat]
RequestIdentity(q, sequence) == [request |-> q, sequence |-> sequence]

ASSUME FramedAssumption ==
    /\ Capacity \in Nat \ {0}
    /\ Nothing \notin ReplyIds \cup Identity

\* A reply frame: its message_id, what it answers, and whether it is a valid
\* response of this driver with valid drafts.  Its digest names all three.
Reply == [message : ReplyIds \cup {Nothing}, replyTo : Identity, valid : BOOLEAN]
Identified == {r \in Reply : r.message # Nothing}

RestartState == [next : Nat, accepted : Seq(Identified)]
InitialState == [next |-> 0, accepted |-> <<>>]

\* Mutant of Replayed: the guard knows contents only, not identities.
ReplayedContent(r, accepted) == \E i \in DOMAIN accepted : accepted[i] = r

\* check_and_record over a guard filled with the accepted responses: a known
\* identity is refused, for the same content or for another; known content has
\* a known identity, as the identity is part of it.
Replayed(r, accepted) == \E i \in DOMAIN accepted : accepted[i].message = r.message

\* Mutant of Retained: the slice keeps the oldest responses.
RetainedOldest(accepted, r) ==
    LET all == Append(accepted, r)
    IN  IF Len(all) <= Capacity THEN all ELSE SubSeq(all, 1, Capacity)

\* The accepted responses after one more: the last Capacity of them.
Retained(accepted, r) ==
    LET all == Append(accepted, r)
    IN  IF Len(all) <= Capacity THEN all
        ELSE SubSeq(all, Len(all) - Capacity + 1, Len(all))

Reserved(state) == [state EXCEPT !.next = @ + 1]
Accepted(state, r) == [state EXCEPT !.accepted = Retained(@, r)]

\* What FramedModelRestartState's validator asks of a state.  model_copy, which
\* makes every later state, does not run it.
ValidState(state) ==
    /\ Len(state.accepted) <= Capacity
    /\ \A i, j \in DOMAIN state.accepted :
           i # j => state.accepted[i].message # state.accepted[j].message

Init ==
    /\ stage = "idle"
    /\ current = Nothing
    /\ memory = InitialState
    /\ durable = InitialState
    /\ written = <<>>
    /\ inbox = <<>>
    /\ torn = FALSE
    /\ returned = <<>>

-----------------------------------------------------------------------------
(* propose, under the driver's lock: one call at a time.                    *)

streams == <<written, inbox, torn>>

\* The call raises: what it has reserved or consumed stays reserved or consumed.
Raise == stage' = "idle" /\ current' = Nothing

\* Mutant of Reserve: the number is taken in memory, and persisted with the reply.
ReserveInMemory(q) ==
    /\ stage = "idle"
    /\ memory.next < MaxSequence
    /\ stage' = "reserved"
    /\ current' = RequestIdentity(q, memory.next)
    /\ memory' = Reserved(memory)
    /\ UNCHANGED <<durable, streams, returned>>

\* _reserve_request: the sink first, then the driver's own state.
Reserve(q) ==
    /\ stage = "idle"
    /\ memory.next < MaxSequence
    /\ stage' = "reserved"
    /\ current' = RequestIdentity(q, memory.next)
    /\ durable' = Reserved(memory)
    /\ memory' = Reserved(memory)
    /\ UNCHANGED <<streams, returned>>

\* The sink raises after it has persisted; had it not, nothing would change.
ReserveFails ==
    /\ stage = "idle"
    /\ memory.next < MaxSequence
    /\ durable' = Reserved(memory)
    /\ UNCHANGED <<stage, current, memory, streams, returned>>

\* write_frame: all of it, in time.
Write ==
    /\ stage = "reserved"
    /\ stage' = "written"
    /\ written' = Append(written, current)
    /\ UNCHANGED <<current, memory, durable, inbox, torn, returned>>

\* write_frame raises part of the way, or with the frame out and the time up.
WriteFails ==
    /\ stage = "reserved"
    /\ Raise
    /\ written' \in {written, Append(written, current)}
    /\ UNCHANGED <<memory, durable, inbox, torn, returned>>

\* read_frame_record returns the first frame whole.
ReadsFrame(r) ==
    /\ stage = "written"
    /\ inbox # <<>>
    /\ ~torn
    /\ r = Head(inbox)
    /\ inbox' = Tail(inbox)
    /\ UNCHANGED <<written, torn>>

\* The frame has no usable message_id, or the window knows it: the call raises
\* before the window changes.
Refuse ==
    \E r \in {inbox[i] : i \in DOMAIN inbox} :
        /\ ReadsFrame(r)
        /\ \/ r.message = Nothing
           \/ Replayed(r, memory.accepted)
        /\ Raise
        /\ UNCHANGED <<memory, durable, returned>>

Admissible(r) == r.message # Nothing /\ ~Replayed(r, memory.accepted)

\* Mutant of Answers: the correlation with the request is left to the guard.
AnswersAny(r) == r.valid

\* _accept_response_identity records the identity, then propose looks at the
\* content: in_reply_to must be this call's request, and all else must validate.
Answers(r) == r.valid /\ r.replyTo = current

Accept ==
    \E r \in {inbox[i] : i \in DOMAIN inbox} :
        /\ ReadsFrame(r)
        /\ Admissible(r)
        /\ durable' = Accepted(memory, r)
        /\ memory' = Accepted(memory, r)
        /\ returned' = IF Answers(r)
                       THEN Append(returned, [id |-> current, reply |-> r])
                       ELSE returned
        /\ Raise

\* The sink raises while the identity is recorded, before or after persisting.
AcceptFails ==
    \E r \in {inbox[i] : i \in DOMAIN inbox} :
        /\ ReadsFrame(r)
        /\ Admissible(r)
        /\ durable' \in {durable, Accepted(memory, r)}
        /\ Raise
        /\ UNCHANGED <<memory, returned>>

\* The deadline passes, or the stream would block or ends, before any byte of a
\* frame, within the first frame, or with the whole of it read and dropped.
ReadFails ==
    /\ stage = "written"
    /\ ~torn
    /\ Raise
    /\ \/ UNCHANGED <<inbox, torn>>
       \/ inbox # <<>> /\ torn' = TRUE /\ UNCHANGED inbox
       \/ inbox # <<>> /\ inbox' = Tail(inbox) /\ UNCHANGED torn
    /\ UNCHANGED <<memory, durable, written, returned>>

\* Bytes from the middle of a frame are no header: FrameFormatError, or the
\* deadline first.  The read ends inside the same frame, at its end, or inside
\* the next.
ReadMisaligned ==
    /\ stage = "written"
    /\ torn
    /\ Raise
    /\ \/ UNCHANGED <<inbox, torn>>
       \/ inbox' = Tail(inbox) /\ torn' = FALSE
       \/ Len(inbox) > 1 /\ inbox' = Tail(inbox) /\ UNCHANGED torn
    /\ UNCHANGED <<memory, durable, written, returned>>

-----------------------------------------------------------------------------
(* The world around the driver.                                             *)

\* The worker answers a request it has read.
Answer(m, valid) ==
    /\ Len(inbox) < MaxInbox
    /\ \E i \in DOMAIN written :
           inbox' = Append(inbox, [message |-> m, replyTo |-> written[i], valid |-> valid])
    /\ UNCHANGED <<stage, current, memory, durable, written, torn, returned>>

\* The driver is lost at any step, with the call it was in.
Crash ==
    /\ stage # "down"
    /\ stage' = "down"
    /\ current' = Nothing
    /\ UNCHANGED <<memory, durable, streams, returned>>

\* A driver is constructed from the persisted state, over the streams as they
\* are or over those of a new worker.  Filling the guard refuses an invalid state.
Reconstruct ==
    /\ stage = "down"
    /\ ValidState(durable)
    /\ stage' = "idle"
    /\ memory' = durable
    /\ \/ UNCHANGED <<inbox, torn>>
       \/ inbox' = <<>> /\ torn' = FALSE
    /\ UNCHANGED <<current, durable, written, returned>>

Next ==
    \/ \E q \in Requests : Reserve(q)
    \/ ReserveFails
    \/ Write \/ WriteFails
    \/ Refuse \/ Accept \/ AcceptFails
    \/ ReadFails \/ ReadMisaligned
    \/ \E m \in ReplyIds \cup {Nothing}, valid \in BOOLEAN : Answer(m, valid)
    \/ Crash \/ Reconstruct

Spec == Init /\ [][Next]_vars

-----------------------------------------------------------------------------
(* Properties.                                                              *)

\* Type correctness: every recorded response has an identity, and a call is
\* known exactly while propose is between its reservation and its answer.
TypeOK ==
    /\ stage \in {"idle", "reserved", "written", "down"}
    /\ current \in Identity \cup {Nothing}
    /\ (current # Nothing) = (stage \in {"reserved", "written"})
    /\ memory \in RestartState
    /\ durable \in RestartState
    /\ written \in Seq(Identity)
    /\ inbox \in Seq(Reply)
    /\ torn \in BOOLEAN
    /\ torn => inbox # <<>>
    /\ returned \in Seq([id : Identity, reply : Identified])

\* Every state the driver holds or has persisted, none of which was validated,
\* is one a new driver can be constructed from: within the declared window and
\* without a repeated identity, whatever calls, failures and losses led to it.
RestartStatesValid == ValidState(durable) /\ ValidState(memory)

\* No two requests ever leave under one identity: the sequence number is
\* durable before the first byte is out, so a lost driver does not reuse it.
RequestIdsUnique ==
    \A i, j \in DOMAIN written : i < j => written[i].sequence < written[j].sequence

\* propose returns a reply only to the request of its own call, and never the
\* same reply twice: not a late one read by a later call, not a repeated one
\* that has left the replay window, not after the driver was lost.
AnswersAreFresh ==
    /\ \A i \in DOMAIN returned : returned[i].reply.replyTo = returned[i].id
    /\ \A i, j \in DOMAIN returned : i # j => returned[i].reply # returned[j].reply

\* The window that survives a loss still holds every returned reply until
\* Capacity more sequence numbers have been used: each call consumes one
\* identity at most, also when the sink fails or the driver is lost in it.
AnswersRemembered ==
    \A i \in DOMAIN returned :
        durable.next - returned[i].id.sequence <= Capacity =>
            \E j \in DOMAIN durable.accepted : durable.accepted[j] = returned[i].reply
=============================================================================
