-------------------------------- MODULE Peer --------------------------------
(***************************************************************************)
(* One TCP connection between two nodes, L and R, each running the peer   *)
(* session of src/src/node/peer.rs: a send_queue drained by a writer      *)
(* task, a reader task that first offers every message to the `pending`   *)
(* map of outstanding requests (keyed by the 16-bit message id) and hands *)
(* it to on_message otherwise, and a pinger task. When one of the three   *)
(* tasks ends with an error, tokio::select! drops the others and the      *)
(* server's on_fail hook kills the peer and removes it from the node's    *)
(* peer list (src/src/node/server.rs).                                    *)
(*                                                                         *)
(* Requesters are the tasks that call Peer::request: the pinger of each   *)
(* side and, on L, an IBD GetBlock future. Message::new draws the id at   *)
(* random, so Ids is a small set of model values standing for u16.        *)
(* Every message carries, as history only, the request it was created     *)
(* for (origin), which the code does not have. The connection carries    *)
(* bytes framed as Framing describes; the encoded command carries, as    *)
(* history only, the id it was sent with (hid).                          *)
(***************************************************************************)
EXTENDS Naturals, Sequences, FiniteSets, Framing

CONSTANTS
    Ids,         \* message ids (u16 values)
    Requester,   \* tasks that call Peer::request
    Home,        \* Home[r]: the side whose Peer r sends on
    Pinger,      \* the requesters that are pinger tasks
    MaxRounds,   \* bound on requests per requester
    NoReq        \* model value: no pending entry

Side == {"L", "R"}
Other(s) == IF s = "L" THEN "R" ELSE "L"

ASSUME Home \in [Requester -> Side] /\ Pinger \subseteq Requester
ASSUME MaxRounds \in Nat \ {0} /\ NoReq \notin Requester \X Nat
ASSUME Ids \subseteq 0 .. 65535 /\ VERSION \in 0 .. 65535

Round == 1 .. MaxRounds
Origin == Requester \X Round
Msg == [id : Ids, kind : {"req", "resp"}, origin : Origin]
Cmd == [kind : {"req", "resp"}, origin : Origin, hid : Ids]

VARIABLES
    queue,       \* queue[s]: Peer.send_queue of side s
    wire,        \* wire[s]: the bytes written by s not yet read by Other(s)
    pending,     \* pending[s][id]: the oneshot registered for id (<<r, round>>)
    rstate,      \* rstate[r]: "idle", "waiting" on its oneshot, or "done"
    round,       \* round[r]: number of requests r has made
    reply,       \* reply[r]: <<m>> when r's last request resolved with m,
                 \* <<>> while waiting or when it resolved Disconnected
    session,     \* session[s]: "live", "failed" (select! returned Err), "dead"
    registered,  \* registered[s]: s's Peer is in its node's peer list
    closed       \* the TCP connection is broken

vars == <<queue, wire, pending, rstate, round, reply, session, registered,
          closed>>

Init ==
    /\ queue = [s \in Side |-> <<>>]
    /\ wire = [s \in Side |-> <<>>]
    /\ pending = [s \in Side |-> [i \in Ids |-> NoReq]]
    /\ rstate = [r \in Requester |-> "idle"]
    /\ round = [r \in Requester |-> 0]
    /\ reply = [r \in Requester |-> <<>>]
    /\ session = [s \in Side |-> "live"]
    /\ registered = [s \in Side |-> TRUE]
    /\ closed = FALSE

(* Message::new with the id drawn by random(); make_response keeps the   *)
(* id of the message it answers.                                         *)
NewMessage(id, o) == [id |-> id, kind |-> "req", origin |-> o]
MakeResponse(m) == [m EXCEPT !.kind = "resp"]

(* The command of m as the writer encodes it.                             *)
Command(m) == [kind |-> m.kind, origin |-> m.origin, hid |-> m.id]

(* The message from_stream returns for the bytes w.                      *)
Received(w) ==
    LET f == FromStream(w)
    IN  [id |-> f.id, kind |-> f.command.kind, origin |-> f.command.origin]

(* Peer::send: push onto the send_queue of side s.                       *)
Send(q, s, m) == [q EXCEPT ![s] = Append(@, m)]

(* One of the three tasks returned Err: select! completes with it and   *)
(* spawns on_fail.                                                       *)
TaskFailed(s) == [session EXCEPT ![s] = "failed"]

(* Peer::kill: shutdown set, send_queue cleared.                          *)
Kill(s) ==
    /\ session' = [session EXCEPT ![s] = "dead"]
    /\ queue' = [queue EXCEPT ![s] = <<>>]

(* A pinger's `request(..).await?` failing ends the pinger with Err, so   *)
(* select! returns and the session fails.                                 *)
FailIfPinger(r, s) ==
    session' = IF r \in Pinger /\ session[s] = "live"
               THEN TaskFailed(s) ELSE session

-----------------------------------------------------------------------------
(* Mutant: registers the sender of the caller's previous request.        *)
RequestStaleSender(r, id) ==
    LET s == Home[r]
        old == pending[s][id]
        dropped == old # NoReq /\ rstate[old[1]] = "waiting"
                   /\ round[old[1]] = old[2]
    IN
    /\ rstate[r] # "waiting"
    /\ round[r] < MaxRounds
    /\ r \in Pinger => session[s] = "live"
    /\ pending' = [pending EXCEPT ![s][id] = <<r, round[r]>>]
    /\ queue' = Send(queue, s, NewMessage(id, <<r, round[r] + 1>>))
    /\ round' = [round EXCEPT ![r] = @ + 1]
    /\ rstate' = [q \in Requester |->
                    IF q = r THEN "waiting"
                    ELSE IF dropped /\ q = old[1] THEN "done" ELSE rstate[q]]
    /\ reply' = [reply EXCEPT ![r] = <<>>]
    /\ IF dropped THEN FailIfPinger(old[1], s) ELSE UNCHANGED session
    /\ UNCHANGED <<wire, registered, closed>>

(* Peer::request: register a oneshot under the message id (HashMap insert *)
(* drops the sender already registered under that id, which resolves its  *)
(* waiter with RecvError, i.e. Disconnected) and push the message. A      *)
(* pinger only requests while its session runs; other callers hold a      *)
(* handle and may request on a failed peer.                               *)
Request(r, id) ==
    LET s == Home[r]
        old == pending[s][id]
        dropped == old # NoReq /\ rstate[old[1]] = "waiting"
                   /\ round[old[1]] = old[2]
    IN
    /\ rstate[r] # "waiting"
    /\ round[r] < MaxRounds
    /\ r \in Pinger => session[s] = "live"
    /\ pending' = [pending EXCEPT ![s][id] = <<r, round[r] + 1>>]
    /\ queue' = Send(queue, s, NewMessage(id, <<r, round[r] + 1>>))
    /\ round' = [round EXCEPT ![r] = @ + 1]
    /\ rstate' = [q \in Requester |->
                    IF q = r THEN "waiting"
                    ELSE IF dropped /\ q = old[1] THEN "done" ELSE rstate[q]]
    /\ reply' = [reply EXCEPT ![r] = <<>>]
    /\ IF dropped THEN FailIfPinger(old[1], s) ELSE UNCHANGED session
    /\ UNCHANGED <<wire, registered, closed>>

(* Mutant: the request awaits its oneshot with no timeout.               *)
TimeoutNever(r) == FALSE

(* timeout(10 s, rx) fires: the request resolves Disconnected. The entry  *)
(* stays in `pending`.                                                    *)
Timeout(r) ==
    /\ rstate[r] = "waiting"
    /\ rstate' = [rstate EXCEPT ![r] = "done"]
    /\ FailIfPinger(r, Home[r])
    /\ UNCHANGED <<queue, wire, pending, round, reply, registered, closed>>

(* Writer task: pop the front of send_queue and Message::send it; the     *)
(* write fails once the connection is broken.                             *)
Write(s) ==
    /\ session[s] = "live"
    /\ queue[s] # <<>>
    /\ IF closed
       THEN /\ session' = TaskFailed(s)
            /\ UNCHANGED <<queue, wire>>
       ELSE /\ wire' = [wire EXCEPT ![s] =
                          SendFrame(@, Head(queue[s]).id, Command(Head(queue[s])))]
            /\ queue' = [queue EXCEPT ![s] = Tail(@)]
            /\ UNCHANGED session
    /\ UNCHANGED <<pending, rstate, round, reply, registered, closed>>

(* Peer::handle_incoming for message m read by side s: a pending entry    *)
(* under m.id is removed and m sent to it (lost if its waiter is gone);   *)
(* otherwise on_message answers a request with make_response (same id)    *)
(* and only logs an unsolicited response.                                 *)
HandleIncoming(s, m) ==
    LET e == pending[s][m.id]
        live == e # NoReq /\ rstate[e[1]] = "waiting" /\ round[e[1]] = e[2]
    IN
    IF e # NoReq
    THEN /\ pending' = [pending EXCEPT ![s][m.id] = NoReq]
         /\ rstate' = IF live THEN [rstate EXCEPT ![e[1]] = "done"] ELSE rstate
         /\ reply' = IF live THEN [reply EXCEPT ![e[1]] = <<m>>] ELSE reply
         /\ UNCHANGED queue
    ELSE /\ queue' = IF m.kind = "req"
                     THEN Send(queue, s, MakeResponse(m))
                     ELSE queue
         /\ UNCHANGED <<pending, rstate, reply>>

(* Reader task: Message::from_stream once a whole frame is there, then    *)
(* handle_incoming; a payload that does not decode, or a broken           *)
(* connection, ends the reader with Err.                                  *)
Read(s) ==
    /\ session[s] = "live"
    /\ \/ /\ closed
          /\ session' = TaskFailed(s)
          /\ UNCHANGED <<queue, wire, pending, rstate, reply>>
       \/ /\ ~closed
          /\ FrameComplete(wire[Other(s)])
          /\ wire' = [wire EXCEPT ![Other(s)] = Rest(@)]
          /\ IF Decodes(wire[Other(s)])
             THEN /\ HandleIncoming(s, Received(wire[Other(s)]))
                  /\ UNCHANGED session
             ELSE /\ session' = TaskFailed(s)
                  /\ UNCHANGED <<queue, pending, rstate, reply>>
    /\ UNCHANGED <<round, registered, closed>>

(* The connection breaks (peer crash, reset).                             *)
ConnectionLost ==
    /\ ~closed
    /\ closed' = TRUE
    /\ UNCHANGED <<queue, wire, pending, rstate, round, reply, session,
                   registered>>

(* Mutant: kills the peer but leaves it in node.peers.                   *)
OnFailKillOnly(s) ==
    /\ session[s] = "failed"
    /\ Kill(s)
    /\ UNCHANGED <<wire, pending, rstate, round, reply, registered, closed>>

(* on_fail: Peer::kill (shutdown, clear send_queue), then drop the peer   *)
(* from node.peers.                                                       *)
OnFail(s) ==
    /\ session[s] = "failed"
    /\ Kill(s)
    /\ registered' = [registered EXCEPT ![s] = FALSE]
    /\ UNCHANGED <<wire, pending, rstate, round, reply, closed>>

Next ==
    \/ \E r \in Requester, id \in Ids : Request(r, id)
    \/ \E r \in Requester : Timeout(r)
    \/ \E s \in Side : Write(s) \/ Read(s) \/ OnFail(s)
    \/ ConnectionLost

(* The reader, writer and on_fail tasks are tokio tasks that run; the     *)
(* request timeout is a timer that fires. Requests and the connection     *)
(* breaking are the environment.                                          *)
Fairness ==
    /\ \A s \in Side : WF_vars(Write(s)) /\ WF_vars(Read(s)) /\ WF_vars(OnFail(s))
    /\ \A r \in Requester : WF_vars(Timeout(r))

Spec == Init /\ [][Next]_vars /\ Fairness

-----------------------------------------------------------------------------
TypeOK ==
    /\ queue \in [Side -> Seq(Msg)]
    /\ wire \in [Side -> Seq([byte : Byte] \cup [cmd : Cmd])]
    /\ pending \in [Side -> [Ids -> Origin \cup {NoReq}]]
    /\ rstate \in [Requester -> {"idle", "waiting", "done"}]
    /\ round \in [Requester -> 0 .. MaxRounds]
    /\ reply \in [Requester -> {<<>>} \cup {<<m>> : m \in Msg}]
    /\ session \in [Side -> {"live", "failed", "dead"}]
    /\ registered \in [Side -> BOOLEAN]
    /\ closed \in BOOLEAN

(* Peer::request as seen by its callers: a call returns exactly once,     *)
(* with a message or with Disconnected (its oneshot dropped, or the 10 s  *)
(* timeout), and it does return, even when the connection breaks and no  *)
(* answer will ever come. A request whose HashMap insert drops another    *)
(* caller's oneshot ends that call in the same step.                      *)
RR == INSTANCE RequestReply
        WITH Caller <- Requester,
             status <- [r \in Requester |->
                          IF rstate[r] = "waiting" THEN "waiting" ELSE "idle"]

RequestRefinement == RR!Spec

(* What one side's writer put on the connection and the other side's    *)
(* reader has not yet consumed is always a run of whole frames, each of   *)
(* which from_stream decodes into a command with the very id the writer  *)
(* serialized it with: serialize and from_stream agree on the header     *)
(* layout, byte order and size, across back-to-back frames.               *)
RECURSIVE Intact(_)
Intact(w) ==
    \/ w = <<>>
    \/ /\ FrameComplete(w)
       /\ Decodes(w)
       /\ FromStream(w).id = FromStream(w).command.hid
       /\ Intact(Rest(w))

FramesIntact == \A s \in Side : Intact(wire[s])

(* A broken connection is eventually noticed by both sessions and each    *)
(* node drops the peer from its list, whichever task saw the error.       *)
BrokenPeerDeregistered ==
    closed ~> \A s \in Side : ~registered[s]

(* A request resolved with a message is resolved with the response the    *)
(* other side made to that very request.                                  *)
ResponseMatchesRequest ==
    \A r \in Requester :
        reply[r] # <<>> =>
            reply[r][1].kind = "resp" /\ reply[r][1].origin = <<r, round[r]>>
=============================================================================
