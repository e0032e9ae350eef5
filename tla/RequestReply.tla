---------------------------- MODULE RequestReply ----------------------------
(***************************************************************************)
(* What a request/response call promises its caller, abstractly: a call  *)
(* made by an idle caller is outstanding until it returns, it returns    *)
(* exactly once, and it does return. Peer::request (src/src/node/peer.rs) *)
(* and Client::fetch (src/src/api/client.rs) both implement it; Peer and  *)
(* ApiClient each instantiate this module with a refinement mapping.     *)
(*                                                                         *)
(* The outcome (a message, Disconnected, a stream error) is not part of  *)
(* the promise: which message a call returns with is where the two       *)
(* implementations go wrong, and their own modules state that.           *)
(***************************************************************************)
CONSTANTS Caller

VARIABLES status   \* status[c]: "idle" or "waiting" on an outstanding call

Init == status = [c \in Caller |-> "idle"]

(* c makes a call.                                                        *)
Call(c) ==
    /\ status[c] = "idle"
    /\ status' = [status EXCEPT ![c] = "waiting"]

(* c's outstanding call returns, with whatever outcome.                   *)
Return(c) ==
    /\ status[c] = "waiting"
    /\ status' = [status EXCEPT ![c] = "idle"]

(* One step in which c calls and d's outstanding call returns: a call    *)
(* that, as it is made, ends another one.                                *)
CallEnding(c, d) ==
    /\ c # d
    /\ status[c] = "idle"
    /\ status[d] = "waiting"
    /\ status' = [status EXCEPT ![c] = "waiting", ![d] = "idle"]

Next == \E c \in Caller : Call(c) \/ Return(c) \/ \E d \in Caller : CallEnding(c, d)

(* An outstanding call is never left waiting forever.                     *)
Spec == Init /\ [][Next]_status /\ \A c \in Caller : WF_status(Return(c))
=============================================================================
