-------------------------- MODULE AgentConnection --------------------------
(***************************************************************************)
(* Requests to an agent over a connection (src/server/libnxsrv/agent.cpp): *)
(* a thread generates a request ID, sends the request and waits for the    *)
(* response and, for a command with output, for one output message after   *)
(* the other.  The receiver puts what the agent sends into the wait queue. *)
(* Responses may come late, after the timeout of the request, or not at    *)
(* all; the connection may break and be established again.                 *)
(***************************************************************************)
EXTENDS MsgWaitQueue

CONSTANTS
    MaxRequests,    \* bound: requests made
    OutputLength    \* number of output messages of a command

ASSUME NumberAssumption == MaxRequests \in Nat /\ OutputLength \in Nat \ {0}

Request == 1..MaxRequests
\* Message n of the agent for a request: 0 is the response, the others are the output,
\* the last of them the end of the sequence.  ok: the response is ERR_SUCCESS.
\* rq is the request the agent answers, for the properties only.
Messages == [code : {"completed", "output"}, id : Nat, rq : Request, n : 0..OutputLength, ok : BOOLEAN]

ASSUME NoneAssumption == None \notin Messages

VARIABLES
    connected,      \* m_isConnected and the channel
    requestId,      \* m_requestId
    started,        \* number of requests made
    idOf,           \* request -> its ID
    current,        \* thread -> its request
    withOutput,     \* requests that want the output of the command
    stage,          \* thread -> the code it waits for
    pending,        \* request -> number of the next message of the agent, -1 if none follows
    got,            \* thread -> output messages given to the callback of its last call
    outcome,        \* thread -> result of its last call
    expired         \* history: current requests that lost an unclaimed message by expiration

requestVars == <<requestId, started, idOf, current, withOutput>>
vars == <<unclaimed, waiters, want, slot, pc, result, connected, requestId, started, idOf, current,
          withOutput, stage, pending, got, outcome, expired>>

Init ==
    /\ QueueInit
    /\ connected = TRUE /\ requestId = 0 /\ started = 0
    /\ idOf = [r \in Request |-> 0]
    /\ current = [c \in Client |-> 0] /\ withOutput = {}
    /\ stage = [c \in Client |-> "completed"]
    /\ pending = [r \in Request |-> -1]
    /\ got = [c \in Client |-> <<>>]
    /\ outcome = [c \in Client |-> "none"]
    /\ expired = {}

-----------------------------------------------------------------------------
(* executeCommand; requests without output, like getParameter, are its first half *)

\* Mutant: the number is read before it is incremented by another thread
BugGenerateRequestId == IF requestId = 0 THEN 1 ELSE requestId

\* InterlockedIncrement
GenerateRequestId == requestId + 1

Begin(c, output) ==
    /\ pc[c] = "idle" /\ connected /\ started < MaxRequests
    /\ started' = started + 1
    /\ requestId' = GenerateRequestId
    /\ idOf' = [idOf EXCEPT ![started'] = GenerateRequestId]
    /\ current' = [current EXCEPT ![c] = started']
    /\ withOutput' = IF output THEN withOutput \cup {started'} ELSE withOutput
    /\ got' = [got EXCEPT ![c] = <<>>]
    /\ outcome' = [outcome EXCEPT ![c] = "none"]
    /\ expired' = expired \ {current[c]}
    /\ stage' = [stage EXCEPT ![c] = "completed"]
    /\ pc' = [pc EXCEPT ![c] = "send"]
    /\ UNCHANGED <<unclaimed, waiters, want, slot, result, connected, pending>>

\* The call returns
Return(c, rcc) ==
    /\ outcome' = [outcome EXCEPT ![c] = rcc]
    /\ pc' = [pc EXCEPT ![c] = "idle"]

\* sendMessage; it fails without a channel and may fail with one
Send(c) ==
    /\ pc[c] = "send"
    /\ \/ /\ connected
          /\ pending' = [pending EXCEPT ![current[c]] = 0]
          /\ pc' = [pc EXCEPT ![c] = "wait"]
          /\ UNCHANGED outcome
       \/ Return(c, "broken") /\ UNCHANGED pending
    /\ UNCHANGED <<unclaimed, waiters, want, slot, result, connected, requestVars, stage, got, expired>>

Wait(c) ==
    /\ pc[c] = "wait"
    /\ WaitBegin(c, [code |-> stage[c], id |-> idOf[current[c]]])
    /\ UNCHANGED <<connected, requestVars, stage, pending, got, outcome, expired>>

WakeUp(c) ==
    /\ WaitEnd(c) \/ WaitLeave(c)
    /\ UNCHANGED <<connected, requestVars, stage, pending, got, outcome, expired>>

\* Mutant: a timeout ends the output like the end of the sequence
BugTimeout(c) ==
    /\ pc[c] = "returned" /\ result[c] = None
    /\ Return(c, IF stage[c] = "output" THEN "success" ELSE "timeout")
    /\ UNCHANGED <<unclaimed, waiters, want, slot, result, connected, requestVars, stage, pending, got,
                   expired>>

Timeout(c) ==
    /\ pc[c] = "returned" /\ result[c] = None
    /\ Return(c, "timeout")
    /\ UNCHANGED <<unclaimed, waiters, want, slot, result, connected, requestVars, stage, pending, got,
                   expired>>

Response(c) ==
    /\ pc[c] = "returned" /\ result[c] # None /\ stage[c] = "completed"
    /\ IF current[c] \in withOutput /\ result[c].ok
       THEN /\ stage' = [stage EXCEPT ![c] = "output"]
            /\ pc' = [pc EXCEPT ![c] = "wait"]
            /\ UNCHANGED outcome
       ELSE Return(c, IF result[c].ok THEN "success" ELSE "error") /\ UNCHANGED stage
    /\ result' = [result EXCEPT ![c] = None]
    /\ UNCHANGED <<unclaimed, waiters, want, slot, connected, requestVars, pending, got, expired>>

\* Mutant: the message is kept after it has been handled
BugOutput(c) ==
    /\ pc[c] = "returned" /\ result[c] # None /\ stage[c] = "output"
    /\ got' = [got EXCEPT ![c] = Append(@, result[c].n)]
    /\ IF result[c].n = OutputLength THEN Return(c, "success")
       ELSE pc' = [pc EXCEPT ![c] = "wait"] /\ UNCHANGED outcome
    /\ UNCHANGED <<unclaimed, waiters, want, slot, result, connected, requestVars, stage, pending,
                   expired>>

\* outputCallback; then the message is deleted
Output(c) ==
    /\ pc[c] = "returned" /\ result[c] # None /\ stage[c] = "output"
    /\ got' = [got EXCEPT ![c] = Append(@, result[c].n)]
    /\ IF result[c].n = OutputLength THEN Return(c, "success")
       ELSE pc' = [pc EXCEPT ![c] = "wait"] /\ UNCHANGED outcome
    /\ result' = [result EXCEPT ![c] = None]
    /\ UNCHANGED <<unclaimed, waiters, want, slot, connected, requestVars, stage, pending, expired>>

-----------------------------------------------------------------------------
(* Receiver.  The agent answers requests in any order; output follows a successful *)
(* response.  It may also stop answering.                                          *)

\* readMessage puts a response into the queue at once, and output as a message it does not
\* know itself
ReadMessage(r, ok, n) ==
    /\ connected /\ pending[r] # -1
    /\ pending[r] # 0 => ok
    /\ LET m == [code |-> IF pending[r] = 0 THEN "completed" ELSE "output", id |-> idOf[r],
                 rq |-> r, n |-> pending[r], ok |-> ok]
       IN Put(m, n)
    /\ pending' = [pending EXCEPT ![r] = IF @ = OutputLength \/ ~ok \/ r \notin withOutput THEN -1
                                         ELSE @ + 1]
    /\ expired' = expired \cup ({unclaimed[i].rq : i \in 1..n} \cap {current[c] : c \in Client})
    /\ UNCHANGED <<connected, requestVars, stage, got, outcome>>

\* disconnect, or the receiver's finalize: the channel is closed
Disconnect ==
    /\ connected
    /\ connected' = FALSE
    /\ pending' = [r \in Request |-> -1]
    /\ UNCHANGED <<queueVars, requestVars, stage, got, outcome, expired>>

\* connect, when it succeeds: a new channel and a new receiver, while the queue and the
\* request counter stay as they are.  Encryption and authentication, which use requests of
\* their own, are left out; a connect that fails leaves the connection closed.
Connect ==
    /\ ~connected
    /\ connected' = TRUE
    /\ UNCHANGED <<queueVars, requestVars, stage, pending, got, outcome, expired>>

-----------------------------------------------------------------------------
Next ==
    \/ \E c \in Client : \/ \E output \in BOOLEAN : Begin(c, output)
                         \/ Send(c) \/ Wait(c) \/ WakeUp(c)
                         \/ Timeout(c) \/ Response(c) \/ Output(c)
    \/ \E r \in Request, ok \in BOOLEAN, n \in 0..Len(unclaimed) : ReadMessage(r, ok, n)
    \/ Disconnect \/ Connect

Spec == Init /\ [][Next]_vars

-----------------------------------------------------------------------------
Keys == [code : {"completed", "output"}, id : Nat]

\* Every variable has its type; a thread holds a message only between the end of its
\* wait and the handling of the message, which deletes it.
TypeOK ==
    /\ unclaimed \in Seq(Messages) /\ waiters \in Seq(Client)
    /\ want \in [Client -> Keys \cup {None}]
    /\ slot \in [Client -> Messages \cup {None}] /\ result \in [Client -> Messages \cup {None}]
    /\ pc \in [Client -> {"idle", "send", "wait", "blocked", "leaving", "returned"}]
    /\ connected \in BOOLEAN /\ requestId \in Nat /\ started \in 0..MaxRequests
    /\ idOf \in [Request -> Nat] /\ current \in [Client -> 0..MaxRequests]
    /\ withOutput \in SUBSET Request /\ expired \in SUBSET Request
    /\ stage \in [Client -> {"completed", "output"}]
    /\ pending \in [Request -> -1..OutputLength]
    /\ got \in [Client -> Seq(1..OutputLength)]
    /\ outcome \in [Client -> {"none", "broken", "timeout", "success", "error"}]
    /\ \A c \in Client : pc[c] # "idle" => current[c] \in Request
    /\ \A c \in Client : result[c] # None => pc[c] \in {"leaving", "returned"}

Held(c) == {slot[c], result[c]} \ {None}

\* A thread is only ever given messages that the agent sent for the request it is
\* waiting with, however late the messages of earlier requests arrive.
OwnMessages ==
    \A c \in Client : \A m \in Held(c) :
        pc[c] \in {"blocked", "leaving", "returned"} => m.rq = current[c] /\ m.code = stage[c]

\* The output given to the callback of a command is what the agent sent, in order and
\* without a gap, and it is complete if the call reports success; only messages that
\* have expired in the queue may be missing.
OutputComplete ==
    \A c \in Client : current[c] \notin expired =>
        /\ \A i \in 1..Len(got[c]) : got[c][i] = i
        /\ outcome[c] = "success" /\ current[c] \in withOutput => Len(got[c]) = OutputLength

=============================================================================
