------------------------------- MODULE Client -------------------------------
(***************************************************************************)
(* client.c: the connections of management clients.  A client may stop the *)
(* guest, work on qemu and continue it; when its connection breaks in      *)
(* between, the daemon continues the guest or declares the node failed.    *)
(*                                                                         *)
(* A command is under way between two steps of its client.  What it does   *)
(* to qemu and what its client notes of it is one step here, the one in    *)
(* which it returns: commands are serialised by the lock of the channel.   *)
(* The lock is QmpChannel's.  Of it there is left that a command may fall  *)
(* asleep beside it, which is SleepsBesideLock there, and then returns     *)
(* only after a source of idle priority has been dispatched.  What the     *)
(* other requests do to the main coroutine is modelled there.              *)
(***************************************************************************)
EXTENDS Naturals

CONSTANTS
    Clients,       \* the connections that may be made
    MaxRequests    \* bound on the requests of all clients

ASSUME ClientAssumption == MaxRequests \in Nat

VARIABLES
    client,     \* per connection, struct ColodClient and its coroutine
    listener,   \* "open", "closed" after an error, "free" during
                \* client_listener_free, "freed" after it
    guest,      \* what qemu does with the guest
    failed,     \* EVENT_FAILED was queued for the main coroutine
    requests    \* number of requests

vars == <<client, listener, guest, failed, requests>>

\* Requests by what they do: stop and cont; commands that yield otherwise
\* (query-status, yank, raw QMP); all that are answered at once; no JSON.
Request == {"stop", "cont", "other", "immediate", "garbage"}

\* "new" waits for the first input, "cont" is the command at error_client.
\* sleep: of the command.  It may fall asleep more than once, which looks the same.
Sleep == {"not yet", "asleep", "woken"}

ClientState ==
    [pc : {"none", "new", "read", "command", "write", "cont", "gone"},
     request : Request \cup {"none"},
     stopped_qemu : BOOLEAN, quit : BOOLEAN, busy : BOOLEAN,
     hup : BOOLEAN,      \* the connection is shut down
     sleep : Sleep]

NoClient ==
    [pc |-> "none", request |-> "none", stopped_qemu |-> FALSE, quit |-> FALSE,
     busy |-> FALSE, hup |-> FALSE, sleep |-> "not yet"]

\* The state is of its type.
TypeOK ==
    /\ client \in [Clients -> ClientState]
    /\ listener \in {"open", "closed", "free", "freed"}
    /\ guest \in {"runs", "stopped"}
    /\ failed \in BOOLEAN
    /\ requests \in Nat

Init ==
    /\ client = [k \in Clients |-> NoClient]
    /\ listener = "open"
    /\ guest = "runs"
    /\ failed = FALSE
    /\ requests = 0
-----------------------------------------------------------------------------
\* The head of the loop of _colod_client_co, and client_free when it is left.
Loop(c) ==
    IF c.quit THEN [NoClient EXCEPT !.pc = "gone"]
    ELSE [c EXCEPT !.pc = "read", !.busy = FALSE, !.request = "none"]

\* Mutation: the guest is not continued for a client that is gone.
ErrorIgnored(c) == [NoClient EXCEPT !.pc = "gone"]

\* Label error_client.
ErrorClient(c) ==
    IF c.stopped_qemu THEN [c EXCEPT !.pc = "cont", !.request = "none"]
    ELSE [NoClient EXCEPT !.pc = "gone"]

\* The handlers that answer without yielding: what they set, in the main
\* coroutine and elsewhere, is not the connection's.
Answered(c) == [c EXCEPT !.pc = "write"]

Becomes(k, c) == client' = [client EXCEPT ![k] = c]

\* The listening socket has a connection, or accept fails.
client_listener_new_client ==
    /\ listener = "open"
    /\ \/ /\ \E k \in Clients :
                /\ client[k].pc = "none"
                /\ Becomes(k, [NoClient EXCEPT !.pc = "new"])
          /\ UNCHANGED listener
       \/ listener' = "closed" /\ UNCHANGED client
    /\ UNCHANGED <<guest, failed, requests>>

\* The first input starts the coroutine.
Start(k) ==
    /\ client[k].pc = "new"
    /\ Becomes(k, Loop(client[k]))
    /\ UNCHANGED <<listener, guest, failed, requests>>

\* A line was read.  Requests that need qemu become a command.
ReadRequest(k) ==
    /\ client[k].pc = "read" /\ requests < MaxRequests
    /\ requests' = requests + 1
    /\ \E r \in Request :
          LET c == [client[k] EXCEPT !.busy = TRUE, !.request = r]
          IN  Becomes(k, IF client[k].quit THEN [NoClient EXCEPT !.pc = "gone"]
                         ELSE CASE r = "garbage" -> ErrorClient(c)
                                [] r = "immediate" -> Answered(c)
                                [] OTHER -> [c EXCEPT !.pc = "command"])
    /\ UNCHANGED <<listener, guest, failed>>

\* The read finds the connection closed.
ReadEof(k) ==
    /\ client[k].pc = "read" /\ client[k].hup
    /\ Becomes(k, IF client[k].quit THEN [NoClient EXCEPT !.pc = "gone"]
                  ELSE ErrorClient(client[k]))
    /\ UNCHANGED <<listener, guest, failed, requests>>

\* A command that waits for the lock of a channel: its holder releases it, and the
\* main loop has nothing that would make it look at the progress source.
FallsAsleep(k) ==
    /\ client[k].pc \in {"command", "cont"} /\ client[k].sleep = "not yet"
    /\ Becomes(k, [client[k] EXCEPT !.sleep = "asleep"])
    /\ UNCHANGED <<listener, guest, failed, requests>>

\* A source of idle priority is dispatched, and the progress sources with it.
IdleDispatch ==
    client' = [k \in Clients |->
        IF client[k].sleep = "asleep" THEN [client[k] EXCEPT !.sleep = "woken"]
        ELSE client[k]]

OtherIdleSource == IdleDispatch /\ UNCHANGED <<listener, guest, failed, requests>>

Effect(r) == CASE r = "stop" -> "stopped" [] r = "cont" -> "runs" [] OTHER -> guest

\* Mutation: a client that has asked to continue is taken at its word.
NotedEarly(c, ok) ==
    IF c.request = "cont" THEN [c EXCEPT !.stopped_qemu = FALSE]
    ELSE [c EXCEPT !.stopped_qemu = @ \/ (c.request = "stop" /\ ok)]

\* handle_stop_co and handle_cont_co note what was done, if it was done.
Noted(c, ok) ==
    [c EXCEPT !.stopped_qemu = IF ok /\ c.request = "stop" THEN TRUE
                               ELSE IF ok /\ c.request = "cont" THEN FALSE
                               ELSE @]

\* The command of a request returns: done, refused by qemu, or without an
\* answer, which queues FAILED and leaves open whether qemu has done it.
CommandReturns(k) ==
    /\ client[k].pc = "command" /\ client[k].sleep # "asleep"
    /\ \E ok \in BOOLEAN :
          Becomes(k, [Noted(client[k], ok) EXCEPT !.pc = "write", !.sleep = "not yet"])
          /\ \/ ok /\ guest' = Effect(client[k].request) /\ UNCHANGED failed
             \/ ~ok /\ UNCHANGED <<guest, failed>>
             \/ ~ok /\ failed' = TRUE /\ guest' \in {guest, Effect(client[k].request)}
    /\ UNCHANGED <<listener, requests>>

\* The reply is written, or that fails or times out.
Reply(k) ==
    /\ client[k].pc = "write"
    /\ \/ Becomes(k, Loop(client[k]))
       \/ Becomes(k, ErrorClient(client[k]))
    /\ UNCHANGED <<listener, guest, failed, requests>>

\* The command at error_client returns; if it has failed in any way, so has the
\* node.
ContReturns(k) ==
    /\ client[k].pc = "cont" /\ client[k].sleep # "asleep"
    /\ \/ guest' = "runs" /\ UNCHANGED failed
       \/ guest' \in {guest, "runs"} /\ failed' = TRUE
    /\ Becomes(k, [NoClient EXCEPT !.pc = "gone"])
    /\ UNCHANGED <<listener, requests>>

\* The client closes its connection.
Hangup(k) ==
    /\ client[k].pc \notin {"none", "gone"} /\ ~client[k].hup
    /\ Becomes(k, [client[k] EXCEPT !.hup = TRUE])
    /\ UNCHANGED <<listener, guest, failed, requests>>

client_listener_free ==
    /\ listener \in {"open", "closed"}
    /\ listener' = "free"
    /\ client' = [k \in Clients |->
          IF client[k].pc \in {"none", "gone"} THEN client[k]
          ELSE [client[k] EXCEPT !.quit = TRUE, !.hup = @ \/ ~client[k].busy]]
    /\ UNCHANGED <<guest, failed, requests>>

\* The loop of client_listener_free is left.
Freed ==
    /\ listener = "free" /\ \A k \in Clients : client[k].pc \in {"none", "gone"}
    /\ listener' = "freed"
    /\ UNCHANGED <<client, guest, failed, requests>>

\* What resumes a coroutine: only a client that is closed or at work, and does not
\* sleep, is certain to be resumed.
Resumes(k) ==
    \/ client[k].hup /\ Start(k)
    \/ ReadEof(k) \/ CommandReturns(k) \/ Reply(k) \/ ContReturns(k)

ClientStep(k) ==
    \/ Start(k) \/ ReadRequest(k) \/ ReadEof(k) \/ CommandReturns(k)
    \/ Reply(k) \/ ContReturns(k) \/ Hangup(k) \/ FallsAsleep(k)

\* The clients by themselves; Daemon has them in their surroundings.
Next ==
    \/ client_listener_new_client \/ client_listener_free \/ Freed \/ OtherIdleSource
    \/ \E k \in Clients : ClientStep(k)

Spec == Init /\ [][Next]_vars
-----------------------------------------------------------------------------
\* A guest that a client has stopped does not stay so without anyone to answer
\* for it: some client that is still served is going to continue it, or the
\* node is failed, or the daemon is quitting.  Whatever becomes of requests,
\* replies and connections, of whichever client.
StoppedIsOwned ==
    guest = "stopped" =>
        \/ failed \/ listener \in {"free", "freed"}
        \/ \E k \in Clients : client[k].stopped_qemu

Asleep(k) == client[k].sleep = "asleep"

\* A guest stopped by a client that hangs up runs again, unless the node fails,
\* the daemon quits, or another client stops it; or the command of a client sleeps
\* from some time on, because the main loop is so quiet.
GuestContinued ==
    \/ (guest = "stopped" /\ \A k \in Clients : client[k].hup \/ client[k].pc \in {"none", "gone"})
          ~> (\/ guest = "runs" \/ failed \/ listener \in {"free", "freed"}
              \/ \E k \in Clients : ~client[k].hup /\ client[k].pc \notin {"none", "gone"})
    \/ <>[](\E k \in Clients : Asleep(k))
=============================================================================
