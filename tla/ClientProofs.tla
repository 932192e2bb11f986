---------------------------- MODULE ClientProofs ----------------------------
(***************************************************************************)
(* StoppedIsOwned for any number of clients and requests.  By itself it is *)
(* not inductive: a client leaves its loop when it is told to quit, and    *)
(* forgets that it has stopped the guest.  IInv adds that nobody is told   *)
(* so before client_listener_free, and that a new client has not stopped   *)
(* anything.                                                               *)
(***************************************************************************)
EXTENDS Client, TLAPS

QuitIsTeardown ==
    \A k \in Clients : client[k].quit => listener \in {"free", "freed"}

NewIsFresh == \A k \in Clients : client[k].pc = "none" => client[k] = NoClient

IInv == TypeOK /\ QuitIsTeardown /\ NewIsFresh /\ StoppedIsOwned

LEMMA NoClientIs ==
    /\ NoClient.stopped_qemu = FALSE /\ NoClient.quit = FALSE
    /\ NoClient.sleep = "not yet" /\ NoClient \in ClientState
  BY DEF NoClient, ClientState, Sleep, Request

\* The head of the loop makes a client state of a client state, and keeps
\* stopped_qemu unless the client quits.
LEMMA LoopKeeps ==
    ASSUME NEW c \in ClientState
    PROVE  /\ Loop(c) \in ClientState
           /\ Loop(c).pc # "none"
           /\ Loop(c).quit => c.quit
           /\ ~c.quit => Loop(c).stopped_qemu = c.stopped_qemu
  BY DEF Loop, NoClient, ClientState, Sleep, Request

\* Label error_client drops a client only if it has not stopped the guest.
LEMMA ErrorKeeps ==
    ASSUME NEW c \in ClientState
    PROVE  /\ ErrorClient(c) \in ClientState
           /\ ErrorClient(c).pc # "none"
           /\ ErrorClient(c).quit => c.quit
           /\ ErrorClient(c).stopped_qemu = c.stopped_qemu
  BY DEF ErrorClient, NoClient, ClientState, Sleep, Request

\* A step of client k that does not touch the rest of the state keeps IInv, if
\* it keeps stopped_qemu.
LEMMA ClientMoves ==
    ASSUME IInv, NEW k \in Clients, NEW c \in ClientState, Becomes(k, c),
           c.pc # "none", c.quit => client[k].quit,
           ~client[k].quit => c.stopped_qemu = client[k].stopped_qemu,
           requests' \in Nat, UNCHANGED <<listener, guest, failed>>
    PROVE  IInv'
  <1>1. client' \in [Clients -> ClientState] /\ client'[k] = c
        /\ \A m \in Clients \ {k} : client'[m] = client[m]
    BY DEF IInv, TypeOK, Becomes
  <1>2. TypeOK'
    BY <1>1 DEF IInv, TypeOK
  <1>3. QuitIsTeardown'
    BY <1>1 DEF IInv, QuitIsTeardown
  <1>5. NewIsFresh'
    BY <1>1 DEF IInv, NewIsFresh
  <1>4. StoppedIsOwned'
    <2> SUFFICES ASSUME guest = "stopped", ~failed, listener \notin {"free", "freed"}
                 PROVE  \E m \in Clients : client'[m].stopped_qemu
      BY DEF StoppedIsOwned
    <2>1. PICK m \in Clients : client[m].stopped_qemu
      BY DEF IInv, StoppedIsOwned
    <2>2. ~client[k].quit
      BY DEF IInv, QuitIsTeardown
    <2> QED
      BY <1>1, <2>1, <2>2
  <1> QED
    BY <1>2, <1>3, <1>4, <1>5 DEF IInv

\* A client that is dropped.
LEMMA GoneTyped ==
    ASSUME NEW c, c = [NoClient EXCEPT !.pc = "gone"]
    PROVE  /\ c \in ClientState /\ c.pc = "gone"
           /\ c.quit = FALSE /\ c.stopped_qemu = FALSE
  BY DEF NoClient, ClientState, Sleep, Request

LEMMA InitIInv == Init => IInv
  <1> SUFFICES ASSUME Init PROVE IInv
    OBVIOUS
  <1>1. NoClient \in ClientState /\ NoClient.quit = FALSE
    BY DEF NoClient, ClientState, Sleep, Request
  <1>2. TypeOK
    BY <1>1 DEF Init, TypeOK
  <1>3. QuitIsTeardown /\ NewIsFresh /\ StoppedIsOwned
    BY <1>1 DEF Init, QuitIsTeardown, NewIsFresh, StoppedIsOwned
  <1> QED
    BY <1>2, <1>3 DEF IInv

LEMMA NewClientKeeps == IInv /\ client_listener_new_client => IInv'
  <1> SUFFICES ASSUME IInv, client_listener_new_client PROVE IInv'
    OBVIOUS
  <1>1. CASE listener' = "closed" /\ UNCHANGED client
    BY <1>1 DEF IInv, TypeOK, QuitIsTeardown, NewIsFresh, StoppedIsOwned,
                client_listener_new_client
  <1>2. CASE \E k \in Clients : /\ client[k].pc = "none" /\ UNCHANGED listener
                                /\ Becomes(k, [NoClient EXCEPT !.pc = "new"])
    <2>1. PICK k \in Clients : /\ client[k].pc = "none" /\ UNCHANGED listener
                               /\ Becomes(k, [NoClient EXCEPT !.pc = "new"])
      BY <1>2
    <2> DEFINE c == [NoClient EXCEPT !.pc = "new"]
    <2>2. c \in ClientState /\ c.pc # "none" /\ c.quit = FALSE /\ c.stopped_qemu = FALSE
      BY DEF NoClient, ClientState, Sleep, Request
    <2>3. client[k].stopped_qemu = FALSE
      <3>1. client[k] = NoClient
        BY <2>1 DEF IInv, NewIsFresh
      <3> QED
        BY <3>1, NoClientIs
    <2>4. requests' \in Nat /\ UNCHANGED <<guest, failed>>
      BY DEF client_listener_new_client, IInv, TypeOK
    <2> HIDE DEF c
    <2> QED
      BY <2>1, <2>2, <2>3, <2>4, ClientMoves DEF c
  <1> QED
    BY <1>1, <1>2 DEF client_listener_new_client

LEMMA StartKeeps == ASSUME IInv, NEW k \in Clients, Start(k) PROVE IInv'
  <1>1. client[k] \in ClientState /\ requests' \in Nat
    BY DEF IInv, TypeOK, Start
  <1> QED
    BY <1>1, LoopKeeps, ClientMoves DEF Start

LEMMA ReadRequestKeeps == ASSUME IInv, NEW k \in Clients, ReadRequest(k) PROVE IInv'
  <1>1. client[k] \in ClientState /\ requests' \in Nat
    BY DEF IInv, TypeOK, ReadRequest
  <1>2. PICK r \in Request :
          LET c == [client[k] EXCEPT !.busy = TRUE, !.request = r]
          IN  Becomes(k, IF client[k].quit THEN [NoClient EXCEPT !.pc = "gone"]
                         ELSE CASE r = "garbage" -> ErrorClient(c)
                                [] r = "immediate" -> Answered(c)
                                [] OTHER -> [c EXCEPT !.pc = "command"])
    BY DEF ReadRequest
  <1> DEFINE c == [client[k] EXCEPT !.busy = TRUE, !.request = r]
  <1>3. c \in ClientState /\ c.quit = client[k].quit
        /\ c.stopped_qemu = client[k].stopped_qemu
    BY <1>1 DEF ClientState
  <1>4. UNCHANGED <<listener, guest, failed>>
    BY DEF ReadRequest
  <1>5. CASE client[k].quit
    <2>1. Becomes(k, [NoClient EXCEPT !.pc = "gone"])
      BY <1>2, <1>5
    <2> QED
      BY <1>1, <1>4, <1>5, <2>1, GoneTyped, ClientMoves
  <1>6. CASE ~client[k].quit /\ r = "garbage"
    <2>1. Becomes(k, ErrorClient(c))
      BY <1>2, <1>6
    <2> HIDE DEF c
    <2> QED
      BY <1>1, <1>3, <1>4, <2>1, ErrorKeeps, ClientMoves
  <1>7. CASE ~client[k].quit /\ r # "garbage"
    <2>1. PICK pc \in {"write", "command"} : Becomes(k, [c EXCEPT !.pc = pc])
      BY <1>2, <1>7 DEF Answered
    <2>2. [c EXCEPT !.pc = pc] \in ClientState /\ [c EXCEPT !.pc = pc].pc # "none"
          /\ [c EXCEPT !.pc = pc].quit = c.quit
          /\ [c EXCEPT !.pc = pc].stopped_qemu = c.stopped_qemu
      BY <1>3 DEF ClientState
    <2> HIDE DEF c
    <2> QED
      BY <1>1, <1>3, <1>4, <2>1, <2>2, ClientMoves
  <1> QED
    BY <1>5, <1>6, <1>7

LEMMA ReadEofKeeps == ASSUME IInv, NEW k \in Clients, ReadEof(k) PROVE IInv'
  <1>1. client[k] \in ClientState /\ requests' \in Nat /\ UNCHANGED <<listener, guest, failed>>
    BY DEF IInv, TypeOK, ReadEof
  <1>2. CASE client[k].quit
    <2>1. Becomes(k, [NoClient EXCEPT !.pc = "gone"])
      BY <1>2 DEF ReadEof
    <2> QED
      BY <1>1, <1>2, <2>1, GoneTyped, ClientMoves
  <1>3. CASE ~client[k].quit
    <2>1. Becomes(k, ErrorClient(client[k]))
      BY <1>3 DEF ReadEof
    <2> QED
      BY <1>1, <2>1, ErrorKeeps, ClientMoves
  <1> QED
    BY <1>2, <1>3

LEMMA ReplyKeeps == ASSUME IInv, NEW k \in Clients, Reply(k) PROVE IInv'
  <1>1. client[k] \in ClientState /\ requests' \in Nat /\ UNCHANGED <<listener, guest, failed>>
    BY DEF IInv, TypeOK, Reply
  <1> QED
    BY <1>1, LoopKeeps, ErrorKeeps, ClientMoves DEF Reply

LEMMA HangupKeeps == ASSUME IInv, NEW k \in Clients, Hangup(k) PROVE IInv'
  <1> DEFINE c == [client[k] EXCEPT !.hup = TRUE]
  <1>1. /\ c \in ClientState /\ c.quit = client[k].quit /\ c.pc # "none"
        /\ c.stopped_qemu = client[k].stopped_qemu
    BY DEF IInv, TypeOK, ClientState, Hangup
  <1>2. Becomes(k, c) /\ requests' \in Nat /\ UNCHANGED <<listener, guest, failed>>
    BY DEF IInv, TypeOK, Hangup
  <1> HIDE DEF c
  <1> QED
    BY <1>1, <1>2, ClientMoves

LEMMA FallsAsleepKeeps == ASSUME IInv, NEW k \in Clients, FallsAsleep(k) PROVE IInv'
  <1> DEFINE c == [client[k] EXCEPT !.sleep = "asleep"]
  <1>1. /\ c \in ClientState /\ c.quit = client[k].quit /\ c.pc # "none"
        /\ c.stopped_qemu = client[k].stopped_qemu
    BY DEF IInv, TypeOK, ClientState, Sleep, FallsAsleep
  <1>2. Becomes(k, c) /\ requests' \in Nat /\ UNCHANGED <<listener, guest, failed>>
    BY DEF IInv, TypeOK, FallsAsleep
  <1> HIDE DEF c
  <1> QED
    BY <1>1, <1>2, ClientMoves

\* A command that is woken is otherwise as it was.
LEMMA WokenKeeps ==
    ASSUME IInv, IdleDispatch, UNCHANGED <<listener, guest, failed, requests>>
    PROVE  IInv'
  <1>1. ASSUME NEW k \in Clients
        PROVE  /\ client'[k] \in ClientState
               /\ client'[k] = client[k] \/ client[k].sleep = "asleep"
               /\ client'[k].pc = client[k].pc /\ client'[k].quit = client[k].quit
               /\ client'[k].stopped_qemu = client[k].stopped_qemu
    BY DEF IInv, TypeOK, IdleDispatch, ClientState, Sleep
  <1>2. TypeOK'
    BY <1>1 DEF IInv, TypeOK, IdleDispatch
  <1>3. QuitIsTeardown' /\ StoppedIsOwned'
    BY <1>1 DEF IInv, QuitIsTeardown, StoppedIsOwned
  <1>4. NewIsFresh'
    <2> SUFFICES ASSUME NEW k \in Clients, client'[k].pc = "none" PROVE client'[k] = NoClient
      BY DEF NewIsFresh
    <2>1. client[k] = NoClient
      BY <1>1 DEF IInv, NewIsFresh
    <2> QED
      BY <1>1, <2>1, NoClientIs
  <1> QED
    BY <1>2, <1>3, <1>4 DEF IInv

\* A command that has stopped the guest leaves its client with stopped_qemu; one
\* that has not been answered leaves the node failed.
LEMMA CommandKeeps == ASSUME IInv, NEW k \in Clients, CommandReturns(k) PROVE IInv'
  <1>1. PICK ok \in BOOLEAN :
          /\ Becomes(k, [Noted(client[k], ok) EXCEPT !.pc = "write", !.sleep = "not yet"])
          /\ \/ ok /\ guest' = Effect(client[k].request) /\ UNCHANGED failed
             \/ ~ok /\ UNCHANGED <<guest, failed>>
             \/ ~ok /\ failed' = TRUE /\ guest' \in {guest, Effect(client[k].request)}
    BY DEF CommandReturns
  <1> DEFINE c == [Noted(client[k], ok) EXCEPT !.pc = "write", !.sleep = "not yet"]
             r == client[k].request
  <1>2. client[k] \in ClientState
    BY DEF IInv, TypeOK
  <1>3. /\ c \in ClientState /\ c.pc = "write" /\ c.quit = client[k].quit
        /\ c.stopped_qemu = IF ok /\ r = "stop" THEN TRUE
                            ELSE IF ok /\ r = "cont" THEN FALSE
                            ELSE client[k].stopped_qemu
    BY <1>2 DEF Noted, ClientState, Sleep
  <1>4. /\ client' \in [Clients -> ClientState] /\ client'[k] = c
        /\ \A m \in Clients \ {k} : client'[m] = client[m]
    BY <1>1, <1>3 DEF IInv, TypeOK, Becomes
  <1>5. listener' = listener /\ requests' = requests
    BY DEF CommandReturns
  <1>6. TypeOK'
    BY <1>1, <1>4, <1>5 DEF IInv, TypeOK, Effect
  <1>7. QuitIsTeardown' /\ NewIsFresh'
    BY <1>3, <1>4, <1>5 DEF IInv, QuitIsTeardown, NewIsFresh
  <1>8. StoppedIsOwned'
    <2> HIDE DEF c
    <2> SUFFICES ASSUME guest' = "stopped", ~failed', listener \notin {"free", "freed"}
                 PROVE  \E m \in Clients : client'[m].stopped_qemu
      BY <1>5 DEF StoppedIsOwned
    <2>1. CASE ok /\ r = "stop"
      BY <2>1, <1>3, <1>4
    <2>2. CASE ~(ok /\ r = "stop")
      <3>1. guest = "stopped" /\ ~failed /\ ~(ok /\ r = "cont")
        BY <1>1, <2>2 DEF IInv, TypeOK, Effect
      <3>2. PICK m \in Clients : client[m].stopped_qemu
        BY <3>1 DEF IInv, StoppedIsOwned
      <3> QED
        BY <1>3, <1>4, <2>2, <3>1, <3>2
    <2> QED
      BY <2>1, <2>2
  <1> QED
    BY <1>6, <1>7, <1>8 DEF IInv

LEMMA ContKeeps == ASSUME IInv, NEW k \in Clients, ContReturns(k) PROVE IInv'
  <1> DEFINE c == [NoClient EXCEPT !.pc = "gone"]
  <1>1. c \in ClientState /\ c.pc = "gone" /\ c.quit = FALSE
    BY GoneTyped
  <1>2. /\ client' \in [Clients -> ClientState] /\ client'[k] = c
        /\ \A m \in Clients \ {k} : client'[m] = client[m]
    BY <1>1 DEF IInv, TypeOK, ContReturns, Becomes
  <1> HIDE DEF c
  <1>3. TypeOK'
    BY <1>2 DEF IInv, TypeOK, ContReturns
  <1>4. QuitIsTeardown' /\ NewIsFresh'
    BY <1>1, <1>2 DEF IInv, QuitIsTeardown, NewIsFresh, ContReturns
  <1>5. StoppedIsOwned'
    BY DEF StoppedIsOwned, ContReturns
  <1> QED
    BY <1>3, <1>4, <1>5 DEF IInv

LEMMA FreeKeeps == IInv /\ (client_listener_free \/ Freed) => IInv'
  <1> SUFFICES ASSUME IInv, client_listener_free \/ Freed PROVE IInv'
    OBVIOUS
  <1>1. CASE client_listener_free
    <2>1. TypeOK'
      BY <1>1, ZenonT(60) DEF IInv, TypeOK, client_listener_free, ClientState
    <2>2. NewIsFresh'
      BY <1>1 DEF IInv, TypeOK, NewIsFresh, client_listener_free, ClientState
    <2> QED
      BY <1>1, <2>1, <2>2 DEF IInv, QuitIsTeardown, StoppedIsOwned, client_listener_free
  <1>2. CASE Freed
    BY <1>2 DEF IInv, TypeOK, QuitIsTeardown, NewIsFresh, StoppedIsOwned, Freed
  <1> QED
    BY <1>1, <1>2

LEMMA ClientKeeps == ASSUME IInv, NEW k \in Clients, ClientStep(k) PROVE IInv'
  BY StartKeeps, ReadRequestKeeps, ReadEofKeeps, CommandKeeps, ReplyKeeps, ContKeeps,
     HangupKeeps, FallsAsleepKeeps DEF ClientStep

LEMMA NothingKeeps == IInv /\ UNCHANGED vars => IInv'
  BY DEF IInv, TypeOK, QuitIsTeardown, NewIsFresh, StoppedIsOwned, vars

\* A guest that a client has stopped (client.c, handle_stop_co) always has a
\* client that will continue it, or a failed node, or a daemon that quits: for
\* any number of clients and of requests, and a teardown at any time.
THEOREM StoppedOwned == Spec => []StoppedIsOwned
  <1>1. IInv /\ [Next]_vars => IInv'
    BY NothingKeeps, NewClientKeeps, FreeKeeps, ClientKeeps, WokenKeeps
       DEF Next, OtherIdleSource
  <1>2. IInv => StoppedIsOwned
    BY DEF IInv
  <1> QED
    BY InitIInv, <1>1, <1>2, PTL DEF Spec
=============================================================================
