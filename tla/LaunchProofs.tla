---------------------------- MODULE LaunchProofs ----------------------------
(***************************************************************************)
(* Theorems about Launch, for any number of launches: IInv, at the end of  *)
(* that module, is inductive, and NothingLeft, OwnSockets and Served       *)
(* follow from it.                                                         *)
(***************************************************************************)
EXTENDS Launch, TLAPS, SequenceTheorems

(* The requests of start(): the fourth creates the vsock socket, the fifth *)
(* boots the guest (firecracker.py:141-177).                               *)
LEMMA RequestFacts ==
  /\ Len(Requests) = 5
  /\ Requests[4] = "vsock" /\ Requests[5] = "InstanceStart"
  /\ \A i \in 1 .. 3 : Requests[i] # "vsock" /\ Requests[i] # "InstanceStart"
BY DEF Requests

(* A sequence of one element is that element in brackets.                  *)
LEMMA Singleton ==
  ASSUME NEW S, NEW s \in Seq(S), Len(s) = 1
  PROVE  s = <<s[1]>>
<1>1. <<s[1]>> \in Seq(S) /\ Len(<<s[1]>>) = 1
  OBVIOUS
<1>2. \A i \in 1 .. Len(s) : s[i] = <<s[1]>>[i]
  OBVIOUS
<1> QED BY <1>1, <1>2, SeqEqual

(* Marking every element of a queue of one marks that one.                 *)
LEMMA Marked == \A x, y : [i \in DOMAIN <<x>> |-> y] = <<y>>
<1> TAKE x, y
<1> DEFINE S == {x, y}
<1>1. x \in S /\ y \in S
  OBVIOUS
<1> HIDE DEF S
<1>2. <<x>> \in Seq(S) /\ Len(<<x>>) = 1
  BY <1>1
<1> DEFINE t == [i \in DOMAIN <<x>> |-> y]
<1>3. t \in Seq(S) /\ Len(t) = 1 /\ t[1] = y
  BY <1>1, <1>2
<1> HIDE DEF t
<1>4. t = <<y>>
  BY <1>3, Singleton
<1> QED BY <1>4 DEF t

(* What GiveUp makes of the guest's queue (vsock_bridge.py:70-82).         *)
LEMMA GivenUp ==
  ASSUME backlog \in {<< >>, <<"kept">>, <<"given up">>}
  PROVE  [i \in DOMAIN backlog |-> "given up"] = IF backlog = << >> THEN << >> ELSE <<"given up">>
<1>1. CASE backlog = << >>
  BY <1>1
<1>2. CASE backlog = <<"kept">>
  BY <1>2, Marked
<1>3. CASE backlog = <<"given up">>
  BY <1>3, Marked
<1> QED BY <1>1, <1>2, <1>3

(* A queue of at most one connection.                                      *)
LEMMA QueueFacts ==
  /\ Append(<< >>, "kept") = <<"kept">>
  /\ Head(<<"kept">>) = "kept" /\ Tail(<<"kept">>) = << >>
  /\ Head(<<"given up">>) = "given up" /\ Tail(<<"given up">>) = << >>
  /\ << >> # <<"kept">> /\ << >> # <<"given up">> /\ <<"kept">> # <<"given up">>
OBVIOUS

(* Before the first launch there is nothing.                               *)
LEMMA IInvInit == Init => IInv
<1> SUFFICES ASSUME Init PROVE IInv
  OBVIOUS
<1>1. OwnerOK /\ ProcessOK
  <2>1. OwnerOK
    <3>1. 0 \in 0 .. MaxLaunches /\ 0 \in 0 .. Len(Requests)
      BY LaunchAssumption, RequestFacts DEF LaunchAssumption
    <3>2. 0 \in 0 .. 0
      OBVIOUS
    <3> QED BY <3>1, <3>2 DEF Init, OwnerOK
  <2>2. api \in [of : 0 .. MaxLaunches, listens : BOOLEAN] /\ uds \in 0 .. MaxLaunches
    BY LaunchAssumption DEF Init, LaunchAssumption
  <2> QED BY <2>1, <2>2 DEF Init, ProcessOK
<1>2. StdioOK /\ NothingLeft /\ Owns /\ Queued
  BY DEF Init, StdioOK, NothingLeft, Owns, Queued, Unasked
<1> QED BY <1>1, <1>2 DEF IInv, TypeOK

(* A process that ends leaves no other one running than before, and takes  *)
(* its guest and the queue with it.                                        *)
LEMMA EndsKeeps ==
  ASSUME NEW p, Ends(p)
  PROVE  /\ running' = running \ {p} /\ UNCHANGED <<api, uds, console, served>>
         /\ guest' \in {"off", guest} /\ backlog' \in {<< >>, backlog} /\ conn' \in {"closed", conn}
         /\ p # handle => guest' = guest /\ backlog' = backlog /\ conn' = conn
         /\ p = handle => /\ guest' = "off" /\ backlog' = << >>
                          /\ conn' = IF conn \in {"sent", "queued"} THEN "closed" ELSE conn
BY DEF Ends

(* Every step preserves the inductive invariant.                           *)
LEMMA IInvStep == IInv /\ [Next]_vars => IInv'
<1> SUFFICES ASSUME IInv, [Next]_vars PROVE IInv'
  OBVIOUS
<1>0. OwnerOK /\ ProcessOK /\ StdioOK /\ NothingLeft /\ Owns /\ Queued
  BY DEF IInv, TypeOK
<1> USE <1>0, QueueFacts DEF owner, process, stdio, is_running
<1>1. CASE start
  <2>1. OwnerOK'
    <3>1. launches' \in 0 .. MaxLaunches /\ handle' \in 0 .. launches'
      BY <1>1, LaunchAssumption DEF start, OwnerOK, LaunchAssumption
    <3>2. puts' \in 0 .. Len(Requests)
      BY <1>1, RequestFacts DEF start
    <3> QED BY <1>1, <3>1, <3>2 DEF start, OwnerOK, Calls
  <2>2. ProcessOK'
    <3>1. running' \subseteq Launches
      <4>1. launches' \in Launches
        BY <1>1, LaunchAssumption DEF start, OwnerOK, Launches, LaunchAssumption
      <4> QED BY <1>1, <4>1 DEF start, ProcessOK
    <3>2. api' \in [of : 0 .. MaxLaunches, listens : BOOLEAN] /\ uds' \in 0 .. MaxLaunches
      BY <1>1, LaunchAssumption DEF start, LaunchAssumption
    <3> QED BY <1>1, <3>1, <3>2 DEF start, ProcessOK
  <2>3. StdioOK'
    BY <1>1, LaunchAssumption DEF start, LaunchAssumption, StdioOK
  <2>4. NothingLeft'
    BY <1>1, LaunchAssumption DEF start, LaunchAssumption, NothingLeft
  <2>5. Owns'
    BY <1>1, LaunchAssumption DEF start, LaunchAssumption, Owns
  <2>6. Queued'
    BY <1>1, LaunchAssumption DEF start, LaunchAssumption, Queued, Unasked, InQueue
  <2> QED BY <2>1, <2>2, <2>3, <2>4, <2>5, <2>6 DEF IInv, TypeOK
<1>2. CASE StartWait
  <2>1. OwnerOK'
    BY <1>2 DEF StartWait, Goto, OwnerOK, Calls
  <2>2. ProcessOK'
    BY <1>2 DEF StartWait, Goto, ProcessOK
  <2>3. StdioOK'
    BY <1>2 DEF StartWait, Goto, StdioOK
  <2>4. NothingLeft'
    BY <1>2 DEF StartWait, Goto, NothingLeft
  <2>5. Owns'
    BY <1>2 DEF StartWait, Goto, Owns
  <2>6. Queued'
    BY <1>2 DEF StartWait, Goto, Queued, Unasked, InQueue
  <2> QED BY <2>1, <2>2, <2>3, <2>4, <2>5, <2>6 DEF IInv, TypeOK
<1>3. CASE StartConnect
  <2>1. OwnerOK'
    BY <1>3 DEF StartConnect, Goto, OwnerOK, Calls
  <2>2. ProcessOK'
    BY <1>3 DEF StartConnect, Goto, ProcessOK
  <2>3. StdioOK'
    BY <1>3 DEF StartConnect, Goto, StdioOK
  <2>4. NothingLeft'
    BY <1>3 DEF StartConnect, Goto, NothingLeft
  <2>5. Owns'
    BY <1>3 DEF StartConnect, Goto, Owns
  <2>6. Queued'
    BY <1>3 DEF StartConnect, Goto, Queued, Unasked, InQueue
  <2> QED BY <2>1, <2>2, <2>3, <2>4, <2>5, <2>6 DEF IInv, TypeOK
<1>4. CASE stop
  <2>1. OwnerOK'
    BY <1>4 DEF stop, OwnerOK, Calls
  <2>2. ProcessOK'
    BY <1>4 DEF stop, ProcessOK
  <2>3. StdioOK'
    BY <1>4 DEF stop, StdioOK
  <2>4. NothingLeft'
    BY <1>4 DEF stop, NothingLeft
  <2>5. Owns'
    BY <1>4 DEF stop, Owns
  <2>6. Queued'
    BY <1>4 DEF stop, Queued, Unasked, InQueue
  <2> QED BY <2>1, <2>2, <2>3, <2>4, <2>5, <2>6 DEF IInv, TypeOK
<1>5. CASE wait_for_api_socket
  <2>1. OwnerOK'
    BY <1>5 DEF wait_for_api_socket, Poll, OwnerOK, Calls
  <2>2. ProcessOK'
    BY <1>5 DEF wait_for_api_socket, Poll, ProcessOK
  <2>3. StdioOK'
    BY <1>5 DEF wait_for_api_socket, Poll, StdioOK
  <2>4. NothingLeft'
    BY <1>5 DEF wait_for_api_socket, Poll, NothingLeft
  <2>5. Owns'
    BY <1>5, RequestFacts DEF wait_for_api_socket, Poll, Owns
  <2>6. Queued'
    BY <1>5 DEF wait_for_api_socket, Poll, Queued, Unasked, InQueue
  <2> QED BY <2>1, <2>2, <2>3, <2>4, <2>5, <2>6 DEF IInv, TypeOK
<1>6. CASE put
  <2>0. puts \in 0 .. 4 /\ (puts = 3 => Requests[puts + 1] = "vsock")
        /\ (puts = 4 => Requests[puts + 1] = "InstanceStart")
    BY <1>6, RequestFacts DEF put, Owns, OwnerOK
  <2>1. OwnerOK'
    BY <1>6, RequestFacts, <2>0 DEF put, Effect, OwnerOK, Calls
  <2>2. ProcessOK'
    BY <1>6, RequestFacts, <2>0 DEF put, Effect, ProcessOK, OwnerOK, Launches
  <2>3. StdioOK'
    BY <1>6, RequestFacts, <2>0 DEF put, Effect, StdioOK
  <2>4. NothingLeft'
    BY <1>6, RequestFacts, <2>0 DEF put, Effect, NothingLeft
  <2>5. Owns'
    <3>1. at' = "put" => puts' < Len(Requests) /\ api'.of = handle'
      BY <1>6, <2>0, RequestFacts DEF put, Owns
    <3>2. puts' = 4 => uds' = handle'
      BY <1>6, <2>0 DEF put, Effect
    <3>3. at' # "put" => at' = "up" /\ uds' = handle'
      BY <1>6, <2>0, RequestFacts DEF put, Effect, Owns
    <3> QED BY <1>6, <3>1, <3>2, <3>3 DEF put, Owns
  <2>6. Queued'
    BY <1>6, RequestFacts, <2>0 DEF put, Effect, Queued, Unasked, InQueue
  <2> QED BY <2>1, <2>2, <2>3, <2>4, <2>5, <2>6 DEF IInv, TypeOK
<1>7. CASE PutFails
  <2>1. OwnerOK'
    BY <1>7, RequestFacts DEF PutFails, Goto, Effect, OwnerOK, Calls
  <2>2. ProcessOK'
    BY <1>7, RequestFacts DEF PutFails, Goto, Effect, ProcessOK, OwnerOK, Launches
  <2>3. StdioOK'
    BY <1>7, RequestFacts DEF PutFails, Goto, Effect, StdioOK
  <2>4. NothingLeft'
    BY <1>7, RequestFacts DEF PutFails, Goto, Effect, NothingLeft
  <2>5. Owns'
    BY <1>7, RequestFacts DEF PutFails, Goto, Effect, Owns
  <2>6. Queued'
    BY <1>7, RequestFacts DEF PutFails, Goto, Effect, Queued, Unasked, InQueue
  <2> QED BY <2>1, <2>2, <2>3, <2>4, <2>5, <2>6 DEF IInv, TypeOK
<1>8. CASE force_cleanup
  <2>1. OwnerOK'
    BY <1>8, EndsKeeps DEF force_cleanup, Goto, OwnerOK, Calls
  <2>2. ProcessOK'
    BY <1>8, EndsKeeps DEF force_cleanup, Goto, ProcessOK
  <2>3. StdioOK'
    BY <1>8, EndsKeeps DEF force_cleanup, Goto, StdioOK
  <2>4. NothingLeft'
    BY <1>8, EndsKeeps DEF force_cleanup, Goto, NothingLeft
  <2>5. Owns'
    BY <1>8, EndsKeeps DEF force_cleanup, Goto, Owns
  <2>6. Queued'
    BY <1>8, EndsKeeps DEF force_cleanup, Goto, Queued, Unasked, InQueue
  <2> QED BY <2>1, <2>2, <2>3, <2>4, <2>5, <2>6 DEF IInv, TypeOK
<1>9. CASE wait_for_console_string
  <2>1. OwnerOK'
    BY <1>9 DEF wait_for_console_string, Poll, OwnerOK, Calls
  <2>2. ProcessOK'
    BY <1>9 DEF wait_for_console_string, Poll, ProcessOK
  <2>3. StdioOK'
    BY <1>9 DEF wait_for_console_string, Poll, StdioOK
  <2>4. NothingLeft'
    BY <1>9 DEF wait_for_console_string, Poll, NothingLeft
  <2>5. Owns'
    BY <1>9 DEF wait_for_console_string, Poll, Owns
  <2>6. Queued'
    BY <1>9 DEF wait_for_console_string, Poll, Queued, Unasked, InQueue
  <2> QED BY <2>1, <2>2, <2>3, <2>4, <2>5, <2>6 DEF IInv, TypeOK
<1>10. CASE attempt
  <2>1. OwnerOK'
    BY <1>10 DEF attempt, OwnerOK, Calls
  <2>2. ProcessOK'
    BY <1>10 DEF attempt, ProcessOK
  <2>3. StdioOK'
    BY <1>10 DEF attempt, StdioOK
  <2>4. NothingLeft'
    BY <1>10 DEF attempt, NothingLeft
  <2>5. Owns'
    BY <1>10 DEF attempt, Owns
  <2>6. Queued'
    BY <1>10 DEF attempt, Queued, Unasked, InQueue
  <2> QED BY <2>1, <2>2, <2>3, <2>4, <2>5, <2>6 DEF IInv, TypeOK
<1>11. CASE reply
  <2>1. OwnerOK'
    BY <1>11, GivenUp DEF reply, GiveUp, OwnerOK, Calls
  <2>2. ProcessOK'
    BY <1>11, GivenUp DEF reply, GiveUp, ProcessOK
  <2>3. StdioOK'
    BY <1>11, GivenUp DEF reply, GiveUp, StdioOK
  <2>4. NothingLeft'
    BY <1>11, GivenUp DEF reply, GiveUp, NothingLeft
  <2>5. Owns'
    BY <1>11, GivenUp DEF reply, GiveUp, Owns
  <2>6. Queued'
    BY <1>11, GivenUp DEF reply, GiveUp, Queued, Unasked, InQueue
  <2> QED BY <2>1, <2>2, <2>3, <2>4, <2>5, <2>6 DEF IInv, TypeOK
<1>12. CASE terminated
  <2>1. OwnerOK'
    BY <1>12 DEF terminated, OwnerOK, Calls
  <2>2. ProcessOK'
    BY <1>12 DEF terminated, ProcessOK
  <2>3. StdioOK'
    BY <1>12 DEF terminated, StdioOK
  <2>4. NothingLeft'
    BY <1>12 DEF terminated, NothingLeft
  <2>5. Owns'
    BY <1>12 DEF terminated, Owns
  <2>6. Queued'
    BY <1>12 DEF terminated, Queued, Unasked, InQueue
  <2> QED BY <2>1, <2>2, <2>3, <2>4, <2>5, <2>6 DEF IInv, TypeOK
<1>13. CASE kill
  <2>1. OwnerOK'
    BY <1>13, EndsKeeps DEF kill, Goto, OwnerOK, Calls
  <2>2. ProcessOK'
    BY <1>13, EndsKeeps DEF kill, Goto, ProcessOK
  <2>3. StdioOK'
    BY <1>13, EndsKeeps DEF kill, Goto, StdioOK
  <2>4. NothingLeft'
    BY <1>13, EndsKeeps DEF kill, Goto, NothingLeft
  <2>5. Owns'
    BY <1>13, EndsKeeps DEF kill, Goto, Owns
  <2>6. Queued'
    BY <1>13, EndsKeeps DEF kill, Goto, Queued, Unasked, InQueue
  <2> QED BY <2>1, <2>2, <2>3, <2>4, <2>5, <2>6 DEF IInv, TypeOK
<1>14. CASE Boot
  <2>1. OwnerOK'
    BY <1>14 DEF Boot, OwnerOK
  <2>2. ProcessOK'
    BY <1>14 DEF Boot, ProcessOK, OwnerOK, Launches
  <2>3. StdioOK'
    BY <1>14 DEF Boot, StdioOK
  <2>4. NothingLeft'
    BY <1>14 DEF Boot, NothingLeft
  <2>5. Owns'
    BY <1>14 DEF Boot, Owns
  <2>6. Queued'
    BY <1>14 DEF Boot, Queued, Unasked, InQueue
  <2> QED BY <2>1, <2>2, <2>3, <2>4, <2>5, <2>6 DEF IInv, TypeOK
<1>15. CASE Accept
  <2>1. OwnerOK'
    BY <1>15 DEF Accept, OwnerOK
  <2>2. ProcessOK'
    BY <1>15 DEF Accept, ProcessOK
  <2>3. StdioOK'
    BY <1>15 DEF Accept, StdioOK
  <2>4. NothingLeft'
    BY <1>15 DEF Accept, NothingLeft
  <2>5. Owns'
    BY <1>15 DEF Accept, Owns
  <2>6. Queued'
    BY <1>15 DEF Accept, Queued, Unasked, InQueue
  <2> QED BY <2>1, <2>2, <2>3, <2>4, <2>5, <2>6 DEF IInv, TypeOK
<1>16. CASE Forward
  <2>1. OwnerOK'
    BY <1>16 DEF Forward, OwnerOK
  <2>2. ProcessOK'
    BY <1>16 DEF Forward, ProcessOK
  <2>3. StdioOK'
    BY <1>16 DEF Forward, StdioOK, Queued, Unasked
  <2>4. NothingLeft'
    BY <1>16 DEF Forward, NothingLeft
  <2>5. Owns'
    BY <1>16 DEF Forward, Owns
  <2>6. Queued'
    BY <1>16 DEF Forward, Queued, Unasked, InQueue
  <2> QED BY <2>1, <2>2, <2>3, <2>4, <2>5, <2>6 DEF IInv, TypeOK
<1>17. CASE DeadlinePasses
  <2>1. OwnerOK'
    BY <1>17 DEF DeadlinePasses, Timed, OwnerOK
  <2>2. ProcessOK'
    BY <1>17 DEF DeadlinePasses, Timed, ProcessOK
  <2>3. StdioOK'
    BY <1>17 DEF DeadlinePasses, Timed, StdioOK
  <2>4. NothingLeft'
    BY <1>17 DEF DeadlinePasses, Timed, NothingLeft
  <2>5. Owns'
    BY <1>17 DEF DeadlinePasses, Timed, Owns
  <2>6. Queued'
    BY <1>17 DEF DeadlinePasses, Timed, Queued, Unasked, InQueue
  <2> QED BY <2>1, <2>2, <2>3, <2>4, <2>5, <2>6 DEF IInv, TypeOK
<1>18. ASSUME NEW p \in Launches, BindApi(p) PROVE IInv'
  <2>1. OwnerOK'
    BY <1>18 DEF BindApi, OwnerOK
  <2>2. ProcessOK'
    <3>1. p \in 0 .. MaxLaunches
      BY DEF Launches
    <3>2. api' = [of |-> p, listens |-> FALSE] \/ api' = [of |-> p, listens |-> TRUE]
      BY <1>18 DEF BindApi
    <3>3. \A b \in BOOLEAN : [of |-> p, listens |-> b] \in [of : 0 .. MaxLaunches, listens : BOOLEAN]
      BY <3>1
    <3>4. api' \in [of : 0 .. MaxLaunches, listens : BOOLEAN]
      BY <3>2, <3>3
    <3> QED BY <1>18, <3>4 DEF BindApi, ProcessOK
  <2>3. StdioOK'
    BY <1>18 DEF BindApi, StdioOK
  <2>4. NothingLeft'
    BY <1>18 DEF BindApi, NothingLeft
  <2>5. Owns'
    <3>1. api'.of = p
      BY <1>18 DEF BindApi
    <3>2. p = handle
      BY <1>18 DEF BindApi, NothingLeft
    <3> QED BY <1>18, <3>1, <3>2 DEF BindApi, Owns
  <2>6. Queued'
    BY <1>18 DEF BindApi, Queued, Unasked, InQueue
  <2> QED BY <2>1, <2>2, <2>3, <2>4, <2>5, <2>6 DEF IInv, TypeOK
<1>19. ASSUME NEW p \in Launches, Exit(p) PROVE IInv'
  <2>1. OwnerOK'
    BY <1>19, EndsKeeps DEF Exit, OwnerOK
  <2>2. ProcessOK'
    BY <1>19, EndsKeeps DEF Exit, ProcessOK
  <2>3. StdioOK'
    BY <1>19, EndsKeeps DEF Exit, StdioOK
  <2>4. NothingLeft'
    BY <1>19, EndsKeeps DEF Exit, NothingLeft
  <2>5. Owns'
    BY <1>19, EndsKeeps DEF Exit, Owns
  <2>6. Queued'
    BY <1>19, EndsKeeps DEF Exit, Queued, Unasked, InQueue
  <2> QED BY <2>1, <2>2, <2>3, <2>4, <2>5, <2>6 DEF IInv, TypeOK
<1>20. CASE UNCHANGED vars
  <2>1. OwnerOK'
    BY <1>20 DEF vars, OwnerOK
  <2>2. ProcessOK'
    BY <1>20 DEF vars, ProcessOK
  <2>3. StdioOK'
    BY <1>20 DEF vars, StdioOK
  <2>4. NothingLeft'
    BY <1>20 DEF vars, NothingLeft
  <2>5. Owns'
    BY <1>20 DEF vars, Owns
  <2>6. Queued'
    BY <1>20 DEF vars, Queued, Unasked, InQueue
  <2> QED BY <2>1, <2>2, <2>3, <2>4, <2>5, <2>6 DEF IInv, TypeOK
<1> QED BY <1>1, <1>2, <1>3, <1>4, <1>5, <1>6, <1>7, <1>8, <1>9, <1>10, <1>11, <1>12, <1>13, <1>14, <1>15, <1>16, <1>17, <1>18, <1>19, <1>20 DEF Next, InCall

(* The inductive invariant holds always.                                   *)
LEMMA Invariant == Spec => []IInv
BY IInvInit, IInvStep, PTL DEF Spec

(* The state of the driver and its peers keeps its type, for any number of *)
(* launches: in particular at most one connection waits in the guest.      *)
THEOREM TypeCorrect == Spec => []TypeOK
<1>1. IInv => TypeOK
  BY DEF IInv
<1> QED BY <1>1, Invariant, PTL

(* Whichever call of start() failed, and however the process ended, no     *)
(* process but that of the current launch runs, none between launches, and *)
(* the console log is closed (firecracker.py:112-119).                     *)
THEOREM NothingIsLeft == Spec => []NothingLeft
<1>1. IInv => NothingLeft
  BY DEF IInv
<1> QED BY <1>1, Invariant, PTL

(* Requests and connections go to the sockets of the current launch, not   *)
(* to those an earlier one left behind (firecracker.py:125-128).           *)
THEOREM SocketsAreOwn == Spec => []OwnSockets
<1>1. IInv => OwnSockets
  BY DEF IInv, Owns, OwnSockets
<1> QED BY <1>1, Invariant, PTL

(* The connection connect_guest_port returns is the one that pid1 accepts, *)
(* however many attempts came before it (vsock_bridge.py:43-91).           *)
THEOREM AlwaysServed == Spec => []Served
<1>1. IInv => Served
  BY DEF IInv, Queued, InQueue, Served
<1> QED BY <1>1, Invariant, PTL

=============================================================================
