------------------------------ MODULE Session ------------------------------
(***************************************************************************)
(* The session manager of the archived agent-vm host                       *)
(* (archive/agent-vm/host/src/agentvm/session_manager.py): one reader      *)
(* thread takes the guest's output, records it in terminal.jsonl and sends *)
(* it to every attached client; one thread per client records what the     *)
(* client types and sends it to the guest; an accept thread adds clients.  *)
(* The list of clients and the file are guarded by locks that no thread    *)
(* holds across a blocking call, so each critical section is one step;     *)
(* work of one thread that no other can tell apart is joined to it.        *)
(***************************************************************************)
EXTENDS Integers, Sequences, FiniteSets

Seqs == INSTANCE SequencesExt

CONSTANTS
  Clients,
  Nobody,   \* no client
  MaxOut,   \* bound: chunks the guest writes
  MaxIn,    \* bound: chunks the clients type in all
  MaxFaults \* bound: clients and guests that stop reading, with their socket buffer
            \* full, and lines that cannot be written to the transcript

ASSUME SessionAssumption ==
  /\ Nobody \notin Clients /\ MaxOut \in Nat /\ MaxIn \in Nat /\ MaxFaults \in Nat

VARIABLES
  main,     \* the owner: how far start() and close() are
  out,      \* how many chunks the guest has written
  guest,    \* is the guest's end of the connection open?
  deaf,     \* does the guest no longer read?
  reader,   \* reader thread: at, the chunk it has, clients left to send it to
  acceptor, \* accept thread: at, and the client it has
  clients,  \* hub._clients
  conn,     \* conn[c]: c's end of its attach connection
  closed,   \* clients whose socket the hub has closed
  stalled,  \* clients that do not read
  pump,     \* pump[c]: where the thread of c is
  typed,    \* typed[c]: chunks c has sent
  taken,    \* taken[c]: chunks its thread has received
  log,      \* terminal.jsonl: log[c] is what was recorded of c, log[Nobody] of
            \* the guest; how lines of different origin alternate is left out
  unwritten,\* whose chunks could not be recorded
  got,      \* got[c]: guest chunks c has received
  guestIn   \* what the guest has received: <<client, n>>

threads == <<main, reader, acceptor, pump>>
peers   == <<out, guest, deaf, conn, stalled, typed>>
file    == <<log, unwritten>>
data    == <<clients, closed, taken, file, got, guestIn>>
vars    == <<threads, peers, data>>

Members(s) == {s[i] : i \in 1 .. Len(s)}
Once(s)    == \A i, j \in 1 .. Len(s) : s[i] = s[j] => i = j

TypeOK ==
  /\ main \in {"new", "reading", "open", "stopping", "closed"}
  /\ out \in 0 .. MaxOut /\ guest \in BOOLEAN /\ deaf \in BOOLEAN
  /\ reader \in [at : {"off", "recv", "send", "done"}, chunk : 0 .. MaxOut, left : Seq(Clients)]
  /\ Once(reader.left)
  /\ acceptor \in [at : {"off", "accept", "spawn", "done"}, client : Clients \cup {Nobody}]
  /\ clients \in Seq(Clients) /\ Once(clients)
  /\ conn \in [Clients -> {"away", "waiting", "open", "hungup"}]
  /\ closed \subseteq Clients /\ stalled \subseteq Clients
  /\ unwritten \subseteq Clients \cup {Nobody}
  /\ pump \in [Clients -> {"none", "recv", "send", "blocked", "remove", "done"}]
  /\ typed \in [Clients -> Nat] /\ taken \in [Clients -> Nat]
  /\ \A c \in Clients : taken[c] <= typed[c]
  /\ log \in [Clients \cup {Nobody} -> Seq(Nat)]
  /\ got \in [Clients -> Seq(1 .. MaxOut)]
  /\ guestIn \in Seq(Clients \X Nat)

Init ==
  /\ main = "new" /\ out = 0 /\ guest = TRUE /\ deaf = FALSE
  /\ reader = [at |-> "off", chunk |-> 0, left |-> << >>]
  /\ acceptor = [at |-> "off", client |-> Nobody]
  /\ clients = << >> /\ closed = {} /\ stalled = {}
  /\ conn = [c \in Clients |-> "away"] /\ pump = [c \in Clients |-> "none"]
  /\ typed = [c \in Clients |-> 0] /\ taken = [c \in Clients |-> 0]
  /\ log = [c \in Clients \cup {Nobody} |-> << >>] /\ unwritten = {}
  /\ got = [c \in Clients |-> << >>] /\ guestIn = << >>

-----------------------------------------------------------------------------
(* start(): the reader first, then the listener and its thread. *)
StartReader ==
  /\ main = "new" /\ main' = "reading"
  /\ reader' = [reader EXCEPT !.at = "recv"]
  /\ UNCHANGED <<acceptor, pump, peers, data>>

StartListener ==
  /\ main = "reading" /\ main' = "open"
  /\ acceptor' = [acceptor EXCEPT !.at = "accept"]
  /\ UNCHANGED <<reader, pump, peers, data>>

(* close(): the stop event, then the guest connection and the listener. *)
Close ==
  /\ \/ main = "open" /\ main' = "stopping"
     \/ main = "stopping" /\ main' = "closed"
  /\ UNCHANGED <<reader, acceptor, pump, peers, data>>

StopSet        == main \in {"stopping", "closed"}
StdioClosed    == main = "closed"
ListenerClosed == main = "closed"

-----------------------------------------------------------------------------
(* The guest and the clients. *)
GuestWrites ==
  /\ guest /\ out < MaxOut /\ out' = out + 1
  /\ UNCHANGED <<threads, guest, deaf, conn, stalled, typed, data>>

GuestExits ==
  /\ guest /\ guest' = FALSE
  /\ UNCHANGED <<threads, out, deaf, conn, stalled, typed, data>>

Connect(c) ==
  /\ conn[c] = "away" /\ main \in {"open", "stopping"}
  /\ conn' = [conn EXCEPT ![c] = "waiting"]
  /\ UNCHANGED <<threads, out, guest, deaf, stalled, typed, data>>

Type(c) ==
  /\ conn[c] \in {"waiting", "open"} /\ Seqs!FoldFunction(+, 0, typed) < MaxIn
  /\ typed' = [typed EXCEPT ![c] = @ + 1]
  /\ UNCHANGED <<threads, out, guest, deaf, conn, stalled, data>>

HangUp(c) ==
  /\ conn[c] \in {"waiting", "open"}
  /\ conn' = [conn EXCEPT ![c] = "hungup"]
  /\ UNCHANGED <<threads, out, guest, deaf, stalled, typed, data>>

Faulty == Cardinality(stalled) + Cardinality(unwritten) + (IF deaf THEN 1 ELSE 0) < MaxFaults

(* That a client no longer reads shows when the reader sends to it, and of  *)
(* the guest when a client's thread does.                                   *)
Stall(c) ==
  /\ conn[c] = "open" /\ c \notin stalled \cup closed /\ Faulty
  /\ reader.at = "send" /\ reader.left # << >> /\ c = Head(reader.left)
  /\ stalled' = stalled \cup {c}
  /\ UNCHANGED <<threads, out, guest, deaf, conn, typed, data>>

GuestStalls ==
  /\ guest /\ ~ deaf /\ ~ StdioClosed /\ Faulty /\ \E c \in Clients : pump[c] = "send"
  /\ deaf' = TRUE
  /\ UNCHANGED <<threads, out, guest, conn, stalled, typed, data>>

-----------------------------------------------------------------------------
(* TerminalRecorder.record: one line, or an error of open or write.         *)
record(from, n) ==
  /\ log' = [log EXCEPT ![from] = Append(@, n)]
  /\ UNCHANGED unwritten

RecordFails(from) ==
  /\ Faulty /\ unwritten' = unwritten \cup {from}
  /\ UNCHANGED log

(* _pump_guest_to_attach_clients and broadcast_from_guest. *)
ReaderEnds ==
  /\ StopSet \/ StdioClosed \/ (reader.chunk = out /\ ~ guest)
  /\ reader' = [reader EXCEPT !.at = "done"]
  /\ UNCHANGED file

\* mutant: the reader takes the newest output and skips what came before
ReaderRecv_Newest ==
  /\ reader.at = "recv"
  /\ \/ /\ reader.chunk < out
        /\ reader' = [at |-> "send", chunk |-> out, left |-> clients]
        /\ record(Nobody, reader'.chunk)
     \/ ReaderEnds
  /\ UNCHANGED <<main, acceptor, pump, peers, clients, closed, taken, got, guestIn>>

(* recv, record, then a copy of the list: what is received stays with this  *)
(* thread until it is recorded.  The loop ends on the stop event, on a      *)
(* closed socket and when record raises; but a recv that was blocked before *)
(* still returns what arrives.                                              *)
ReaderRecv ==
  /\ reader.at = "recv"
  /\ \/ /\ reader.chunk < out
        /\ reader' = [at |-> "send", chunk |-> reader.chunk + 1, left |-> clients]
        /\ record(Nobody, reader'.chunk)
     \/ /\ reader.chunk < out
        /\ reader' = [reader EXCEPT !.at = "done"]
        /\ RecordFails(Nobody)
     \/ ReaderEnds
  /\ UNCHANGED <<main, acceptor, pump, peers, clients, closed, taken, got, guestIn>>

(* remove_client *)
Without(s, c) == Seqs!RemoveFirst(s, c)

Remove(c) == clients' = Without(clients, c) /\ closed' = closed \cup {c}

(* sendall to c fails: c has hung up, or its socket was closed before the   *)
(* call.  Closing it does not wake a call that is blocked.                  *)
Gone(c) == conn[c] = "hungup" \/ c \in closed \ stalled

\* mutant: after a removal the rest of the chunk goes to the list of now
ReaderSend_Restarts ==
  /\ reader.at = "send"
  /\ \/ /\ reader.left = << >>
        /\ reader' = [reader EXCEPT !.at = "recv"]
        /\ UNCHANGED <<clients, closed, got>>
     \/ /\ reader.left # << >>
        /\ LET c == Head(reader.left) IN
             \/ /\ Gone(c)
                /\ reader' = [reader EXCEPT !.left = Without(clients, c)]
                /\ Remove(c) /\ UNCHANGED got
             \/ /\ c \notin closed /\ conn[c] = "open" /\ c \notin stalled
                /\ got' = [got EXCEPT ![c] = Append(@, reader.chunk)]
                /\ reader' = [reader EXCEPT !.left = Tail(@)]
                /\ UNCHANGED <<clients, closed>>
  /\ UNCHANGED <<main, acceptor, pump, peers, taken, file, guestIn>>

\* mutant: an error of sendall is not caught and ends the reader
ReaderSend_NotCaught ==
  /\ reader.at = "send"
  /\ IF reader.left = << >> THEN reader' = [reader EXCEPT !.at = "recv"] /\ UNCHANGED got
     ELSE LET c == Head(reader.left) IN
          IF Gone(c)
          THEN reader' = [reader EXCEPT !.at = "done"] /\ UNCHANGED got
          ELSE /\ c \notin stalled
               /\ got' = [got EXCEPT ![c] = Append(@, reader.chunk)]
               /\ reader' = [reader EXCEPT !.left = Tail(@)]
  /\ UNCHANGED <<main, acceptor, pump, peers, clients, closed, taken, file, guestIn>>

(* sendall: a client that is gone is removed, one that does not read is     *)
(* waited for.                                                              *)
ReaderSend ==
  /\ reader.at = "send"
  /\ \/ /\ reader.left = << >>
        /\ reader' = [reader EXCEPT !.at = "recv"]
        /\ UNCHANGED <<clients, closed, got>>
     \/ /\ reader.left # << >>
        /\ reader' = [reader EXCEPT !.left = Tail(@)]
        /\ LET c == Head(reader.left) IN
             \/ /\ Gone(c)
                /\ Remove(c) /\ UNCHANGED got
             \/ /\ c \notin closed /\ conn[c] = "open" /\ c \notin stalled
                /\ got' = [got EXCEPT ![c] = Append(@, reader.chunk)]
                /\ UNCHANGED <<clients, closed>>
  /\ UNCHANGED <<main, acceptor, pump, peers, taken, file, guestIn>>

-----------------------------------------------------------------------------
(* _accept_attach_clients: a client, which may have hung up already, is     *)
(* added before its thread starts.  A blocked accept outlives the close.    *)
Accept ==
  /\ acceptor.at = "accept"
  /\ \/ \E c \in Clients :
          /\ conn[c] = "waiting" \/ (conn[c] = "hungup" /\ pump[c] = "none")
          /\ conn' = [conn EXCEPT ![c] = IF @ = "waiting" THEN "open" ELSE @]
          /\ acceptor' = [at |-> "spawn", client |-> c]
          /\ clients' = Append(clients, c)
     \/ /\ ListenerClosed
        /\ acceptor' = [acceptor EXCEPT !.at = "done"]
        /\ UNCHANGED <<conn, clients>>
  /\ UNCHANGED <<main, reader, pump, out, guest, deaf, stalled, typed, closed, taken, file, got, guestIn>>

Spawn ==
  /\ acceptor.at = "spawn"
  /\ pump' = [pump EXCEPT ![acceptor.client] = "recv"]
  /\ acceptor' = [at |-> "accept", client |-> Nobody]
  /\ UNCHANGED <<main, reader, peers, data>>

-----------------------------------------------------------------------------
(* _pump_attach_client_to_guest and forward_to_guest. *)
PumpGoto(c, from, to) == pump[c] = from /\ pump' = [pump EXCEPT ![c] = to]

PumpEnds(c) ==
  /\ c \in closed \/ (taken[c] = typed[c] /\ conn[c] = "hungup")
  /\ PumpGoto(c, "recv", "remove") /\ UNCHANGED <<taken, file>>

\* mutant: what is received is counted twice
PumpRecv_CountsTwice(c) ==
  /\ c \notin closed /\ taken[c] < typed[c]
  /\ PumpGoto(c, "recv", "send")
  /\ taken' = [taken EXCEPT ![c] = @ + 2] /\ record(c, taken'[c])
  /\ UNCHANGED <<main, reader, acceptor, peers, clients, closed, got, guestIn>>

\* mutant: the end of the stream does not end the loop, only an error does
PumpRecv_IgnoresEof(c) ==
  /\ \/ /\ c \notin closed /\ taken[c] < typed[c]
        /\ taken' = [taken EXCEPT ![c] = @ + 1]
        /\ \/ record(c, taken'[c]) /\ PumpGoto(c, "recv", "send")
           \/ RecordFails(c) /\ PumpGoto(c, "recv", "remove")
     \/ c \in closed /\ PumpEnds(c)
  /\ UNCHANGED <<main, reader, acceptor, peers, clients, closed, got, guestIn>>

(* What is received is recorded; an error of that ends the thread.          *)
PumpRecv(c) ==
  /\ \/ /\ c \notin closed /\ taken[c] < typed[c]
        /\ taken' = [taken EXCEPT ![c] = @ + 1]
        /\ \/ record(c, taken'[c]) /\ PumpGoto(c, "recv", "send")
           \/ RecordFails(c) /\ PumpGoto(c, "recv", "remove")
     \/ PumpEnds(c)
  /\ UNCHANGED <<main, reader, acceptor, peers, clients, closed, got, guestIn>>

\* mutant: an error of sendall ends the thread without its finally clause
PumpSend_NoFinally(c) ==
  /\ \/ /\ StdioClosed \/ ~ guest
        /\ PumpGoto(c, "send", "done") /\ UNCHANGED guestIn
     \/ /\ ~ StdioClosed /\ guest
        /\ PumpGoto(c, "send", "recv") /\ guestIn' = Append(guestIn, <<c, taken[c]>>)
  /\ UNCHANGED <<main, reader, acceptor, peers, clients, closed, taken, file, got>>

(* An error of sendall ends the thread, through its finally clause.  To a   *)
(* guest that does not read it blocks, until the guest's end is closed: the *)
(* close of this end does not wake it.                                      *)
PumpSend(c) ==
  /\ \/ /\ ~ StdioClosed /\ guest /\ ~ deaf
        /\ PumpGoto(c, "send", "recv") /\ guestIn' = Append(guestIn, <<c, taken[c]>>)
     \/ /\ ~ StdioClosed /\ guest /\ deaf
        /\ PumpGoto(c, "send", "blocked") /\ UNCHANGED guestIn
     \/ /\ StdioClosed \/ ~ guest
        /\ PumpGoto(c, "send", "remove") /\ UNCHANGED guestIn
     \/ /\ ~ guest
        /\ PumpGoto(c, "blocked", "remove") /\ UNCHANGED guestIn
  /\ UNCHANGED <<main, reader, acceptor, peers, clients, closed, taken, file, got>>

PumpRemove(c) ==
  /\ PumpGoto(c, "remove", "done")
  /\ Remove(c)
  /\ UNCHANGED <<main, reader, acceptor, peers, taken, file, got, guestIn>>

Reader == ReaderRecv \/ ReaderSend

Acceptor == Accept \/ Spawn

Pump(c) == PumpRecv(c) \/ PumpSend(c) \/ PumpRemove(c)

Environment == \/ GuestWrites \/ GuestExits \/ GuestStalls \/ Close
               \/ \E c \in Clients : Connect(c) \/ Type(c) \/ HangUp(c) \/ Stall(c)

Next == StartReader \/ StartListener \/ Reader \/ Acceptor \/ Environment
        \/ \E c \in Clients : Pump(c)

Spec == Init /\ [][Next]_vars

(* Threads run, but a recv or accept that is blocked need not end when its  *)
(* socket is closed; nothing is assumed of the guest, the clients or the    *)
(* owner once it has started the session.                                   *)
ReaderRuns == Reader /\ (reader.at = "recv" => reader.chunk < out \/ ~ guest)

FairSpec == /\ Spec
            /\ WF_vars(StartReader \/ StartListener) /\ WF_vars(ReaderRuns) /\ WF_vars(Spawn)
            /\ \A c \in Clients : WF_vars(Pump(c))

-----------------------------------------------------------------------------
(* "tees every byte into terminal.jsonl" (session_manager.py:3): whatever  *)
(* a client or the guest has received was recorded before it, the guest's  *)
(* chunks in order, without a gap or a double, and so each client's.       *)
TranscriptFirst ==
  /\ \A c \in Clients : Members(got[c]) \subseteq Members(log[Nobody])
  /\ \A m \in Members(guestIn) : m[2] \in Members(log[m[1]])
  /\ \A c \in Clients \cup {Nobody} : \A i \in 1 .. Len(log[c]) : log[c][i] = i

(* Fan-out: a client sees the guest's output from the moment it is added,  *)
(* without a gap and without a double, whatever the others do              *)
(* (session_manager.py:67-71).                                             *)
Gapless == \A c \in Clients : \A i \in 1 .. Len(got[c]) - 1 :
             got[c][i + 1] = got[c][i] + 1

(* No thread leaves its client behind: when the thread of a client has     *)
(* ended, the client is off the list and its socket is closed.             *)
NoGhost == \A c \in Clients :
  pump[c] = "done" => c \notin Members(clients) /\ c \in closed

(* "Recording happens regardless of attach state"                          *)
(* (archive/docs/agent-vm-host/11-session-transcript-receivers.md:50), with *)
(* two exceptions: a client that does not hang up stops reading for good,   *)
(* whether or not its own thread has let it go, or the guest's own output   *)
(* cannot be written (session_manager.py:93-101).  Clients that come, hang  *)
(* up, or stall for a while and then hang up, client input that cannot be   *)
(* written, and a guest that does not read never stop the recording.        *)
RecordedUnlessStalled ==
  Len(log[Nobody]) < out ~>
    \/ Len(log[Nobody]) = out \/ StopSet \/ Nobody \in unwritten
    \/ [](\E c \in stalled : conn[c] = "open")

(* A client that hangs up is let go in the end, also while the session is  *)
(* being closed (session_manager.py:121-132), unless its thread is stuck in *)
(* a send to a guest that stays and does not read (session_manager.py:105). *)
LetGo == \A c \in Clients :
  conn[c] = "hungup" /\ pump[c] # "none" ~>
    \/ c \in closed /\ c \notin Members(clients)
    \/ [](pump[c] = "blocked" /\ guest)
=============================================================================
