------------------------------- MODULE Launch -------------------------------
(***************************************************************************)
(* A guest of the archived agent-vm host, from start() to stop(): the      *)
(* Firecracker driver (archive/agent-vm/host/src/agentvm/firecracker.py),  *)
(* the vsock handshake (vsock_bridge.py) and, as their peers, the          *)
(* Firecracker process and the guest's pid1 (guest/pid1-init/src/main.rs). *)
(* One thread calls; every call may find that the process has died or that *)
(* its time is over.  The VM has a vsock device.  Session goes on where    *)
(* at = "session".                                                         *)
(***************************************************************************)
EXTENDS Naturals, Sequences

CONSTANT MaxLaunches \* bound: calls of start()

ASSUME LaunchAssumption == MaxLaunches \in Nat \ {0}

VARIABLES
  at,        \* the call the owner is in, and how far
  late,      \* has the deadline of that call passed?
  launches,  \* calls of start()
  handle,    \* _process: the launch it belongs to, 0 for None
  consoleFh, \* is _console_fh open?
  puts,      \* requests Firecracker has accepted
  running,   \* launches whose Firecracker process runs
  api,       \* the file at api_socket: whose it is (0: none), and if it is listened on
  uds,       \* whose the file at vsock_uds_path is
  console,   \* launches whose liveness line is in console_log
  guest,     \* the guest of the current process
  backlog,   \* its listener's queue: connections the host has given up or not
  served,    \* the connection pid1 has accepted
  conn       \* the connection of the current attempt

owner   == <<at, late, launches, handle, consoleFh, puts>>
process == <<running, api, uds, console, guest>>
stdio   == <<backlog, served, conn>>
vars    == <<owner, process, stdio>>

Launches == 1 .. MaxLaunches
Requests == <<"boot-source", "drives", "machine-config", "vsock", "InstanceStart">>

Calls == {"wait_api", "put", "cleanup", "wait_console", "connect", "recv", "terminate", "kill"}
Timed == Calls \ {"put", "cleanup", "kill"}

OwnerOK ==
  /\ at \in Calls \cup {"idle", "up", "failed", "session"} /\ late \in BOOLEAN
  /\ launches \in 0 .. MaxLaunches /\ handle \in 0 .. launches
  /\ consoleFh \in BOOLEAN /\ puts \in 0 .. Len(Requests)

ProcessOK ==
  /\ running \subseteq Launches /\ console \subseteq Launches
  /\ api \in [of : 0 .. MaxLaunches, listens : BOOLEAN] /\ uds \in 0 .. MaxLaunches
  /\ guest \in {"off", "booting", "alive", "bound", "serving"}

StdioOK ==
  /\ backlog \in {<< >>, <<"kept">>, <<"given up">>}
  /\ served \in {"none", "kept", "given up"}
  /\ conn \in {"none", "sent", "queued", "answered", "closed", "malformed"}

TypeOK == OwnerOK /\ ProcessOK /\ StdioOK

Init ==
  /\ at = "idle" /\ late = FALSE /\ launches = 0 /\ handle = 0
  /\ consoleFh = FALSE /\ puts = 0
  /\ running = {} /\ api = [of |-> 0, listens |-> FALSE] /\ uds = 0 /\ console = {}
  /\ guest = "off" /\ backlog = << >> /\ served = "none" /\ conn = "none"

is_running == handle \in running

-----------------------------------------------------------------------------
(* What becomes of the guest and the connections when the process ends.     *)
Ends(p) ==
  /\ running' = running \ {p}
  /\ guest' = IF p = handle THEN "off" ELSE guest
  /\ backlog' = IF p = handle THEN << >> ELSE backlog
  /\ conn' = IF p = handle /\ conn \in {"sent", "queued"} THEN "closed" ELSE conn
  /\ UNCHANGED <<api, uds, console, served>>

Goto(from, to) == at = from /\ at' = to

\* mutant: the sockets of an earlier process are not removed
start_KeepsSockets ==
  /\ at = "idle" /\ launches < MaxLaunches
  /\ launches' = launches + 1 /\ late' = FALSE /\ consoleFh' = TRUE /\ puts' = 0
  /\ \/ at' = "wait_api" /\ handle' = launches' /\ running' = running \cup {launches'}
     \/ at' = "failed" /\ UNCHANGED <<handle, running>>
  /\ guest' = "off" /\ backlog' = << >> /\ served' = "none" /\ conn' = "none"
  /\ UNCHANGED <<api, uds, console>>

(* start(): leftover sockets go, the log is opened for appending; Popen may *)
(* raise, outside of the try.                                               *)
start ==
  /\ at = "idle" /\ launches < MaxLaunches
  /\ launches' = launches + 1 /\ late' = FALSE /\ consoleFh' = TRUE /\ puts' = 0
  /\ api' = [of |-> 0, listens |-> FALSE] /\ uds' = 0
  /\ \/ at' = "wait_api" /\ handle' = launches' /\ running' = running \cup {launches'}
     \/ at' = "failed" /\ UNCHANGED <<handle, running>>
  /\ guest' = "off" /\ backlog' = << >> /\ served' = "none" /\ conn' = "none"
  /\ UNCHANGED console

(* _poll_until: the deadline is looked at first, then the process, then the *)
(* condition; each time after a sleep.                                      *)
Poll(condition, found, raised) ==
  /\ IF late \/ ~ is_running THEN at' = raised ELSE condition /\ at' = found
  /\ UNCHANGED <<late, launches, handle, consoleFh, puts, process, stdio>>

wait_for_api_socket == at = "wait_api" /\ Poll(api.of # 0, "put", "cleanup")

StartWait ==
  /\ Goto("up", "wait_console") /\ late' = FALSE
  /\ UNCHANGED <<launches, handle, consoleFh, puts, process, stdio>>

wait_for_console_string == at = "wait_console" /\ Poll(console # {}, "up", "failed")

(* What Firecracker does on the next request.                               *)
Effect ==
  LET request == Requests[puts + 1] IN
  /\ uds' = IF request = "vsock" THEN handle ELSE uds
  /\ guest' = IF request = "InstanceStart" THEN "booting" ELSE guest

put ==
  /\ at = "put" /\ is_running /\ api = [of |-> handle, listens |-> TRUE]
  /\ puts' = puts + 1
  /\ at' = IF puts' = Len(Requests) THEN "up" ELSE "put"
  /\ Effect
  /\ UNCHANGED <<late, launches, handle, consoleFh, running, api, console, stdio>>

(* _put raises: nobody listens, a reply that is not 2xx, or none within 5 s *)
(* to a request that may have been carried out.                             *)
PutFails ==
  /\ Goto("put", "cleanup")
  /\ \/ UNCHANGED <<uds, guest>>
     \/ is_running /\ api = [of |-> handle, listens |-> TRUE] /\ Effect
  /\ UNCHANGED <<late, launches, handle, consoleFh, puts, running, api, console, stdio>>

\* mutant: only the log is closed
force_cleanup_LogOnly ==
  /\ Goto("cleanup", "idle")
  /\ consoleFh' = FALSE
  /\ UNCHANGED <<late, launches, handle, puts, process, stdio>>

(* _force_cleanup, then the exception leaves start().                       *)
force_cleanup ==
  /\ Goto("cleanup", "idle")
  /\ consoleFh' = FALSE
  /\ Ends(handle)
  /\ UNCHANGED <<late, launches, handle, puts>>

-----------------------------------------------------------------------------
(* stop(), also when an earlier call has failed.                            *)
stop ==
  /\ at \in {"up", "session", "failed"}
  /\ late' = FALSE
  /\ at' = IF is_running THEN "terminate" ELSE "idle"
  /\ consoleFh' = (consoleFh /\ (is_running \/ handle = 0))
  /\ UNCHANGED <<launches, handle, puts, process, stdio>>

\* mutant: the wait for the process has no limit
terminated_WaitsOn ==
  /\ at = "terminate" /\ ~ is_running
  /\ at' = "idle" /\ consoleFh' = FALSE
  /\ UNCHANGED <<late, launches, handle, puts, process, stdio>>

(* process.wait(timeout), and kill() when it expires.                       *)
terminated ==
  /\ at = "terminate"
  /\ \/ ~ is_running /\ at' = "idle" /\ consoleFh' = FALSE
     \/ is_running /\ late /\ at' = "kill" /\ UNCHANGED consoleFh
  /\ UNCHANGED <<late, launches, handle, puts, process, stdio>>

kill ==
  /\ Goto("kill", "idle")
  /\ consoleFh' = FALSE
  /\ Ends(handle)
  /\ UNCHANGED <<late, launches, handle, puts>>

-----------------------------------------------------------------------------
(* connect_guest_port, once per boot.                                       *)
StartConnect ==
  /\ Goto("up", "connect") /\ late' = FALSE
  /\ UNCHANGED <<launches, handle, consoleFh, puts, process, stdio>>

(* An attempt: without a process connect fails, and the loop sleeps.        *)
attempt ==
  /\ at = "connect"
  /\ IF late THEN at' = "failed" /\ UNCHANGED conn
     ELSE uds = handle /\ is_running /\ at' = "recv" /\ conn' = "sent"
  /\ UNCHANGED <<late, launches, handle, consoleFh, puts, process, backlog, served>>

(* The socket is closed, and a guest that has it in its queue is not told.  *)
GiveUp == conn' = "none" /\ backlog' = [i \in DOMAIN backlog |-> "given up"]

\* mutant: each attempt has a short limit of its own
reply_ShortLimit ==
  /\ at = "recv"
  /\ \/ conn = "answered" /\ at' = "session" /\ UNCHANGED <<conn, backlog>>
     \/ conn = "malformed" /\ at' = "failed" /\ GiveUp
     \/ conn # "answered" /\ conn # "malformed" /\ at' = "connect" /\ GiveUp
  /\ UNCHANGED <<late, launches, handle, consoleFh, puts, process, served>>

\* mutant: a connection closed without a reply is an error like any other
reply_EmptyRaises ==
  /\ at = "recv"
  /\ \/ conn = "answered" /\ at' = "session" /\ UNCHANGED <<conn, backlog>>
     \/ conn \in {"malformed", "closed"} /\ at' = "failed" /\ GiveUp
     \/ conn \in {"sent", "queued"} /\ late /\ at' = "connect" /\ GiveUp
  /\ UNCHANGED <<late, launches, handle, consoleFh, puts, process, served>>

(* _recv_handshake_line and what follows: an answer counts also after the   *)
(* deadline; no reply, an error or recv's limit lead to another attempt.    *)
reply ==
  /\ at = "recv"
  /\ \/ conn = "answered" /\ at' = "session" /\ UNCHANGED <<conn, backlog>>
     \/ conn = "malformed" /\ at' = "failed" /\ GiveUp
     \/ /\ conn = "closed" \/ (conn \in {"sent", "queued"} /\ late)
        /\ at' = "connect" /\ GiveUp
  /\ UNCHANGED <<late, launches, handle, consoleFh, puts, process, served>>

-----------------------------------------------------------------------------
(* Firecracker and the guest.                                               *)
BindApi(p) ==
  /\ p \in running
  /\ \/ api.of = 0 /\ api' = [of |-> p, listens |-> FALSE]
     \/ api = [of |-> p, listens |-> FALSE] /\ api' = [of |-> p, listens |-> TRUE]
  /\ UNCHANGED <<owner, running, uds, console, guest, stdio>>

(* It ends: by SIGTERM, a crash, or a panic of the guest.                   *)
Exit(p) == p \in running /\ Ends(p) /\ UNCHANGED owner

(* main.rs: the liveness line, the listener, and one accept.                *)
Boot ==
  /\ is_running
  /\ \/ guest = "booting" /\ guest' = "alive" /\ console' = console \cup {handle}
     \/ guest = "alive" /\ guest' = "bound" /\ UNCHANGED console
  /\ UNCHANGED <<owner, running, api, uds, stdio>>

Accept ==
  /\ guest = "bound" /\ backlog # << >>
  /\ guest' = "serving" /\ served' = Head(backlog) /\ backlog' = Tail(backlog)
  /\ UNCHANGED <<owner, running, api, uds, console, conn>>

(* A CONNECT is passed on to a listener, and refused by closing without     *)
(* one; the guest's kernel answers before pid1 accepts.                     *)
Forward ==
  /\ \/ conn = "sent" /\ guest \in {"bound", "serving"}
        /\ conn' = "queued" /\ backlog' = Append(backlog, "kept")
     \/ conn = "sent" /\ guest \notin {"bound", "serving"}
        /\ conn' = "closed" /\ UNCHANGED backlog
     \/ conn = "queued" /\ conn' = "answered" /\ UNCHANGED backlog
     \/ conn = "queued" /\ conn' = "malformed" /\ UNCHANGED backlog
  /\ UNCHANGED <<owner, process, served>>

DeadlinePasses ==
  /\ at \in Timed /\ ~ late /\ late' = TRUE
  /\ UNCHANGED <<at, launches, handle, consoleFh, puts, process, stdio>>

-----------------------------------------------------------------------------
InCall == \/ wait_for_api_socket \/ put \/ PutFails \/ force_cleanup \/ wait_for_console_string
          \/ attempt \/ reply \/ terminated \/ kill

Next == \/ start \/ StartWait \/ StartConnect \/ stop \/ InCall
        \/ Boot \/ Accept \/ Forward \/ DeadlinePasses
        \/ \E p \in Launches : BindApi(p) \/ Exit(p)

Spec == Init /\ [][Next]_vars

(* The calling thread runs and time passes; nothing is assumed of           *)
(* Firecracker or the guest.                                                *)
FairSpec == Spec /\ WF_vars(InCall) /\ WF_vars(DeadlinePasses)

-----------------------------------------------------------------------------
(* "Used both when start() fails partway through and by stop()'s own        *)
(* force-kill path" (firecracker.py:114): the only process that runs is     *)
(* the one _process names, and between a launch and the next none does, and *)
(* the log is closed, whichever call failed.  The exception is a Popen that *)
(* raises at the first launch: stop() then returns at once.                 *)
NothingLeft ==
  /\ running \subseteq {handle}
  /\ at = "idle" => running = {} /\ (consoleFh => handle = 0)

(* A launch never talks to what an earlier process has left: requests and   *)
(* connections go to sockets of the process just started                    *)
(* (firecracker.py:125-128).                                                *)
OwnSockets ==
  /\ at = "put" => api.of = handle
  /\ at \in {"up", "connect", "recv"} => uds = handle

(* The guest serves the connection that was returned: pid1 accepts one      *)
(* connection only, so none that the host gave up may come before it        *)
(* (vsock_bridge.py:69, main.rs:25).                                        *)
Served == at = "session" /\ is_running =>
  IF guest = "serving" THEN served = "kept" /\ backlog = << >>
  ELSE guest = "bound" /\ backlog = <<"kept">>

(* Every call ends, whatever Firecracker and the guest do.                  *)
CallsEnd == at \in Calls ~> at \notin Calls

(* "indistinguishable from a boot-timing race" (vsock_bridge.py:49): a      *)
(* guest that is not ready yet is no reason to fail before the deadline.    *)
Patient == at = "connect" ~>
  at = "session" \/ late \/ conn = "malformed" \/ ~ is_running

-----------------------------------------------------------------------------
(* What a launch has done by the time the owner is where it is: its sockets *)
(* are its own, and until a connection is asked for nobody waits in the     *)
(* guest's queue.                                                           *)
Owns ==
  /\ at = "wait_api" => api.of \in {0, handle} /\ puts = 0
  /\ at = "put" => /\ api.of = handle /\ puts < Len(Requests)
                   /\ puts = 4 => uds = handle
  /\ at \in {"up", "wait_console", "connect", "recv"} => uds = handle

Unasked == backlog = << >> /\ guest # "serving"

InQueue == IF guest = "serving" THEN served = "kept" /\ backlog = << >>
           ELSE guest = "bound" /\ backlog = <<"kept">>

Queued ==
  /\ at \in {"wait_api", "put", "up", "wait_console"} => Unasked
  /\ at = "connect" /\ ~ late => Unasked
  /\ at = "recv" /\ conn \in {"sent", "closed"} => Unasked
  /\ at = "recv" /\ conn \in {"queued", "answered", "malformed"} /\ is_running => InQueue
  /\ at = "recv" => conn # "none"
  /\ at = "session" => conn = "answered" /\ (is_running => InQueue)
  /\ conn \in {"sent", "queued"} => at = "recv"

(* The inductive invariant: with it a step can be proved to keep what       *)
(* NothingLeft, OwnSockets and Served promise.                              *)
IInv == TypeOK /\ NothingLeft /\ Owns /\ Queued
=============================================================================
