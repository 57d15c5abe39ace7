----------------------------- MODULE GuestUnits -----------------------------
(***************************************************************************)
(* The units of one guest (modules/guests.nix and                          *)
(* modules/guest-proxy/default.nix): Firecracker, its proxy, the proxy's   *)
(* entry socket, the forwarder that a connection to the socket starts, and *)
(* the console logger.  What systemd does with the dependencies these      *)
(* files declare is external, one operator or action per rule.  nftables   *)
(* is up.                                                                  *)
(***************************************************************************)
EXTENDS Naturals

CONSTANTS
  MaxCommands, \* bound: commands of the operator
  MaxFailures, \* bound: crashes and failing starts
  MaxLines     \* bound: console lines of the guest

ASSUME GuestUnitsAssumption ==
  MaxCommands \in Nat /\ MaxFailures \in Nat /\ MaxLines \in Nat

Units == {"entry", "proxy", "forwarder", "log", "guest"}

(* <<u, v>>: u has the dependency on v.                                     *)
\* mutant: the guest only requires the proxy and the logger
BindsTo_RequiresOnly == {}
BindsTo  == {<<"guest", "proxy">>, <<"guest", "log">>}
Requires == {<<"guest", "proxy">>, <<"guest", "log">>, \* BindsTo included
             <<"proxy", "entry">>, <<"forwarder", "proxy">>}
PartOf   == {<<"proxy", "guest">>, <<"log", "guest">>, <<"entry", "proxy">>}
\* mutant: the logger is not ordered before the guest
After_NotLog == {<<"guest", "proxy">>, <<"proxy", "entry">>,
                 <<"forwarder", "proxy">>, <<"forwarder", "entry">>}
After    == {<<"guest", "proxy">>, <<"guest", "log">>, <<"proxy", "entry">>,
             <<"forwarder", "proxy">>, <<"forwarder", "entry">>}
\* mutant: the logger may stay without a guest
StopWhenUnneeded_NotLog == {"proxy", "entry"}
StopWhenUnneeded == {"proxy", "log", "entry"}

VARIABLES
  state,     \* state[u]: the unit's active state ("failed" counts as inactive)
  job,       \* job[u]: its job, queued or running
  mitmproxy, \* the process of the proxy
  logger,    \* the process of the logger: opening the FIFO, or svlogd
  vm,        \* the process of the guest: opening the FIFO, or Firecracker
  sockets,   \* are Firecracker's API and vsock sockets there?
  pipe,      \* console lines in the FIFO
  lines,     \* console lines written
  lost,      \* has one been lost?
  excused,   \* has the logger crashed or outlived the limit of its stop with the
             \* guest gone, or has the guest been told to start while it stopped?
  commands, failures

console   == <<pipe, lines, lost, excused>>
processes == <<mitmproxy, logger, vm, sockets>>
counts    == <<commands, failures>>
vars      == <<state, job, processes, console, counts>>

TypeOK ==
  /\ state \in [Units -> {"inactive", "activating", "active", "deactivating"}]
  /\ job \in [Units -> {"none", "start", "stop", "restart"}]
  /\ mitmproxy \in {"none", "starting", "listening"}
  /\ logger \in {"none", "opening", "reading"} /\ vm \in {"none", "opening", "running"}
  /\ sockets \in BOOLEAN /\ lost \in BOOLEAN /\ excused \in BOOLEAN
  /\ lines \in 0 .. MaxLines /\ pipe \in 0 .. lines
  /\ commands \in 0 .. MaxCommands /\ failures \in 0 .. MaxFailures

Init ==
  /\ state = [u \in Units |-> "inactive"] /\ job = [u \in Units |-> "none"]
  /\ mitmproxy = "none" /\ logger = "none" /\ vm = "none" /\ sockets = FALSE
  /\ pipe = 0 /\ lines = 0 /\ lost = FALSE /\ excused = FALSE
  /\ commands = 0 /\ failures = 0

-----------------------------------------------------------------------------
(* systemd: transactions.                                                   *)
(* What u reaches is in every set that holds u and is closed under rel.     *)
Reached(rel, u) ==
  {v \in Units : \A S \in SUBSET Units :
     u \in S /\ (\A e \in rel : e[1] \in S => e[2] \in S) => v \in S}

Reversed(rel) == {<<e[2], e[1]>> : e \in rel}

Wanted    == [u \in Units |-> Reached(Requires, u)]
StopsWith == [u \in Units |-> Reached(Reversed(Requires \cup PartOf), u)]

(* A restart goes on to the units that are up, a failed start to those that *)
(* are to start.                                                            *)
RestartsWith(u) == Reached({e \in Reversed(Requires \cup PartOf) :
                              state[e[2]] \in {"active", "activating"}}, u)
FailsWith(u) == Reached({e \in Reversed(Requires) : job[e[2]] = "start"}, u)

(* A start keeps a pending restart, and replaces a pending stop.            *)
Pulled(wanted) == [v \in Units |->
  IF v \in wanted /\ job[v] # "restart" /\ (state[v] # "active" \/ job[v] = "stop")
  THEN "start" ELSE job[v]]

Started(u) == Pulled(Wanted[u])

Stopped(u) == [v \in Units |->
  IF v \in StopsWith[u] /\ (state[v] # "inactive" \/ job[v] # "none") THEN "stop" ELSE job[v]]

Restarted(u) ==
  LET restarts == RestartsWith(u)
      others   == Pulled(UNION {Wanted[w] : w \in restarts})
  IN [v \in Units |-> IF v \in restarts THEN "restart" ELSE others[v]]

(* A stop comes before a start, and of two stops the later unit's first.    *)
Waits(u) == \E v \in Units :
  \/ <<v, u>> \in After /\ job[v] \in {"stop", "restart"}
  \/ <<u, v>> \in After /\ job[u] = "start" /\ job[v] # "none"

(* The unit has become inactive: that ends a stop, and half of a restart.   *)
Inactive(u) ==
  /\ state' = [state EXCEPT ![u] = "inactive"]
  /\ job' = [job EXCEPT ![u] = CASE @ = "stop" -> "none" [] @ = "restart" -> "start" [] OTHER -> @]

(* A failed start fails the starts that require it.                         *)
StartFails(u) ==
  /\ state' = [state EXCEPT ![u] = "inactive"]
  /\ LET fails == IF job[u] = "start" THEN FailsWith(u) ELSE {} IN
       job' = [v \in Units |-> IF v \in fails THEN "none" ELSE job[v]]

Active(u) == state' = [state EXCEPT ![u] = "active"] /\ job' = [job EXCEPT ![u] = "none"]

-----------------------------------------------------------------------------
(* A start that comes while the guest is stopping takes the place of its    *)
(* stop job, and a restart of the logger then waits for it no longer.       *)
Command(u) ==
  /\ commands < MaxCommands /\ commands' = commands + 1
  /\ job' \in {Started(u), Stopped(u), Restarted(u)}
  /\ excused' = (excused \/ (state["guest"] = "deactivating" /\ job'["guest"] = "start"))
  /\ UNCHANGED <<state, processes, pipe, lines, lost, failures>>

Failure == failures < MaxFailures /\ failures' = failures + 1

Runs(u, what, from) == job[u] \in what /\ ~ Waits(u) /\ state[u] \in from

(* A job that is done as soon as it runs.                                   *)
Nothing(u) ==
  /\ \/ Runs(u, {"start"}, {"active"}) /\ Active(u)
     \/ Runs(u, {"stop", "restart"}, {"inactive"}) /\ Inactive(u)
  /\ UNCHANGED <<processes, console, counts>>

(* A socket does not start when its service is there already.               *)
StartEntry ==
  /\ Runs("entry", {"start"}, {"inactive"})
  /\ \/ state["forwarder"] = "inactive" /\ Active("entry") /\ UNCHANGED failures
     \/ state["forwarder"] = "inactive" /\ StartFails("entry") /\ Failure
     \/ state["forwarder"] # "inactive" /\ StartFails("entry") /\ UNCHANGED failures
  /\ UNCHANGED <<processes, console, commands>>

(* A program in the guest connects to its proxy.                            *)
Connection ==
  /\ vm = "running" /\ state["entry"] = "active" /\ job["entry"] # "stop"
  /\ state["forwarder"] = "inactive" /\ job["forwarder"] = "none"
  /\ job' = Started("forwarder")
  /\ UNCHANGED <<state, processes, console, counts>>

StartForwarder ==
  /\ Runs("forwarder", {"start"}, {"inactive"}) /\ Active("forwarder")
  /\ UNCHANGED <<processes, console, counts>>

StartProxy ==
  /\ Runs("proxy", {"start"}, {"inactive"})
  /\ state' = [state EXCEPT !["proxy"] = "activating"] /\ mitmproxy' = "starting"
  /\ UNCHANGED <<job, logger, vm, sockets, console, counts>>

Listen ==
  /\ mitmproxy = "starting" /\ mitmproxy' = "listening"
  /\ UNCHANGED <<state, job, logger, vm, sockets, console, counts>>

\* mutant: READY is sent when the addon is loaded
running_AtLoad ==
  /\ state["proxy"] = "activating" /\ mitmproxy # "none"
  /\ Active("proxy")
  /\ UNCHANGED <<processes, console, counts>>

(* Guard.running: the listener is there, READY.                             *)
running ==
  /\ state["proxy"] = "activating" /\ mitmproxy = "listening"
  /\ Active("proxy")
  /\ UNCHANGED <<processes, console, counts>>

(* A wrong CA key, an addon that raises, or a crash.                        *)
ProxyFails ==
  /\ Failure /\ mitmproxy # "none" /\ mitmproxy' = "none"
  /\ IF state["proxy"] = "activating" THEN StartFails("proxy") ELSE Inactive("proxy")
  /\ UNCHANGED <<logger, vm, sockets, console, commands>>

\* mutant: the logger counts as started when it has opened the FIFO
StartLog_WhenOpen ==
  /\ Runs("log", {"start"}, {"inactive"})
  /\ state' = [state EXCEPT !["log"] = "activating"] /\ logger' = "opening"
  /\ UNCHANGED <<job, mitmproxy, vm, sockets, console, counts>>

StartLog ==
  /\ Runs("log", {"start"}, {"inactive"})
  /\ Active("log") /\ logger' = "opening"
  /\ UNCHANGED <<mitmproxy, vm, sockets, console, counts>>

(* Bound to units that are not active it does not start.                    *)
StartGuest ==
  /\ Runs("guest", {"start"}, {"inactive"})
  /\ IF \A e \in BindsTo : state[e[2]] = "active"
     THEN Active("guest") /\ vm' = "opening"
     ELSE StartFails("guest") /\ UNCHANGED vm
  /\ UNCHANGED <<mitmproxy, logger, sockets, console, counts>>

(* The FIFO opens when both ends do; then the script removes leftover       *)
(* sockets and Firecracker makes its own.                                   *)
OpenFifo ==
  /\ logger # "none" /\ vm # "none" /\ (logger = "opening" \/ vm = "opening")
  /\ state["guest"] = "active"
  /\ logger' = "reading" /\ vm' = "running" /\ sockets' = TRUE
  /\ UNCHANGED <<state, job, mitmproxy, console, counts>>

GuestWrites ==
  /\ vm = "running" /\ lines < MaxLines /\ lines' = lines + 1
  /\ IF logger = "reading" THEN pipe' = pipe + 1 /\ UNCHANGED lost
     ELSE lost' = TRUE /\ UNCHANGED pipe
  /\ UNCHANGED <<state, job, processes, excused, counts>>

-----------------------------------------------------------------------------
Stop(u) ==
  /\ Runs(u, {"stop", "restart"}, {"active", "activating"})
  /\ state' = [state EXCEPT ![u] = "deactivating"]
  /\ UNCHANGED <<job, processes, console, counts>>

(* Neither the socket nor the forwarder has more to do.                     *)
Gone(u) ==
  /\ u \in {"entry", "forwarder"} /\ state[u] = "deactivating" /\ Inactive(u)
  /\ UNCHANGED <<processes, console, counts>>

ProxyGone ==
  /\ state["proxy"] = "deactivating" /\ Inactive("proxy") /\ mitmproxy' = "none"
  /\ UNCHANGED <<logger, vm, sockets, console, counts>>

(* Firecracker ends by the stop's signal, or on its own.                    *)
VmExits ==
  /\ vm # "none" /\ vm' = "none"
  /\ \/ state["guest"] = "deactivating" /\ UNCHANGED <<state, failures>>
     \/ /\ state["guest"] = "active" /\ vm = "running" /\ Failure
        /\ state' = [state EXCEPT !["guest"] = "deactivating"]
  /\ UNCHANGED <<job, mitmproxy, logger, sockets, console, commands>>

(* rm -f of both sockets, also after a crash.                               *)
ExecStopPost ==
  /\ state["guest"] = "deactivating" /\ vm = "none"
  /\ sockets' = FALSE /\ Inactive("guest")
  /\ UNCHANGED <<mitmproxy, logger, vm, console, counts>>

\* mutant: reading goes on at the end of the data
LoggerReads_Beyond ==
  /\ logger = "reading" /\ pipe' = pipe - 1
  /\ UNCHANGED <<state, job, processes, lines, lost, excused, counts>>

LoggerReads ==
  /\ logger = "reading" /\ pipe > 0 /\ pipe' = pipe - 1
  /\ UNCHANGED <<state, job, processes, lines, lost, excused, counts>>

LoggerGone ==
  /\ logger' = "none" /\ Inactive("log")
  /\ lost' = (lost \/ pipe > 0) /\ pipe' = 0
  /\ UNCHANGED <<mitmproxy, vm, sockets, lines, commands>>

(* svlogd ends at EOF; preStop, if it waits for that, ends too.             *)
Eof == /\ logger = "reading" /\ vm # "running" /\ pipe = 0
       /\ LoggerGone /\ UNCHANGED <<excused, failures>>

(* preStop has waited its 10 s: SIGTERM.                                    *)
PreStopEnds ==
  /\ state["log"] = "deactivating" /\ logger # "none"
  /\ excused' = (excused \/ vm = "none")
  /\ LoggerGone /\ UNCHANGED failures

LoggerCrashes == logger # "none" /\ excused' = TRUE /\ LoggerGone /\ Failure

(* The entry or the forwarder fails on its own: what only requires it goes  *)
(* on.                                                                      *)
Fails(u) ==
  /\ u \in {"entry", "forwarder"} /\ state[u] = "active" /\ Inactive(u) /\ Failure
  /\ UNCHANGED <<processes, console, commands>>

(* systemd: BindsTo and StopWhenUnneeded.                                   *)
StopWhenBound ==
  /\ state["guest"] = "active" /\ job["guest"] = "none"
  /\ \E e \in BindsTo : state[e[2]] = "inactive" /\ job[e[2]] = "none"
  /\ job' = Stopped("guest")
  /\ UNCHANGED <<state, processes, console, counts>>

StopUnneeded(u) ==
  /\ u \in StopWhenUnneeded /\ state[u] = "active" /\ job[u] = "none"
  /\ \A v \in Units : <<v, u>> \in Requires => state[v] = "inactive" /\ job[v] = "none"
  /\ job' = Stopped(u)
  /\ UNCHANGED <<state, processes, console, counts>>

Systemd == \/ \E u \in Units : Nothing(u) \/ Stop(u) \/ StopUnneeded(u) \/ Gone(u)
           \/ StartEntry \/ StartProxy \/ StartForwarder \/ StartLog \/ StartGuest
           \/ StopWhenBound \/ ProxyGone \/ ExecStopPost \/ PreStopEnds

Processes == Listen \/ running \/ OpenFifo \/ LoggerReads \/ Eof \/ VmExits

Next == \/ Systemd \/ Processes \/ GuestWrites \/ Connection
        \/ ProxyFails \/ LoggerCrashes
        \/ \E u \in Units : Fails(u) \/ Command(u)

Spec == Init /\ [][Next]_vars

(* systemd works its queues off and processes run; Firecracker ends when    *)
(* it is told to.                                                           *)
FairSpec == /\ Spec /\ WF_vars(Systemd)
            /\ WF_vars(Listen \/ running \/ OpenFifo \/ LoggerReads \/ Eof)
            /\ WF_vars(state["guest"] = "deactivating" /\ VmExits)

-----------------------------------------------------------------------------
(* "Started alone, it stops again at once", and a guest starts only when    *)
(* its proxy listens and its logger is there (guests.nix:316-325,           *)
(* guest-proxy/default.nix:323).                                            *)
StartsGuarded == [][ state["guest"] # "active" /\ state'["guest"] = "active" =>
                       mitmproxy = "listening" /\ logger # "none" ]_vars

(* "instead of cutting the last console lines off" (guests.nix:434): a line *)
(* is lost only if svlogd crashed, took more than the 10 s that it has      *)
(* after the guest is gone, or the guest was told to start again while it   *)
(* was stopping.                                                            *)
NothingCutOff == lost => excused

(* "the guest stops when its proxy or logger goes away" (guests.nix:316),   *)
(* unless it comes back.                                                    *)
NeverAlone == state["guest"] = "active" /\ (mitmproxy = "none" \/ logger = "none") ~>
  vm = "none" \/ (mitmproxy = "listening" /\ logger = "reading")

(* "a guest that never starts must not leave the logger behind"             *)
(* (guests.nix:414), nor the proxy or its entry, and neither must one that  *)
(* has ended or crashed, whose sockets go as well (guests.nix:355-357); but *)
(* proxy and entry stay for as long as a forwarder is there.                *)
NothingStays == state["guest"] = "inactive" /\ job["guest"] = "none" ~>
  \/ state["guest"] # "inactive" \/ job["guest"] # "none"
  \/ /\ ~ sockets /\ state["log"] = "inactive"
     /\ state["forwarder"] = "inactive" => \A u \in Units : state[u] = "inactive"

(* "Units run only while their guest does." (guest-proxy/default.nix:25),   *)
(* "also when Firecracker exits on its own" (guests.nix:400).               *)
RunOnlyWithGuest == state["guest"] = "deactivating" ~>
  \/ state["guest"] = "active" \/ job["guest"] \in {"start", "restart"}
  \/ \A u \in Units : state[u] = "inactive"

(* Whatever is started or stopped, every job ends, and with the commands    *)
(* and failures the jobs: no unit waits for one that waits for it, the two  *)
(* ends of the FIFO included.                                               *)
Settles == []<>(\A u \in Units : job[u] = "none")
=============================================================================
