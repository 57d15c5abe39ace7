--------------------------- MODULE GuestUnitsProofs ---------------------------
(***************************************************************************)
(* Proofs about GuestUnits, for every number of commands, failures and     *)
(* console lines: in which order systemd may stop and start the units of a *)
(* guest, and what that means for its console.                             *)
(***************************************************************************)
EXTENDS GuestUnits, TLAPS

States == {"inactive", "activating", "active", "deactivating"}
Jobs   == {"none", "start", "stop", "restart"}

(* The dependencies reach from every unit but the forwarder to every other  *)
(* when one stops, and from that one to neither guest nor logger; only a    *)
(* start of the guest itself starts the guest, and it starts the logger.    *)
LEMMA Relations ==
  /\ \A u \in Units : u # "forwarder" => StopsWith[u] = Units
  /\ "guest" \notin StopsWith["forwarder"] /\ "log" \notin StopsWith["forwarder"]
  /\ "log" \in Wanted["guest"]
  /\ \A u \in Units : "guest" \in Wanted[u] => u = "guest"
<1>1. \A u \in Units : u # "forwarder" => StopsWith[u] = Units
  <2> DEFINE rel == Reversed(Requires \cup PartOf)
  <2>1. {<<"proxy", "guest">>, <<"log", "guest">>, <<"entry", "proxy">>,
         <<"guest", "proxy">>, <<"guest", "log">>, <<"proxy", "entry">>,
         <<"proxy", "forwarder">>} \subseteq rel
    <3> DEFINE both == Requires \cup PartOf
    <3>1. /\ <<"guest", "proxy">> \in both /\ <<"guest", "log">> \in both
          /\ <<"proxy", "entry">> \in both /\ <<"proxy", "guest">> \in both
          /\ <<"log", "guest">> \in both /\ <<"entry", "proxy">> \in both
          /\ <<"forwarder", "proxy">> \in both
      BY DEF Requires, PartOf
    <3> HIDE DEF both
    <3>2. \A a, b : <<a, b>> \in both => <<b, a>> \in Reversed(both)
      BY DEF Reversed
    <3>3. rel = Reversed(both)
      BY DEF both
    <3> HIDE DEF rel
    <3> QED BY <3>1, <3>2, <3>3
  <2> HIDE DEF rel
  <2>2. ASSUME NEW u \in Units, u # "forwarder", NEW S \in SUBSET Units, u \in S,
               \A e \in rel : e[1] \in S => e[2] \in S
        PROVE  S = Units
    <3>1. \A a, b : <<a, b>> \in rel /\ a \in S => b \in S
      BY <2>2
    <3>2. /\ "proxy" \in S => "guest" \in S /\ "entry" \in S /\ "forwarder" \in S
          /\ "log" \in S => "guest" \in S
          /\ "entry" \in S => "proxy" \in S
          /\ "guest" \in S => "proxy" \in S /\ "log" \in S
      BY <2>1, <3>1
    <3> QED BY <2>2, <3>2 DEF Units
  <2>3. \A u \in Units : u # "forwarder" => Reached(rel, u) = Units
    BY <2>2 DEF Reached
  <2>4. \A u \in Units : StopsWith[u] = Reached(rel, u)
    BY DEF StopsWith, rel
  <2> QED BY <2>3, <2>4
<1>4. "guest" \notin StopsWith["forwarder"] /\ "log" \notin StopsWith["forwarder"]
  <2> DEFINE S == {"forwarder"}
  <2>1. "forwarder" \in S /\ S \in SUBSET Units /\ "guest" \notin S /\ "log" \notin S
    BY DEF Units
  <2>2. \A e \in Reversed(Requires \cup PartOf) : e[1] \in S => e[2] \in S
    BY DEF Requires, PartOf, Reversed
  <2> HIDE DEF S
  <2> QED BY <2>1, <2>2 DEF StopsWith, Reached
<1>2. "log" \in Wanted["guest"]
  <2>1. <<"guest", "log">> \in Requires
    BY DEF Requires
  <2>2. "guest" \in Units /\ "log" \in Units
    BY DEF Units
  <2> QED BY <2>1, <2>2 DEF Wanted, Reached
<1>3. \A u \in Units : "guest" \in Wanted[u] => u = "guest"
  <2> SUFFICES ASSUME NEW u \in Units, u # "guest" PROVE "guest" \notin Wanted[u]
    OBVIOUS
  <2> DEFINE S == Units \ {"guest"}
  <2>1. u \in S /\ S \in SUBSET Units /\ "guest" \notin S
    OBVIOUS
  <2>2. \A e \in Requires : e[1] \in S => e[2] \in S
    BY DEF Requires, Units
  <2> HIDE DEF S
  <2> QED BY <2>1, <2>2 DEF Wanted, Reached
<1> QED BY <1>1, <1>2, <1>3, <1>4

(* A restart that reaches the logger reaches a guest that is up.            *)
LEMMA RestartReaches ==
  ASSUME NEW u \in Units, "log" \in RestartsWith(u), state["guest"] \in {"active", "activating"}
  PROVE  "guest" \in RestartsWith(u)
<1> DEFINE rel == {e \in Reversed(Requires \cup PartOf) : state[e[2]] \in {"active", "activating"}}
<1>1. <<"log", "guest">> \in rel
  <2>1. <<"guest", "log">> \in Requires \cup PartOf
    BY DEF Requires
  <2>2. <<"log", "guest">> \in Reversed(Requires \cup PartOf)
    BY <2>1 DEF Reversed
  <2> QED BY <2>2
<1>2. RestartsWith(u) = Reached(rel, u)
  BY DEF RestartsWith
<1> HIDE DEF rel
<1>3. "guest" \in Units
  BY DEF Units
<1> QED BY <1>1, <1>2, <1>3 DEF Reached

(* What a unit's job waits for: a stop of the logger for a stop of the      *)
(* guest, and a start of the guest for any job of the logger.               *)
LEMMA WaitsFor ==
  /\ ~ Waits("log") => job["guest"] \notin {"stop", "restart"}
  /\ ~ Waits("guest") /\ job["guest"] = "start" => job["log"] = "none"
<1>1. <<"guest", "log">> \in After /\ "guest" \in Units /\ "log" \in Units
  BY DEF After, Units
<1> QED BY <1>1 DEF Waits

Typed == state \in [Units -> States] /\ job \in [Units -> Jobs]

(* What becoming inactive does to the unit and its job. *)
LEMMA InactiveDoes ==
  ASSUME Typed, NEW u \in Units, Inactive(u)
  PROVE  /\ Typed'
         /\ state'[u] = "inactive" /\ job'[u] \in {"none", "start"}
         /\ \A v \in Units : v # u => state'[v] = state[v] /\ job'[v] = job[v]
BY DEF Typed, States, Jobs, Inactive

(* What becoming active does to the unit and its job. *)
LEMMA ActiveDoes ==
  ASSUME Typed, NEW u \in Units, Active(u)
  PROVE  /\ Typed'
         /\ state'[u] = "active" /\ job'[u] = "none"
         /\ \A v \in Units : v # u => state'[v] = state[v] /\ job'[v] = job[v]
BY DEF Typed, States, Jobs, Active

(* What a failed start does: it ends starts, and never a stop. *)
LEMMA StartFailsDoes ==
  ASSUME Typed, NEW u \in Units, StartFails(u)
  PROVE  /\ Typed'
         /\ state'[u] = "inactive"
         /\ \A v \in Units : v # u => state'[v] = state[v]
         /\ \A v \in Units : job'[v] = job[v] \/ (job[v] = "start" /\ job'[v] = "none")
<1> DEFINE fails == IF job[u] = "start" THEN FailsWith(u) ELSE {}
<1>1. \A v \in fails : job[v] = "start"
  <2> SUFFICES ASSUME job[u] = "start", NEW v \in FailsWith(u) PROVE job[v] = "start"
    OBVIOUS
  <2> DEFINE S == {w \in Units : job[w] = "start"}
  <2>1. \A e \in Reversed(Requires) : e[2] \in Units
    BY DEF Reversed, Requires, Units
  <2>2. \A e \in {e \in Reversed(Requires) : job[e[2]] = "start"} : e[1] \in S => e[2] \in S
    BY <2>1
  <2>3. u \in S /\ S \in SUBSET Units
    OBVIOUS
  <2> HIDE DEF S
  <2>4. v \in S
    BY <2>2, <2>3 DEF FailsWith, Reached
  <2> QED BY <2>4 DEF S
<1>2. /\ state' = [state EXCEPT ![u] = "inactive"]
      /\ job' = [v \in Units |-> IF v \in fails THEN "none" ELSE job[v]]
  BY DEF StartFails
<1> HIDE DEF fails
<1> QED BY <1>1, <1>2 DEF Typed, States, Jobs

(* What the three kinds of transaction may make of the jobs of the guest    *)
(* and of the logger.                                                       *)
AfterStart ==
  /\ job'["guest"] = "start" \/ job'["guest"] = job["guest"]
  /\ job'["log"] = "start" \/ job'["log"] = job["log"]
  /\ job["guest"] = "restart" => job'["guest"] = "restart"
  /\ job'["guest"] # job["guest"] /\ job["log"] = "stop" => job'["log"] = "start"

AfterStop ==
  \/ /\ state["guest"] # "inactive" => job'["guest"] = "stop"
     /\ job'["log"] # "restart"
  \/ job'["guest"] = job["guest"] /\ job'["log"] = job["log"]

AfterRestart ==
  \/ job'["guest"] = "restart"
  \/ /\ job'["guest"] = job["guest"]
     /\ \/ job'["log"] \in {"start", job["log"]}
        \/ job'["log"] = "restart" /\ state["guest"] \notin {"active", "activating"}

(* A start keeps a restart, and one of the guest takes its stop and that of *)
(* the logger back together.                                                *)
LEMMA StartDoes ==
  ASSUME Typed, NEW u \in Units, job' = Started(u)
  PROVE  job' \in [Units -> Jobs] /\ AfterStart
<1>1. "guest" \in Units /\ "log" \in Units
  BY DEF Units
<1> QED BY <1>1, Relations DEF Typed, Jobs, Started, Pulled, AfterStart

(* A stop of any unit but the forwarder reaches the guest and replaces      *)
(* every restart.                                                           *)
LEMMA StopDoes ==
  ASSUME Typed, NEW u \in Units, job' = Stopped(u)
  PROVE  job' \in [Units -> Jobs] /\ AfterStop
<1>1. "guest" \in Units /\ "log" \in Units
  BY DEF Units
<1>2. CASE u # "forwarder"
  BY <1>1, <1>2, Relations DEF Typed, Jobs, Stopped, AfterStop
<1>3. CASE u = "forwarder"
  BY <1>1, <1>3, Relations DEF Typed, Jobs, Stopped, AfterStop
<1> QED BY <1>2, <1>3

(* A restart restarts the guest or leaves its job, and reaches the logger   *)
(* without it only when the guest is not up.                                *)
LEMMA RestartDoes ==
  ASSUME Typed, NEW u \in Units, job' = Restarted(u)
  PROVE  job' \in [Units -> Jobs] /\ AfterRestart
<1> DEFINE restarts == RestartsWith(u)
           wanted   == UNION {Wanted[w] : w \in restarts}
<1>1. "guest" \in Units /\ "log" \in Units /\ restarts \subseteq Units
  BY DEF Units, RestartsWith, Reached
<1>2. job' = [v \in Units |-> IF v \in restarts THEN "restart" ELSE Pulled(wanted)[v]]
  BY DEF Restarted
<1>3. "log" \in restarts /\ state["guest"] \in {"active", "activating"} => "guest" \in restarts
  BY RestartReaches
<1>4. "guest" \in wanted => "guest" \in restarts
  BY <1>1, Relations
<1> HIDE DEF restarts, wanted
<1>5. Pulled(wanted) \in [Units -> Jobs] /\ \A v \in Units :
        /\ Pulled(wanted)[v] \in {"start", job[v]}
        /\ v \notin wanted => Pulled(wanted)[v] = job[v]
  BY DEF Pulled, Typed, Jobs
<1>6. job' \in [Units -> Jobs]
  BY <1>2, <1>5 DEF Jobs
<1>7. CASE "guest" \in restarts
  BY <1>1, <1>2, <1>7, <1>6 DEF AfterRestart
<1>8. CASE "guest" \notin restarts
  BY <1>1, <1>2, <1>3, <1>4, <1>5, <1>6, <1>8 DEF AfterRestart
<1> QED BY <1>7, <1>8

(* The guest's process lives only while its unit is up, the logger's ends   *)
(* with its unit, and a proxy that counts as started listens.               *)
GuestRuns ==
  /\ state["guest"] # "activating"
  /\ vm # "none" => state["guest"] \in {"active", "deactivating"}

LoggerFollows ==
  /\ state["log"] = "inactive" => logger = "none"
  /\ state["log"] = "active" => logger # "none"

ProxyReady == state["proxy"] = "active" => mitmproxy = "listening"

(* While the guest runs the logger has no stop to carry out without the     *)
(* guest having one as well, which goes first: a stop of either reaches     *)
(* both, a guest that is stopping keeps its job unless it is told to start, *)
(* and a guest's stop is never paired with the restart of the logger while  *)
(* the guest is up.                                                         *)
StopsInOrder ==
  /\ vm # "none" /\ job["log"] \in {"stop", "restart"} =>
       job["guest"] \in {"stop", "restart"} \/ excused
  /\ vm # "none" /\ state["guest"] = "deactivating" =>
       job["guest"] \in {"stop", "restart"} \/ excused
  /\ job["guest"] = "stop" /\ job["log"] = "restart" =>
       state["guest"] \in {"inactive", "deactivating"}

(* So the logger reads as long as the guest writes. *)
LoggerOutlives ==
  /\ vm # "none" /\ state["log"] = "deactivating" => excused
  /\ vm = "running" => logger = "reading" \/ excused

UnitsInv == TypeOK /\ GuestRuns /\ LoggerFollows /\ ProxyReady
            /\ StopsInOrder /\ LoggerOutlives /\ NothingCutOff

(* Before the first command nothing runs. *)
LEMMA UnitsInvInit == Init => UnitsInv
<1> SUFFICES ASSUME Init PROVE UnitsInv
  OBVIOUS
<1>1. TypeOK
  <2>1. state \in [Units -> {"inactive", "activating", "active", "deactivating"}]
    BY DEF Init
  <2>2. job \in [Units -> {"none", "start", "stop", "restart"}]
    BY DEF Init
  <2>3. lines \in 0 .. MaxLines /\ pipe \in 0 .. lines /\ commands \in 0 .. MaxCommands
        /\ failures \in 0 .. MaxFailures
    BY GuestUnitsAssumption DEF GuestUnitsAssumption, Init
  <2> QED BY <2>1, <2>2, <2>3 DEF Init, TypeOK
<1>2. /\ state["guest"] = "inactive" /\ state["log"] = "inactive"
      /\ state["proxy"] = "inactive" /\ job["guest"] = "none" /\ job["log"] = "none"
  BY DEF Init, Units
<1> QED
  BY <1>1, <1>2 DEF Init, UnitsInv, GuestRuns, LoggerFollows, ProxyReady, StopsInOrder,
                    LoggerOutlives, NothingCutOff

(* Every step of systemd, of a process or of the operator preserves it. *)
LEMMA UnitsInvStep == UnitsInv /\ [Next]_vars => UnitsInv'
<1> SUFFICES ASSUME UnitsInv, [Next]_vars PROVE UnitsInv'
  OBVIOUS
<1> USE GuestUnitsAssumption DEF GuestUnitsAssumption, UnitsInv, processes, console, counts
<1>0. /\ TypeOK /\ Typed
      /\ "entry" \in Units /\ "proxy" \in Units /\ "log" \in Units /\ "guest" \in Units
      /\ "forwarder" \in Units
  BY DEF TypeOK, Typed, States, Jobs, Units
<1>1. ASSUME NEW u \in Units, Nothing(u) PROVE UnitsInv'
  <2>1. /\ Typed' /\ state' = state
        /\ job'[u] \in {"none", "start"} /\ \A v \in Units : v # u => job'[v] = job[v]
        /\ job[u] = "start" => state[u] = "active"
        /\ job[u] \in {"stop", "restart"} => state[u] = "inactive"
    BY <1>1, <1>0 DEF Typed, States, Jobs, Active, Inactive, Nothing, Runs
  <2>2. TypeOK'
    BY <1>1, <1>0, <2>1 DEF TypeOK, Typed, States, Jobs, Nothing, Runs
  <2>3. GuestRuns' /\ LoggerFollows' /\ ProxyReady'
    BY <1>1, <1>0, <2>1 DEF GuestRuns, LoggerFollows, ProxyReady, Nothing, Runs
  <2>4. StopsInOrder'
    BY <1>1, <1>0, <2>1 DEF GuestRuns, StopsInOrder, Nothing, Runs
  <2>5. LoggerOutlives' /\ NothingCutOff'
    BY <1>1, <1>0, <2>1 DEF GuestRuns, LoggerFollows, StopsInOrder, LoggerOutlives, NothingCutOff, Nothing, Runs
  <2> QED BY <2>2, <2>3, <2>4, <2>5
<1>2. ASSUME NEW u \in Units, Stop(u) PROVE UnitsInv'
  <2>1. /\ Typed' /\ job' = job /\ state'[u] = "deactivating"
        /\ \A v \in Units : v # u => state'[v] = state[v]
    BY <1>2, <1>0 DEF Typed, States, Jobs, Stop, Runs
  <2>2. TypeOK'
    BY <1>2, <1>0, <2>1 DEF TypeOK, Typed, States, Jobs, Stop, Runs
  <2>3. GuestRuns' /\ LoggerFollows' /\ ProxyReady'
    BY <1>2, <1>0, <2>1 DEF GuestRuns, LoggerFollows, ProxyReady, Stop, Runs
  <2>4. StopsInOrder'
    BY <1>2, <1>0, <2>1, WaitsFor DEF GuestRuns, StopsInOrder, Stop, Runs
  <2>5. LoggerOutlives' /\ NothingCutOff'
    BY <1>2, <1>0, <2>1, WaitsFor DEF GuestRuns, LoggerFollows, StopsInOrder, LoggerOutlives, NothingCutOff, Stop, Runs
  <2> QED BY <2>2, <2>3, <2>4, <2>5
<1>3. ASSUME NEW u \in Units, StopUnneeded(u) PROVE UnitsInv'
  <2>1. state' = state /\ Typed' /\ AfterStop
    BY <1>3, <1>0, StopDoes DEF Typed, StopUnneeded
  <2>2. TypeOK'
    BY <1>3, <1>0, <2>1 DEF TypeOK, Typed, States, Jobs, StopUnneeded
  <2>3. GuestRuns' /\ LoggerFollows' /\ ProxyReady'
    BY <1>3, <1>0, <2>1 DEF GuestRuns, LoggerFollows, ProxyReady, StopUnneeded
  <2>4. StopsInOrder'
    BY <1>3, <1>0, <2>1 DEF AfterStop, GuestRuns, StopsInOrder, StopUnneeded
  <2>5. LoggerOutlives' /\ NothingCutOff'
    BY <1>3, <1>0, <2>1 DEF GuestRuns, LoggerFollows, StopsInOrder, LoggerOutlives, NothingCutOff, StopUnneeded
  <2> QED BY <2>2, <2>3, <2>4, <2>5
<1>4. ASSUME NEW u \in Units, Command(u) PROVE UnitsInv'
  <2>1. state' = state /\ Typed' /\ (AfterStart \/ AfterStop \/ AfterRestart)
    <3>1. CASE job' = Started(u)
      BY <1>4, <1>0, <3>1, StartDoes DEF Typed, Command
    <3>2. CASE job' = Stopped(u)
      BY <1>4, <1>0, <3>2, StopDoes DEF Typed, Command
    <3>3. CASE job' = Restarted(u)
      BY <1>4, <1>0, <3>3, RestartDoes DEF Typed, Command
    <3> QED BY <1>4, <3>1, <3>2, <3>3 DEF Command
  <2>2. /\ excused \in BOOLEAN
        /\ excused' = (excused \/ (state["guest"] = "deactivating" /\ job'["guest"] = "start"))
    BY <1>4, <1>0 DEF TypeOK, Command
  <2>3. /\ excused' \in BOOLEAN /\ (excused => excused')
        /\ state["guest"] = "deactivating" /\ job'["guest"] = "start" => excused'
    BY <2>2, Zenon
  <2>4. TypeOK'
    BY <1>4, <1>0, <2>1, <2>3 DEF TypeOK, Typed, States, Jobs, Command
  <2>5. GuestRuns' /\ LoggerFollows' /\ ProxyReady'
    BY <1>4, <1>0, <2>1 DEF GuestRuns, LoggerFollows, ProxyReady, Command
  <2>6. StopsInOrder'
    <3>1. /\ vm' = vm /\ state' = state /\ state["guest"] \in States
          /\ vm # "none" => state["guest"] \in {"active", "deactivating"}
          /\ StopsInOrder
      BY <1>4, <1>0 DEF Typed, GuestRuns, Command
    <3>2. CASE AfterStart
      <4>1. CASE job'["guest"] = job["guest"]
        BY <2>3, <3>1, <3>2, <4>1 DEF AfterStart, StopsInOrder
      <4>2. CASE job'["guest"] # job["guest"]
        <5>1. job'["guest"] = "start" /\ job["guest"] # "restart" /\ job'["log"] # "stop"
          BY <3>2, <4>2 DEF AfterStart
        <5>2. vm # "none" /\ job'["log"] = "restart" =>
                excused \/ state["guest"] = "deactivating"
          BY <3>1, <3>2, <5>1 DEF AfterStart, StopsInOrder
        <5>3. CASE excused'
          BY <5>1, <5>3 DEF StopsInOrder
        <5>4. CASE ~ excused'
          <6>1. state["guest"] # "deactivating" /\ ~ excused
            BY <2>3, <5>1, <5>4
          <6>2. vm' # "none" => job'["log"] \notin {"stop", "restart"}
            BY <3>1, <5>1, <5>2, <6>1
          <6> QED BY <3>1, <5>1, <6>1, <6>2 DEF StopsInOrder
        <5> QED BY <5>3, <5>4
      <4> QED BY <4>1, <4>2
    <3>3. CASE AfterStop
      BY <2>3, <3>1, <3>3 DEF AfterStop, StopsInOrder
    <3>4. CASE AfterRestart
      BY <2>3, <3>1, <3>4 DEF AfterRestart, StopsInOrder, States
    <3> QED BY <2>1, <3>2, <3>3, <3>4
  <2>7. LoggerOutlives' /\ NothingCutOff'
    BY <1>4, <1>0, <2>1, <2>3 DEF GuestRuns, LoggerFollows, StopsInOrder, LoggerOutlives, NothingCutOff, Command
  <2> QED BY <2>4, <2>5, <2>6, <2>7
<1>5. CASE StopWhenBound
  <2>1. state' = state /\ Typed' /\ AfterStop
    BY <1>5, <1>0, StopDoes DEF Typed, StopWhenBound
  <2>2. TypeOK'
    BY <1>5, <1>0, <2>1 DEF TypeOK, Typed, States, Jobs, StopWhenBound
  <2>3. GuestRuns' /\ LoggerFollows' /\ ProxyReady'
    BY <1>5, <1>0, <2>1 DEF GuestRuns, LoggerFollows, ProxyReady, StopWhenBound
  <2>4. StopsInOrder'
    BY <1>5, <1>0, <2>1 DEF AfterStop, GuestRuns, StopsInOrder, StopWhenBound
  <2>5. LoggerOutlives' /\ NothingCutOff'
    BY <1>5, <1>0, <2>1 DEF GuestRuns, LoggerFollows, StopsInOrder, LoggerOutlives, NothingCutOff, StopWhenBound
  <2> QED BY <2>2, <2>3, <2>4, <2>5
<1>6. CASE StartEntry
  <2>1. /\ Typed'
        /\ state'["entry"] \in {"inactive", "active"}
        /\ \A v \in Units : v # "entry" => state'[v] = state[v]
        /\ \A v \in Units : v # "entry" => job'[v] = job[v] \/ (job[v] = "start" /\ job'[v] = "none")
    BY <1>6, <1>0, InactiveDoes, ActiveDoes, StartFailsDoes DEF StartEntry, Runs, Failure
  <2>2. TypeOK'
    BY <1>6, <1>0, <2>1 DEF TypeOK, Typed, States, Jobs, StartEntry, Runs, Failure
  <2>3. GuestRuns' /\ LoggerFollows' /\ ProxyReady'
    BY <1>6, <1>0, <2>1 DEF GuestRuns, LoggerFollows, ProxyReady, StartEntry, Runs, Failure
  <2>4. StopsInOrder'
    BY <1>6, <1>0, <2>1 DEF GuestRuns, StopsInOrder, StartEntry, Runs, Failure
  <2>5. LoggerOutlives' /\ NothingCutOff'
    BY <1>6, <1>0, <2>1 DEF GuestRuns, LoggerFollows, StopsInOrder, LoggerOutlives, NothingCutOff, StartEntry, Runs, Failure
  <2> QED BY <2>2, <2>3, <2>4, <2>5
<1>7. CASE StartProxy
  <2>1. Typed'
    BY <1>7, <1>0 DEF Typed, States, Jobs, StartProxy, Runs
  <2>2. TypeOK'
    BY <1>7, <1>0, <2>1 DEF TypeOK, Typed, States, Jobs, StartProxy, Runs
  <2>3. GuestRuns' /\ LoggerFollows' /\ ProxyReady'
    BY <1>7, <1>0, <2>1 DEF GuestRuns, LoggerFollows, ProxyReady, StartProxy, Runs
  <2>4. StopsInOrder'
    BY <1>7, <1>0, <2>1 DEF GuestRuns, StopsInOrder, StartProxy, Runs
  <2>5. LoggerOutlives' /\ NothingCutOff'
    BY <1>7, <1>0, <2>1 DEF GuestRuns, LoggerFollows, StopsInOrder, LoggerOutlives, NothingCutOff, StartProxy, Runs
  <2> QED BY <2>2, <2>3, <2>4, <2>5
<1>8. CASE StartLog
  <2>1. /\ Typed'
        /\ state'["log"] = "active" /\ job'["log"] = "none"
        /\ \A v \in Units : v # "log" => state'[v] = state[v] /\ job'[v] = job[v]
    BY <1>8, <1>0, ActiveDoes DEF StartLog, Runs
  <2>2. TypeOK'
    BY <1>8, <1>0, <2>1 DEF TypeOK, Typed, States, Jobs, StartLog, Runs
  <2>3. GuestRuns' /\ LoggerFollows' /\ ProxyReady'
    BY <1>8, <1>0, <2>1 DEF GuestRuns, LoggerFollows, ProxyReady, StartLog, Runs
  <2>4. StopsInOrder'
    BY <1>8, <1>0, <2>1 DEF GuestRuns, StopsInOrder, StartLog, Runs
  <2>5. LoggerOutlives' /\ NothingCutOff'
    BY <1>8, <1>0, <2>1 DEF GuestRuns, LoggerFollows, StopsInOrder, LoggerOutlives, NothingCutOff, StartLog, Runs
  <2> QED BY <2>2, <2>3, <2>4, <2>5
<1>9. CASE StartGuest
  <2>1. /\ Typed'
        /\ \/ /\ state'["guest"] = "active" /\ job'["guest"] = "none" /\ vm' = "opening"
              /\ state["log"] = "active" /\ state["proxy"] = "active" /\ job["log"] = "none"
              /\ \A v \in Units : v # "guest" => job'[v] = job[v]
           \/ /\ state'["guest"] = "inactive" /\ vm' = vm
              /\ \A v \in Units : job'[v] = job[v] \/ (job[v] = "start" /\ job'[v] = "none")
        /\ state["guest"] = "inactive" /\ job["guest"] = "start"
        /\ \A v \in Units : v # "guest" => state'[v] = state[v]
    <3>1. Runs("guest", {"start"}, {"inactive"})
      BY <1>9 DEF StartGuest
    <3>2. job["guest"] = "start" /\ state["guest"] = "inactive" /\ job["log"] = "none"
      BY <3>1, WaitsFor DEF Runs
    <3>3. CASE Active("guest") /\ vm' = "opening" /\ \A e \in BindsTo : state[e[2]] = "active"
      <4>1. state["log"] = "active" /\ state["proxy"] = "active"
        BY <3>3 DEF BindsTo
      <4> QED BY <1>0, <3>2, <3>3, <4>1, ActiveDoes
    <3>4. CASE StartFails("guest") /\ UNCHANGED vm
      BY <1>0, <3>2, <3>4, StartFailsDoes
    <3> QED BY <1>9, <3>3, <3>4 DEF StartGuest
  <2>2. TypeOK'
    BY <1>9, <1>0, <2>1 DEF TypeOK, Typed, States, Jobs, StartGuest, Runs, BindsTo
  <2>3. GuestRuns' /\ LoggerFollows' /\ ProxyReady'
    BY <1>9, <1>0, <2>1 DEF GuestRuns, LoggerFollows, ProxyReady, StartGuest, Runs, BindsTo
  <2>4. StopsInOrder'
    BY <1>9, <1>0, <2>1 DEF GuestRuns, StopsInOrder, StartGuest, Runs, BindsTo
  <2>5. LoggerOutlives' /\ NothingCutOff'
    BY <1>9, <1>0, <2>1 DEF GuestRuns, LoggerFollows, StopsInOrder, LoggerOutlives, NothingCutOff, StartGuest, Runs, BindsTo
  <2> QED BY <2>2, <2>3, <2>4, <2>5
<1>10. ASSUME NEW u \in Units, Gone(u) PROVE UnitsInv'
  <2>1. /\ Typed' /\ u \in {"entry", "forwarder"}
        /\ state'[u] = "inactive" /\ job'[u] \in {"none", "start"}
        /\ \A v \in Units : v # u => state'[v] = state[v] /\ job'[v] = job[v]
    BY <1>10, <1>0, InactiveDoes DEF Gone
  <2>2. TypeOK'
    BY <1>10, <1>0, <2>1 DEF TypeOK, Typed, States, Jobs, Gone
  <2>3. GuestRuns' /\ LoggerFollows' /\ ProxyReady'
    BY <1>10, <1>0, <2>1 DEF GuestRuns, LoggerFollows, ProxyReady, Gone
  <2>4. StopsInOrder'
    BY <1>10, <1>0, <2>1 DEF GuestRuns, StopsInOrder, Gone
  <2>5. LoggerOutlives' /\ NothingCutOff'
    BY <1>10, <1>0, <2>1 DEF GuestRuns, LoggerFollows, StopsInOrder, LoggerOutlives, NothingCutOff, Gone
  <2> QED BY <2>2, <2>3, <2>4, <2>5
<1>11. CASE ProxyGone
  <2>1. /\ Typed'
        /\ state'["proxy"] = "inactive" /\ job'["proxy"] \in {"none", "start"}
        /\ \A v \in Units : v # "proxy" => state'[v] = state[v] /\ job'[v] = job[v]
    BY <1>11, <1>0, InactiveDoes DEF ProxyGone
  <2>2. TypeOK'
    BY <1>11, <1>0, <2>1 DEF TypeOK, Typed, States, Jobs, ProxyGone
  <2>3. GuestRuns' /\ LoggerFollows' /\ ProxyReady'
    BY <1>11, <1>0, <2>1 DEF GuestRuns, LoggerFollows, ProxyReady, ProxyGone
  <2>4. StopsInOrder'
    BY <1>11, <1>0, <2>1 DEF GuestRuns, StopsInOrder, ProxyGone
  <2>5. LoggerOutlives' /\ NothingCutOff'
    BY <1>11, <1>0, <2>1 DEF GuestRuns, LoggerFollows, StopsInOrder, LoggerOutlives, NothingCutOff, ProxyGone
  <2> QED BY <2>2, <2>3, <2>4, <2>5
<1>12. CASE ExecStopPost
  <2>1. /\ Typed'
        /\ state'["guest"] = "inactive" /\ job'["guest"] \in {"none", "start"}
        /\ \A v \in Units : v # "guest" => state'[v] = state[v] /\ job'[v] = job[v]
    BY <1>12, <1>0, InactiveDoes DEF ExecStopPost
  <2>2. TypeOK'
    BY <1>12, <1>0, <2>1 DEF TypeOK, Typed, States, Jobs, ExecStopPost
  <2>3. GuestRuns' /\ LoggerFollows' /\ ProxyReady'
    BY <1>12, <1>0, <2>1 DEF GuestRuns, LoggerFollows, ProxyReady, ExecStopPost
  <2>4. StopsInOrder'
    BY <1>12, <1>0, <2>1 DEF GuestRuns, StopsInOrder, ExecStopPost
  <2>5. LoggerOutlives' /\ NothingCutOff'
    BY <1>12, <1>0, <2>1 DEF GuestRuns, LoggerFollows, StopsInOrder, LoggerOutlives, NothingCutOff, ExecStopPost
  <2> QED BY <2>2, <2>3, <2>4, <2>5
<1>13. CASE PreStopEnds
  <2>1. /\ Typed'
        /\ state'["log"] = "inactive" /\ job'["log"] \in {"none", "start"}
        /\ \A v \in Units : v # "log" => state'[v] = state[v] /\ job'[v] = job[v]
    BY <1>13, <1>0, InactiveDoes DEF PreStopEnds, LoggerGone
  <2>2. TypeOK'
    BY <1>13, <1>0, <2>1 DEF TypeOK, Typed, States, Jobs, PreStopEnds, LoggerGone
  <2>3. GuestRuns' /\ LoggerFollows' /\ ProxyReady'
    BY <1>13, <1>0, <2>1 DEF GuestRuns, LoggerFollows, ProxyReady, PreStopEnds, LoggerGone
  <2>4. StopsInOrder'
    BY <1>13, <1>0, <2>1 DEF GuestRuns, StopsInOrder, PreStopEnds, LoggerGone
  <2>5. LoggerOutlives' /\ NothingCutOff'
    BY <1>13, <1>0, <2>1 DEF GuestRuns, LoggerFollows, StopsInOrder, LoggerOutlives, NothingCutOff, PreStopEnds, LoggerGone
  <2> QED BY <2>2, <2>3, <2>4, <2>5
<1>14. CASE Listen
  <2>1. Typed'
    BY <1>14, <1>0 DEF Typed, States, Jobs, Listen
  <2>2. TypeOK'
    BY <1>14, <1>0, <2>1 DEF TypeOK, Typed, States, Jobs, Listen
  <2>3. GuestRuns' /\ LoggerFollows' /\ ProxyReady'
    BY <1>14, <1>0, <2>1 DEF GuestRuns, LoggerFollows, ProxyReady, Listen
  <2>4. StopsInOrder'
    BY <1>14, <1>0, <2>1 DEF GuestRuns, StopsInOrder, Listen
  <2>5. LoggerOutlives' /\ NothingCutOff'
    BY <1>14, <1>0, <2>1 DEF GuestRuns, LoggerFollows, StopsInOrder, LoggerOutlives, NothingCutOff, Listen
  <2> QED BY <2>2, <2>3, <2>4, <2>5
<1>15. CASE running
  <2>1. /\ Typed'
        /\ state'["proxy"] = "active" /\ job'["proxy"] = "none"
        /\ \A v \in Units : v # "proxy" => state'[v] = state[v] /\ job'[v] = job[v]
    BY <1>15, <1>0, ActiveDoes DEF running
  <2>2. TypeOK'
    BY <1>15, <1>0, <2>1 DEF TypeOK, Typed, States, Jobs, running
  <2>3. GuestRuns' /\ LoggerFollows' /\ ProxyReady'
    BY <1>15, <1>0, <2>1 DEF GuestRuns, LoggerFollows, ProxyReady, running
  <2>4. StopsInOrder'
    BY <1>15, <1>0, <2>1 DEF GuestRuns, StopsInOrder, running
  <2>5. LoggerOutlives' /\ NothingCutOff'
    BY <1>15, <1>0, <2>1 DEF GuestRuns, LoggerFollows, StopsInOrder, LoggerOutlives, NothingCutOff, running
  <2> QED BY <2>2, <2>3, <2>4, <2>5
<1>16. CASE OpenFifo
  <2>1. Typed'
    BY <1>16, <1>0 DEF Typed, States, Jobs, OpenFifo
  <2>2. TypeOK'
    BY <1>16, <1>0, <2>1 DEF TypeOK, Typed, States, Jobs, OpenFifo
  <2>3. GuestRuns' /\ LoggerFollows' /\ ProxyReady'
    BY <1>16, <1>0, <2>1 DEF GuestRuns, LoggerFollows, ProxyReady, OpenFifo
  <2>4. StopsInOrder'
    BY <1>16, <1>0, <2>1 DEF GuestRuns, StopsInOrder, OpenFifo
  <2>5. LoggerOutlives' /\ NothingCutOff'
    BY <1>16, <1>0, <2>1 DEF GuestRuns, LoggerFollows, StopsInOrder, LoggerOutlives, NothingCutOff, OpenFifo
  <2> QED BY <2>2, <2>3, <2>4, <2>5
<1>17. CASE LoggerReads
  <2>1. Typed'
    BY <1>17, <1>0 DEF Typed, States, Jobs, LoggerReads
  <2>2. TypeOK'
    BY <1>17, <1>0, <2>1 DEF TypeOK, Typed, States, Jobs, LoggerReads
  <2>3. GuestRuns' /\ LoggerFollows' /\ ProxyReady'
    BY <1>17, <1>0, <2>1 DEF GuestRuns, LoggerFollows, ProxyReady, LoggerReads
  <2>4. StopsInOrder'
    BY <1>17, <1>0, <2>1 DEF GuestRuns, StopsInOrder, LoggerReads
  <2>5. LoggerOutlives' /\ NothingCutOff'
    BY <1>17, <1>0, <2>1 DEF GuestRuns, LoggerFollows, StopsInOrder, LoggerOutlives, NothingCutOff, LoggerReads
  <2> QED BY <2>2, <2>3, <2>4, <2>5
<1>18. CASE Eof
  <2>1. /\ Typed'
        /\ state'["log"] = "inactive" /\ job'["log"] \in {"none", "start"}
        /\ \A v \in Units : v # "log" => state'[v] = state[v] /\ job'[v] = job[v]
    BY <1>18, <1>0, InactiveDoes DEF Eof, LoggerGone
  <2>2. lost' = lost
    <3>1. lost \in BOOLEAN /\ lost' = (lost \/ pipe > 0) /\ ~ (pipe > 0)
      BY <1>18, <1>0 DEF TypeOK, Eof, LoggerGone
    <3> QED BY <3>1, Zenon
  <2>3. TypeOK'
    BY <1>18, <1>0, <2>1 DEF TypeOK, Typed, States, Jobs, Eof, LoggerGone
  <2>4. GuestRuns' /\ LoggerFollows' /\ ProxyReady'
    BY <1>18, <1>0, <2>1 DEF GuestRuns, LoggerFollows, ProxyReady, Eof, LoggerGone
  <2>5. StopsInOrder'
    BY <1>18, <1>0, <2>1, <2>2 DEF GuestRuns, StopsInOrder, Eof, LoggerGone
  <2>6. LoggerOutlives' /\ NothingCutOff'
    BY <1>18, <1>0, <2>1, <2>2 DEF GuestRuns, LoggerFollows, StopsInOrder, LoggerOutlives, NothingCutOff, Eof, LoggerGone
  <2> QED BY <2>3, <2>4, <2>5, <2>6
<1>19. CASE VmExits
  <2>1. /\ Typed' /\ state'["guest"] = "deactivating" /\ vm' = "none"
        /\ \A v \in Units : v # "guest" => state'[v] = state[v]
    BY <1>19, <1>0 DEF Typed, States, Jobs, VmExits, Failure
  <2>2. TypeOK'
    BY <1>19, <1>0, <2>1 DEF TypeOK, Typed, States, Jobs, VmExits, Failure
  <2>3. GuestRuns' /\ LoggerFollows' /\ ProxyReady'
    BY <1>19, <1>0, <2>1 DEF GuestRuns, LoggerFollows, ProxyReady, VmExits, Failure
  <2>4. StopsInOrder'
    BY <1>19, <1>0, <2>1 DEF GuestRuns, StopsInOrder, VmExits, Failure
  <2>5. LoggerOutlives' /\ NothingCutOff'
    BY <1>19, <1>0, <2>1 DEF GuestRuns, LoggerFollows, StopsInOrder, LoggerOutlives, NothingCutOff, VmExits, Failure
  <2> QED BY <2>2, <2>3, <2>4, <2>5
<1>20. CASE GuestWrites
  <2>1. Typed'
    BY <1>20, <1>0 DEF Typed, States, Jobs, GuestWrites
  <2>2. lines' \in 0 .. MaxLines /\ pipe' \in 0 .. lines' /\ lost' \in BOOLEAN
    <3>1. /\ lines \in 0 .. MaxLines /\ pipe \in 0 .. lines /\ lost \in BOOLEAN
          /\ MaxLines \in Nat
      BY <1>0 DEF TypeOK
    <3>2. /\ lines < MaxLines /\ lines' = lines + 1
          /\ (pipe' = pipe + 1 /\ lost' = lost) \/ (pipe' = pipe /\ lost' = TRUE)
      BY <1>20 DEF GuestWrites
    <3>3. lost' \in BOOLEAN
      BY <3>1, <3>2
    <3>4. lines' \in 0 .. MaxLines /\ pipe' \in 0 .. lines'
      BY <3>1, <3>2
    <3> QED BY <3>3, <3>4
  <2>3. TypeOK'
    BY <1>20, <1>0, <2>1, <2>2 DEF TypeOK, Typed, States, Jobs, GuestWrites
  <2>4. GuestRuns' /\ LoggerFollows' /\ ProxyReady'
    BY <1>20, <1>0, <2>1 DEF GuestRuns, LoggerFollows, ProxyReady, GuestWrites
  <2>5. StopsInOrder'
    BY <1>20, <1>0, <2>1 DEF GuestRuns, StopsInOrder, GuestWrites
  <2>6. LoggerOutlives' /\ NothingCutOff'
    BY <1>20, <1>0, <2>1 DEF GuestRuns, LoggerFollows, StopsInOrder, LoggerOutlives, NothingCutOff, GuestWrites
  <2> QED BY <2>3, <2>4, <2>5, <2>6
<1>21. CASE ProxyFails
  <2>1. /\ Typed'
        /\ state'["proxy"] \in {"inactive"}
        /\ \A v \in Units : v # "proxy" => state'[v] = state[v]
        /\ \A v \in Units : v # "proxy" => job'[v] = job[v] \/ (job[v] = "start" /\ job'[v] = "none")
    BY <1>21, <1>0, InactiveDoes, ActiveDoes, StartFailsDoes DEF ProxyFails, Failure
  <2>2. TypeOK'
    BY <1>21, <1>0, <2>1 DEF TypeOK, Typed, States, Jobs, ProxyFails, Failure
  <2>3. GuestRuns' /\ LoggerFollows' /\ ProxyReady'
    BY <1>21, <1>0, <2>1 DEF GuestRuns, LoggerFollows, ProxyReady, ProxyFails, Failure
  <2>4. StopsInOrder'
    BY <1>21, <1>0, <2>1 DEF GuestRuns, StopsInOrder, ProxyFails, Failure
  <2>5. LoggerOutlives' /\ NothingCutOff'
    BY <1>21, <1>0, <2>1 DEF GuestRuns, LoggerFollows, StopsInOrder, LoggerOutlives, NothingCutOff, ProxyFails, Failure
  <2> QED BY <2>2, <2>3, <2>4, <2>5
<1>22. CASE LoggerCrashes
  <2>1. /\ Typed'
        /\ state'["log"] = "inactive" /\ job'["log"] \in {"none", "start"}
        /\ \A v \in Units : v # "log" => state'[v] = state[v] /\ job'[v] = job[v]
    BY <1>22, <1>0, InactiveDoes DEF LoggerCrashes, LoggerGone, Failure
  <2>2. TypeOK'
    BY <1>22, <1>0, <2>1 DEF TypeOK, Typed, States, Jobs, LoggerCrashes, LoggerGone, Failure
  <2>3. GuestRuns' /\ LoggerFollows' /\ ProxyReady'
    BY <1>22, <1>0, <2>1 DEF GuestRuns, LoggerFollows, ProxyReady, LoggerCrashes, LoggerGone, Failure
  <2>4. StopsInOrder'
    BY <1>22, <1>0, <2>1 DEF GuestRuns, StopsInOrder, LoggerCrashes, LoggerGone, Failure
  <2>5. LoggerOutlives' /\ NothingCutOff'
    BY <1>22, <1>0, <2>1 DEF GuestRuns, LoggerFollows, StopsInOrder, LoggerOutlives, NothingCutOff, LoggerCrashes, LoggerGone, Failure
  <2> QED BY <2>2, <2>3, <2>4, <2>5
<1>23. ASSUME NEW u \in Units, Fails(u) PROVE UnitsInv'
  <2>1. /\ Typed' /\ u \in {"entry", "forwarder"}
        /\ state'[u] = "inactive" /\ job'[u] \in {"none", "start"}
        /\ \A v \in Units : v # u => state'[v] = state[v] /\ job'[v] = job[v]
    BY <1>23, <1>0, InactiveDoes DEF Fails, Failure
  <2>2. TypeOK'
    BY <1>23, <1>0, <2>1 DEF TypeOK, Typed, States, Jobs, Fails, Failure
  <2>3. GuestRuns' /\ LoggerFollows' /\ ProxyReady'
    BY <1>23, <1>0, <2>1 DEF GuestRuns, LoggerFollows, ProxyReady, Fails, Failure
  <2>4. StopsInOrder'
    BY <1>23, <1>0, <2>1 DEF GuestRuns, StopsInOrder, Fails, Failure
  <2>5. LoggerOutlives' /\ NothingCutOff'
    BY <1>23, <1>0, <2>1 DEF GuestRuns, LoggerFollows, StopsInOrder, LoggerOutlives, NothingCutOff, Fails, Failure
  <2> QED BY <2>2, <2>3, <2>4, <2>5
<1>25. CASE Connection
  <2>1. state' = state /\ Typed' /\ AfterStart /\ job'["guest"] = job["guest"]
    <3>1. job' = Started("forwarder")
      BY <1>25 DEF Connection
    <3>2. job'["guest"] = job["guest"]
      BY <1>0, <3>1, Relations DEF Started, Pulled
    <3> QED BY <1>25, <1>0, <3>1, <3>2, StartDoes DEF Typed, Connection
  <2>2. TypeOK'
    BY <1>25, <1>0, <2>1 DEF TypeOK, Typed, States, Jobs, Connection
  <2>3. GuestRuns' /\ LoggerFollows' /\ ProxyReady'
    BY <1>25, <1>0, <2>1 DEF GuestRuns, LoggerFollows, ProxyReady, Connection
  <2>4. StopsInOrder'
    BY <1>25, <1>0, <2>1 DEF AfterStart, GuestRuns, StopsInOrder, Connection
  <2>5. LoggerOutlives' /\ NothingCutOff'
    BY <1>25, <1>0, <2>1 DEF GuestRuns, LoggerFollows, StopsInOrder, LoggerOutlives,
                            NothingCutOff, Connection
  <2> QED BY <2>2, <2>3, <2>4, <2>5
<1>26. CASE StartForwarder
  <2>1. /\ Typed'
        /\ state'["forwarder"] = "active" /\ job'["forwarder"] = "none"
        /\ \A v \in Units : v # "forwarder" => state'[v] = state[v] /\ job'[v] = job[v]
    BY <1>26, <1>0, ActiveDoes DEF StartForwarder, Runs
  <2>2. TypeOK'
    BY <1>26, <1>0, <2>1 DEF TypeOK, Typed, States, Jobs, StartForwarder, Runs
  <2>3. GuestRuns' /\ LoggerFollows' /\ ProxyReady'
    BY <1>26, <1>0, <2>1 DEF GuestRuns, LoggerFollows, ProxyReady, StartForwarder, Runs
  <2>4. StopsInOrder'
    BY <1>26, <1>0, <2>1 DEF GuestRuns, StopsInOrder, StartForwarder, Runs
  <2>5. LoggerOutlives' /\ NothingCutOff'
    BY <1>26, <1>0, <2>1 DEF GuestRuns, LoggerFollows, StopsInOrder, LoggerOutlives,
                            NothingCutOff, StartForwarder, Runs
  <2> QED BY <2>2, <2>3, <2>4, <2>5
<1>24. CASE UNCHANGED vars
  <2>1. UNCHANGED <<state, job, mitmproxy, logger, vm, sockets, pipe, lines, lost, excused,
                    commands, failures>>
    BY <1>24 DEF vars
  <2> QED
    BY <1>0, <2>1 DEF TypeOK, GuestRuns, LoggerFollows, ProxyReady, StopsInOrder,
                      LoggerOutlives, NothingCutOff
<1> QED
  BY <1>1, <1>2, <1>3, <1>4, <1>5, <1>6, <1>7, <1>8, <1>9, <1>10, <1>11, <1>12, <1>13,
     <1>14, <1>15, <1>16, <1>17, <1>18, <1>19, <1>20, <1>21, <1>22, <1>23, <1>24, <1>25,
     <1>26
  DEF Next, Systemd, Processes

(* UnitsInv holds in every reachable state. *)
LEMMA UnitsInvHolds == Spec => []UnitsInv
BY UnitsInvInit, UnitsInvStep, PTL DEF Spec

(* Every variable keeps to its type. *)
THEOREM Typing == Spec => []TypeOK
<1>1. UnitsInv => TypeOK
  BY DEF UnitsInv
<1> QED BY <1>1, UnitsInvHolds, PTL

(* No console line is lost while the logger is kept up for the guest: only  *)
(* its crash, the end of its 10 seconds or a start of the stopping guest    *)
(* excuse one (guests.nix:434).                                             *)
THEOREM LinesKept == Spec => []NothingCutOff
<1>1. UnitsInv => NothingCutOff
  BY DEF UnitsInv
<1> QED BY <1>1, UnitsInvHolds, PTL

(* A unit becomes active by its own start only. *)
LEMMA StartsByItsOwn ==
  ASSUME Typed, NEW u \in Units, u # "guest", Active(u) \/ Inactive(u) \/ StartFails(u)
  PROVE  state'["guest"] = state["guest"]
BY DEF Typed, Units, Active, Inactive, StartFails

(* A guest becomes active when its proxy listens and its logger is there    *)
(* (guests.nix:316-325, guest-proxy/default.nix:323).                       *)
THEOREM GuardedStarts == Spec => StartsGuarded
<1>1. ASSUME UnitsInv, [Next]_vars, state["guest"] # "active", state'["guest"] = "active"
      PROVE  mitmproxy = "listening" /\ logger # "none"
  <2>0. /\ Typed /\ ProxyReady /\ LoggerFollows
        /\ "entry" \in Units /\ "proxy" \in Units /\ "log" \in Units /\ "guest" \in Units
        /\ "forwarder" \in Units
    BY <1>1 DEF UnitsInv, TypeOK, Typed, States, Jobs, Units
  <2>1. \A u \in Units : ~ Inactive(u) /\ ~ StartFails(u)
    BY <1>1, <2>0, StartsByItsOwn, InactiveDoes, StartFailsDoes
  <2>2. state' # state
    BY <1>1
  <2>3. \A u \in Units : ~ Stop(u)
    BY <1>1, <2>0 DEF Stop, Runs, Typed
  <2>4. \A u \in Units : ~ Nothing(u)
    <3> SUFFICES ASSUME NEW u \in Units, Nothing(u) PROVE FALSE
      OBVIOUS
    <3>1. Active(u) /\ state[u] = "active"
      BY <2>1 DEF Nothing, Runs
    <3> QED BY <1>1, <2>0, <3>1, StartsByItsOwn
  <2>5. ~ StartEntry /\ ~ StartForwarder /\ ~ StartLog /\ ~ running
    BY <1>1, <2>0, <2>1, StartsByItsOwn DEF StartEntry, StartForwarder, StartLog, running
  <2>6. ~ StartProxy /\ ~ VmExits
    BY <1>1, <2>0 DEF StartProxy, VmExits, Typed
  <2>7. /\ ~ ProxyGone /\ ~ ExecStopPost /\ ~ PreStopEnds /\ ~ Eof
        /\ ~ ProxyFails /\ ~ LoggerCrashes
        /\ \A u \in Units : ~ Gone(u) /\ ~ Fails(u)
    BY <2>0, <2>1 DEF Gone, ProxyGone, ExecStopPost, PreStopEnds, Eof, ProxyFails,
                      LoggerCrashes, Fails, LoggerGone
  <2>8. /\ ~ StopWhenBound /\ ~ Listen /\ ~ OpenFifo /\ ~ LoggerReads /\ ~ GuestWrites
        /\ ~ Connection
        /\ \A u \in Units : ~ StopUnneeded(u) /\ ~ Command(u)
    BY <2>2 DEF StopWhenBound, Listen, OpenFifo, LoggerReads, GuestWrites, Connection,
                  StopUnneeded, Command
  <2>9. ASSUME StartGuest PROVE mitmproxy = "listening" /\ logger # "none"
    <3>1. \A e \in BindsTo : state[e[2]] = "active"
      BY <2>0, <2>1, <2>9 DEF StartGuest
    <3>2. state["proxy"] = "active" /\ state["log"] = "active"
      BY <3>1 DEF BindsTo
    <3> QED BY <2>0, <3>2 DEF ProxyReady, LoggerFollows
  <2>10. ~ UNCHANGED vars
    BY <2>2 DEF vars
  <2> QED
    BY <1>1, <2>3, <2>4, <2>5, <2>6, <2>7, <2>8, <2>9, <2>10 DEF Next, Systemd, Processes
<1>2. UnitsInv /\ [Next]_vars =>
        [state["guest"] # "active" /\ state'["guest"] = "active" =>
           mitmproxy = "listening" /\ logger # "none"]_vars
  BY <1>1
<1> QED BY <1>2, UnitsInvHolds, PTL DEF Spec, StartsGuarded
=============================================================================
