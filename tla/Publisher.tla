----------------------------- MODULE Publisher -----------------------------
(***************************************************************************)
(* Publishing a system (publish/stage.sh, publish/upload.sh, run by        *)
(* .github/workflows/publish.yml) and reading it back (the nix-store       *)
(* --realise of updater/init.sh).                                          *)
(*                                                                         *)
(* A workflow run builds a toplevel, stages the paths of its closure that  *)
(* the upstream cache does not serve, and uploads the stage to a bucket:   *)
(* NARs, narinfos, nix-cache-info, pointer, each phase after the previous  *)
(* one and the objects of a phase in any order.  Runs are serialized by    *)
(* the workflow's concurrency group; one may fail or be cancelled at any   *)
(* point.  A reader walks from the pointer over the narinfos to the NARs   *)
(* while runs go on.                                                       *)
(***************************************************************************)
EXTENDS Naturals, FiniteSets

CONSTANTS
  Toplevels,  \* store paths of systems that get published
  Paths,      \* all store paths
  Closure,    \* Closure[t]: the paths of t's closure, t included
  Upstream,   \* paths the upstream cache serves
  Builds,     \* outcomes of building a path: their NARs differ
  None,
  MaxRuns     \* bound: how many workflow runs

ASSUME ClosureAssumption ==
  /\ Toplevels \subseteq Paths /\ Upstream \subseteq Paths
  /\ Closure \in [Toplevels -> SUBSET Paths]
  /\ None \notin Paths \cup Builds

ASSUME MaxRunsAssumption == MaxRuns \in Nat

VARIABLES
  run,       \* the workflow run: toplevel, build, stage, phase
  runs,      \* how many have started
  nars,      \* bucket: NAR objects, by path and build
  narinfo,   \* bucket: the build a path's narinfo describes, or None
  info,      \* bucket: is nix-cache-info there?
  pointer,   \* bucket: what the pointer file names, or None
  reader     \* the updater: its target, the paths left to look up, the NARs
             \* left to download, and whether an object was missing

bucket == <<nars, narinfo, info, pointer>>
vars == <<run, runs, bucket, reader>>

Idle == [phase |-> "idle", top |-> None, build |-> None, stage |-> {}]

Phases == {"idle", "stage", "nars", "narinfos", "info", "pointer"}

NoRead == [top |-> None, todo |-> {}, nars |-> {}, missing |-> FALSE]

TypeOK ==
  /\ run \in [phase : Phases, top : Toplevels \cup {None},
              build : Builds \cup {None}, stage : SUBSET Paths]
  /\ runs \in 0 .. MaxRuns
  /\ nars \subseteq Paths \X Builds
  /\ narinfo \in [Paths -> Builds \cup {None}]
  /\ info \in BOOLEAN
  /\ pointer \in Toplevels \cup {None}
  /\ reader \in [top : Toplevels \cup {None}, todo : SUBSET Paths,
                 nars : SUBSET (Paths \X Builds), missing : BOOLEAN]

Init ==
  /\ run = Idle /\ runs = 0
  /\ nars = {} /\ narinfo = [p \in Paths |-> None]
  /\ info = FALSE /\ pointer = None
  /\ reader = NoRead

-----------------------------------------------------------------------------
(* nix-build: a rebuilt path may come out different. *)
StartRun ==
  /\ run.phase = "idle" /\ runs < MaxRuns
  /\ runs' = runs + 1
  /\ \E t \in Toplevels, b \in Builds :
       run' = [phase |-> "stage", top |-> t, build |-> b, stage |-> {}]
  /\ UNCHANGED <<bucket, reader>>

\* mutant: a lookup that failed counts as served
Stage_TrustsFailure ==
  /\ run.phase = "stage"
  /\ \E seeded \in SUBSET Closure[run.top] :
       run' = [run EXCEPT !.phase = "nars", !.stage = Closure[run.top] \ seeded]
  /\ UNCHANGED <<runs, bucket, reader>>

(* a-box-stage: the closure without the paths whose narinfo was found       *)
(* upstream.  A lookup may fail, which only stages more.                    *)
Stage ==
  /\ run.phase = "stage"
  /\ \E seeded \in SUBSET (Closure[run.top] \cap Upstream) :
       run' = [run EXCEPT !.phase = "nars", !.stage = Closure[run.top] \ seeded]
  /\ UNCHANGED <<runs, bucket, reader>>

(* rclone copy --ignore-existing --include '/nar/**' *)
UploadNar ==
  /\ run.phase = "nars"
  /\ \E p \in run.stage : nars' = nars \cup {<<p, run.build>>}
  /\ UNCHANGED <<run, runs, narinfo, info, pointer, reader>>

\* mutant: the narinfo phase starts before every NAR is there
NarsDone_Early ==
  /\ run.phase = "nars"
  /\ run' = [run EXCEPT !.phase = "narinfos"]
  /\ UNCHANGED <<runs, bucket, reader>>

NarsDone ==
  /\ run.phase = "nars"
  /\ \A p \in run.stage : <<p, run.build>> \in nars
  /\ run' = [run EXCEPT !.phase = "narinfos"]
  /\ UNCHANGED <<runs, bucket, reader>>

(* rclone copy --ignore-existing --include '/*.narinfo': a narinfo that is  *)
(* there stays, also when it describes an earlier build.                    *)
UploadNarinfo ==
  /\ run.phase = "narinfos"
  /\ \E p \in run.stage :
       /\ narinfo[p] = None
       /\ narinfo' = [narinfo EXCEPT ![p] = run.build]
  /\ UNCHANGED <<run, runs, nars, info, pointer, reader>>

\* mutant: the pointer may move before every narinfo is there
NarinfosDone_Early ==
  /\ run.phase = "narinfos"
  /\ run' = [run EXCEPT !.phase = "info"]
  /\ UNCHANGED <<runs, bucket, reader>>

NarinfosDone ==
  /\ run.phase = "narinfos"
  /\ \A p \in run.stage : narinfo[p] # None
  /\ run' = [run EXCEPT !.phase = "info"]
  /\ UNCHANGED <<runs, bucket, reader>>

UploadInfo ==
  /\ run.phase = "info"
  /\ info' = TRUE
  /\ run' = [run EXCEPT !.phase = "pointer"]
  /\ UNCHANGED <<runs, nars, narinfo, pointer, reader>>

\* mutant: the pointer names some staged path, not the toplevel
UploadPointer_AnyPath ==
  /\ run.phase = "pointer"
  /\ pointer' \in run.stage
  /\ run' = Idle
  /\ UNCHANGED <<runs, nars, narinfo, info, reader>>

(* rclone rcat: the pointer is one object, replaced as a whole. *)
UploadPointer ==
  /\ run.phase = "pointer"
  /\ pointer' = run.top
  /\ run' = Idle
  /\ UNCHANGED <<runs, nars, narinfo, info, reader>>

(* A command fails (errexit), the runner dies or the run is cancelled. *)
FailRun ==
  /\ run.phase # "idle"
  /\ run' = Idle
  /\ UNCHANGED <<runs, bucket, reader>>

-----------------------------------------------------------------------------
(* The updater reads the pointer, and may start again with a later one. *)
ReadPointer ==
  /\ pointer # None
  /\ reader' = [top |-> pointer, todo |-> Closure[pointer], nars |-> {},
                missing |-> ~ info]
  /\ UNCHANGED <<run, runs, bucket>>

(* A narinfo is looked up in the bucket, then upstream. *)
LookUp ==
  /\ \E p \in reader.todo :
       reader' = [reader EXCEPT
         !.todo    = @ \ {p},
         !.nars    = IF narinfo[p] # None THEN @ \cup {<<p, narinfo[p]>>} ELSE @,
         !.missing = @ \/ (narinfo[p] = None /\ p \notin Upstream)]
  /\ UNCHANGED <<run, runs, bucket>>

Download ==
  /\ \E n \in reader.nars :
       reader' = [reader EXCEPT !.nars = @ \ {n}, !.missing = @ \/ n \notin nars]
  /\ UNCHANGED <<run, runs, bucket>>

Upload == UploadNar \/ NarsDone \/ UploadNarinfo \/ NarinfosDone \/ UploadInfo
          \/ UploadPointer

Reader == ReadPointer \/ LookUp \/ Download

Next == StartRun \/ Stage \/ Upload \/ FailRun \/ Reader

Spec == Init /\ [][Next]_vars

-----------------------------------------------------------------------------
(* "a reader never sees a reference before its data" (upload.sh:12): a     *)
(* reader that started from the pointer finds every narinfo and every NAR  *)
(* it comes to, while other runs upload, fail half way, rebuild the same   *)
(* paths differently or move the pointer.                                  *)
ReaderServed == ~ reader.missing

(* The pointer names a system whose closure is served in full, and every   *)
(* narinfo in the bucket has its NAR there.                                *)
Served(p) == \/ p \in Upstream
             \/ narinfo[p] # None /\ <<p, narinfo[p]>> \in nars

Complete ==
  /\ \A p \in Paths : narinfo[p] # None => <<p, narinfo[p]>> \in nars
  /\ pointer # None => info /\ \A p \in Closure[pointer] : Served(p)

(* What a run and a reader know at each point: the strengthening that      *)
(* makes ReaderServed inductive.                                           *)
Uploaded ==
  /\ run.phase \in {"stage"} => run.top \in Toplevels /\ run.build \in Builds
  /\ run.phase \in {"nars", "narinfos", "info", "pointer"} =>
       /\ run.top \in Toplevels /\ run.build \in Builds
       /\ run.stage \subseteq Closure[run.top]
       /\ Closure[run.top] \ run.stage \subseteq Upstream
  /\ run.phase \in {"narinfos", "info", "pointer"} =>
       \A p \in run.stage : <<p, run.build>> \in nars
  /\ run.phase \in {"info", "pointer"} => \A p \in run.stage : narinfo[p] # None
  /\ run.phase = "pointer" => info
  /\ \A p \in reader.todo : Served(p)
  /\ reader.nars \subseteq nars

PInv == TypeOK /\ Complete /\ Uploaded /\ ReaderServed

Fetchable == {t \in Toplevels : \A p \in Closure[t] : Served(p)}

Service == INSTANCE PointerService WITH fetchable <- Fetchable

(* Publishing implements PointerService: the pointer moves only to systems *)
(* that are complete, and no step takes an object away that completes one  *)
(* (upload.sh:12-17).                                                      *)
ImplementsService == Service!Spec
=============================================================================
