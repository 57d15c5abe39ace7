-------------------------- MODULE PublisherProofs --------------------------
(***************************************************************************)
(* Proofs about Publisher, for every closure, every set of paths served    *)
(* upstream, every outcome of a build and every number of runs.            *)
(***************************************************************************)
EXTENDS Publisher, TLAPS

(* An empty bucket satisfies the invariant. *)
LEMMA PInvInit == Init => PInv
<1> SUFFICES ASSUME Init PROVE PInv
  OBVIOUS
<1>1. TypeOK
  <2>1. 0 \in 0 .. MaxRuns
    BY MaxRunsAssumption
  <2>2. Idle \in [phase : Phases, top : Toplevels \cup {None},
                 build : Builds \cup {None}, stage : SUBSET Paths]
    BY DEF Idle, Phases
  <2>3. NoRead \in [top : Toplevels \cup {None}, todo : SUBSET Paths,
                   nars : SUBSET (Paths \X Builds), missing : BOOLEAN]
    BY DEF NoRead
  <2> QED BY <2>1, <2>2, <2>3 DEF Init, TypeOK
<1>2. Complete
  BY DEF Init, Complete
<1>3. Uploaded /\ ReaderServed
  BY DEF Init, Uploaded, ReaderServed, Idle, NoRead
<1> QED BY <1>1, <1>2, <1>3 DEF PInv

(* Uploads only add objects: what is served stays served. *)
LEMMA UploadsAdd ==
  ASSUME TypeOK, nars \subseteq nars',
         \A p \in Paths : narinfo[p] # None => narinfo'[p] = narinfo[p]
  PROVE  \A p \in Paths : Served(p) => Served(p)'
BY DEF Served, TypeOK

(* Every step of a run or of the reader preserves the invariant. *)
LEMMA PInvStep == PInv /\ [Next]_vars => PInv'
<1> SUFFICES ASSUME PInv, [Next]_vars PROVE PInv'
  OBVIOUS
<1> USE ClosureAssumption, MaxRunsAssumption
    DEF PInv, TypeOK, Phases, bucket, Idle
<1>1. CASE StartRun
  BY <1>1 DEF StartRun, Complete, Uploaded, ReaderServed, Served
<1>2. CASE Stage
  <2>1. PICK seeded \in SUBSET (Closure[run.top] \cap Upstream) :
          run' = [run EXCEPT !.phase = "nars", !.stage = Closure[run.top] \ seeded]
    BY <1>2 DEF Stage
  <2>2. run.top \in Toplevels /\ run.build \in Builds /\ Closure[run.top] \in SUBSET Paths
    BY <1>2 DEF Stage, Uploaded
  <2>3. /\ run'.phase = "nars" /\ run'.top = run.top /\ run'.build = run.build
        /\ run'.stage = Closure[run.top] \ seeded
    BY <2>1
  <2>4. TypeOK'
    BY <1>2, <2>1, <2>2 DEF Stage
  <2> QED BY <1>2, <2>2, <2>3, <2>4 DEF Stage, Complete, Uploaded, ReaderServed, Served
<1>3. CASE UploadNar
  <2>1. PICK q \in run.stage : nars' = nars \cup {<<q, run.build>>}
    BY <1>3 DEF UploadNar
  <2>2. TypeOK'
    BY <1>3, <2>1 DEF UploadNar, Uploaded
  <2> QED BY <1>3, <2>1, <2>2 DEF UploadNar, Complete, Uploaded, ReaderServed, Served
<1>4. CASE NarsDone
  BY <1>4 DEF NarsDone, Complete, Uploaded, ReaderServed, Served
<1>5. CASE UploadNarinfo
  <2>1. PICK q \in run.stage :
          narinfo[q] = None /\ narinfo' = [narinfo EXCEPT ![q] = run.build]
    BY <1>5 DEF UploadNarinfo
  <2>2. TypeOK'
    BY <1>5, <2>1 DEF UploadNarinfo, Uploaded
  <2>3. \A p \in Paths : narinfo'[p] = IF p = q THEN run.build ELSE narinfo[p]
    BY <2>1
  <2>4. \A p \in Paths : Served(p) => Served(p)'
    BY <1>5, <2>1, <2>3, UploadsAdd DEF UploadNarinfo
  <2>5. run.build # None /\ <<q, run.build>> \in nars
    BY <1>5, <2>1 DEF UploadNarinfo, Uploaded
  <2>6. Complete'
    BY <1>5, <2>3, <2>4, <2>5 DEF UploadNarinfo, Complete
  <2>7. Uploaded'
    BY <1>5, <2>3, <2>4, <2>5 DEF UploadNarinfo, Uploaded
  <2> QED BY <1>5, <2>2, <2>6, <2>7 DEF UploadNarinfo, ReaderServed
<1>6. CASE NarinfosDone
  BY <1>6 DEF NarinfosDone, Complete, Uploaded, ReaderServed, Served
<1>7. CASE UploadInfo
  BY <1>7 DEF UploadInfo, Complete, Uploaded, ReaderServed, Served
<1>8. CASE UploadPointer
  <2>1. run.top \in Toplevels /\ info
    BY <1>8 DEF UploadPointer, Uploaded
  <2>2. \A p \in Closure[run.top] : Served(p)
    BY <1>8, <2>1 DEF UploadPointer, Uploaded, Complete, Served
  <2> QED BY <1>8, <2>1, <2>2 DEF UploadPointer, Complete, Uploaded, ReaderServed, Served
<1>9. CASE FailRun
  BY <1>9 DEF FailRun, Complete, Uploaded, ReaderServed, Served
<1>10. CASE ReadPointer
  BY <1>10 DEF ReadPointer, Complete, Uploaded, ReaderServed, Served
<1>11. CASE LookUp
  <2>1. PICK q \in reader.todo :
          reader' = [reader EXCEPT
            !.todo    = @ \ {q},
            !.nars    = IF narinfo[q] # None THEN @ \cup {<<q, narinfo[q]>>} ELSE @,
            !.missing = @ \/ (narinfo[q] = None /\ q \notin Upstream)]
    BY <1>11 DEF LookUp
  <2>2. Served(q) /\ q \in Paths
    BY DEF Uploaded
  <2>3. /\ reader'.top = reader.top /\ reader'.todo = reader.todo \ {q}
        /\ reader'.nars = IF narinfo[q] # None THEN reader.nars \cup {<<q, narinfo[q]>>}
                          ELSE reader.nars
        /\ reader'.missing = FALSE
    BY <2>1, <2>2 DEF ReaderServed, Served
  <2>4. reader'.nars \subseteq nars
    BY <2>2, <2>3 DEF Complete, Uploaded
  <2>5. TypeOK'
    BY <1>11, <2>1, <2>3, <2>4 DEF LookUp
  <2> QED BY <1>11, <2>3, <2>4, <2>5 DEF LookUp, Complete, Uploaded, ReaderServed, Served
<1>12. CASE Download
  <2>1. PICK n \in reader.nars :
          reader' = [reader EXCEPT !.nars = @ \ {n}, !.missing = @ \/ n \notin nars]
    BY <1>12 DEF Download
  <2>2. n \in nars
    BY DEF Uploaded
  <2>3. /\ reader'.top = reader.top /\ reader'.todo = reader.todo
        /\ reader'.nars = reader.nars \ {n} /\ reader'.missing = FALSE
    BY <2>1, <2>2 DEF ReaderServed
  <2>4. TypeOK'
    BY <1>12, <2>1, <2>3 DEF Download
  <2> QED BY <1>12, <2>3, <2>4 DEF Download, Complete, Uploaded, ReaderServed, Served
<1>13. CASE UNCHANGED vars
  BY <1>13 DEF vars, Complete, Uploaded, ReaderServed, Served
<1> QED BY <1>1, <1>2, <1>3, <1>4, <1>5, <1>6, <1>7, <1>8, <1>9, <1>10, <1>11, <1>12, <1>13
        DEF Next, Upload, Reader

(* The inductive invariant of publishing (upload.sh:12-17) holds always. *)
LEMMA PInvAlways == Spec => []PInv
BY PInvInit, PInvStep, PTL DEF Spec

(* Every variable keeps to its type: among the rest no path has two         *)
(* narinfos, and no run counts beyond its bound.                            *)
THEOREM Typing == Spec => []TypeOK
BY PInvAlways, PTL DEF PInv

(* "a reader never sees a reference before its data" (upload.sh:12), for    *)
(* every closure and every number of runs that upload, fail or rebuild.     *)
THEOREM AlwaysServed == Spec => []ReaderServed
BY PInvAlways, PTL DEF PInv

(* The pointer never names an incomplete system (upload.sh:12-17). *)
THEOREM AlwaysComplete == Spec => []Complete
BY PInvAlways, PTL DEF PInv

-----------------------------------------------------------------------------
(* An empty bucket is an initial state of the service. *)
LEMMA ServiceInit == Init => Service!Init
BY DEF Init, Service!Init, Fetchable

(* A step that uploads stores, the last one of a run points, and the       *)
(* others leave the service as it is.                                      *)
LEMMA ServiceStep ==
  PInv /\ [Next]_vars => [Service!Store \/ Service!Point]_<<Fetchable, pointer>>
<1> SUFFICES ASSUME PInv, [Next]_vars
             PROVE  [Service!Store \/ Service!Point]_<<Fetchable, pointer>>
  OBVIOUS
<1>1. ASSUME nars \subseteq nars', UNCHANGED pointer,
             \A p \in Paths : narinfo[p] # None => narinfo'[p] = narinfo[p]
      PROVE  Service!Store
  <2>1. \A p \in Paths : Served(p) => Served(p)'
    BY <1>1, UploadsAdd DEF PInv
  <2>2. Fetchable \subseteq Fetchable' /\ Fetchable' \in SUBSET Toplevels
    BY <2>1, ClosureAssumption DEF Fetchable
  <2> QED BY <1>1, <2>2 DEF Service!Store
<1>2. CASE UploadNar
  BY <1>1, <1>2 DEF UploadNar
<1>3. CASE UploadNarinfo
  BY <1>1, <1>3 DEF UploadNarinfo, PInv, TypeOK
<1>4. CASE UploadPointer
  <2>1. run.top \in Toplevels /\ \A p \in Closure[run.top] : Served(p)
    BY <1>4, ClosureAssumption
    DEF UploadPointer, PInv, TypeOK, Uploaded, Complete, Served
  <2>2. UNCHANGED Fetchable
    BY <1>4 DEF UploadPointer, Fetchable, Served
  <2> QED BY <1>4, <2>1, <2>2 DEF UploadPointer, Service!Point, Fetchable
<1>5. CASE UNCHANGED <<nars, narinfo, pointer>>
  BY <1>5 DEF Fetchable, Served
<1> QED BY <1>2, <1>3, <1>4, <1>5
        DEF Next, Upload, Reader, vars, bucket, StartRun, Stage, NarsDone, NarinfosDone,
            UploadInfo, FailRun, ReadPointer, LookUp, Download

(* Publishing implements PointerService (upload.sh:12-17). *)
THEOREM PublisherImplementsService == Spec => ImplementsService
BY PInvAlways, ServiceInit, ServiceStep, PTL DEF Spec, ImplementsService, Service!Spec
=============================================================================
