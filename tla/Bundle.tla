------------------------------- MODULE Bundle -------------------------------
(***************************************************************************)
(* The artifact bundle on disk: the writer (demo of run.rs and             *)
(* persist_node_bundle of node.rs, over the ArtifactWriter of artifacts.rs) *)
(* and the verify command of run.rs, file operation by file operation.     *)
(*                                                                         *)
(* fs::write opens with truncation and then writes, so a file is absent,   *)
(* torn (truncated, not written yet; neither parser accepts that), or it   *)
(* holds the content made for one session.  A session's log, report,       *)
(* receipt and texts are told apart by the session only; run_status.json   *)
(* also carries the listing of the directory.  "notes" stands for the      *)
(* operator's own files.                                                   *)
(*                                                                         *)
(* One writer works at a time, in one of three modes: a `node` session     *)
(* (in place), `demo --force` (in place) or `demo` (rotates the directory  *)
(* away first).  It may be killed between any two steps.  overlap says     *)
(* whether verify may run while the writer works, which README.md offers   *)
(* for `node --persist`; only in-place modes overlap.                      *)
(***************************************************************************)
EXTENDS Naturals, Sequences, SequencesExt

CONSTANTS
    Absent, Torn,   \* states of a file; Absent is also a directory that does not exist
    Settings        \* the modes of the sessions, whether verify may overlap, and
                    \* bounds on sessions, kills and verifies

ASSUME BundleAssumption ==
    \A s \in Settings :
        /\ s.modes \subseteq {"node", "force", "versioned"}
        /\ s.overlap \in BOOLEAN
        /\ s.overlap => "versioned" \notin s.modes
        /\ s.sessions \in Nat \ {0}
        /\ {s.kills, s.verifies} \subseteq Nat

VARIABLES
    setting,    \* the setting of this behaviour
    dir,        \* the artifacts directory: file name -> content, or Absent
    prev,       \* prev[i]: the directory rotated to <dir>.prev-<i>
    writer,     \* the writing process
    verifier,   \* the verify process
    started,    \* sessions whose bundle was begun
    completed,  \* the runs whose bundle was finished, oldest first
    crashes, verifies
vars == <<setting, dir, prev, writer, verifier, started, completed, crashes, verifies>>

\* OWNED_FILES in the order in which they are removed
OWNED_FILES == <<"log", "report", "status", "receipt", "topology", "scenario", "readme">>
Names == ToSet(OWNED_FILES) \cup {"notes"}

\* A session: a number of its own, the index in its run id, and which of the
\* two optional files it has (pick_final_receipt; --scenario).
Optional == {"receipt", "scenario"}
RunsOf(n) == [session : 1..n, index : 0..(n - 1), has : SUBSET Optional]
Runs == RunsOf(setting.sessions)
Content(run, listed) == [run |-> run, listed |-> listed]
Contents == [run : Runs, listed : SUBSET Names]

EmptyDir == [f \in Names |-> Absent]

\* Neither state of a file is a content, and a missing directory is none.
ASSUME FileStates ==
    /\ Absent # Torn
    /\ \A s \in Settings :
           LET contents == [run : RunsOf(s.sessions), listed : SUBSET Names]
           IN  /\ {Absent, Torn} \cap contents = {}
               /\ Absent \notin [Names -> contents \cup {Absent, Torn}]
Present(d) == {f \in Names : d[f] # Absent}
Whole(d, f) == d[f] \notin {Absent, Torn}

-----------------------------------------------------------------------------
(* The writer: a script of file operations.                                *)

Op(op, f) == [op |-> op, file |-> f]

\* fs::write
WriteOps(f) == <<Op("open", f), Op("write", f)>>

RemoveAll(files) == [i \in DOMAIN files |-> Op("remove", files[i])]

\* Mutants: cleaning misses the receipt, or the log.
clean_all_but_receipt == RemoveAll(SelectSeq(OWNED_FILES, LAMBDA f : f # "receipt"))
clean_all_but_log == RemoveAll(SelectSeq(OWNED_FILES, LAMBDA f : f # "log"))

\* clean_owned_files, force_clean_owned_files
clean_owned_files == RemoveAll(OWNED_FILES)

\* Mutant: demo never rotates.
Prepare_in_place(mode) == <<Op("mkdir", "notes")>> \o clean_owned_files

\* ArtifactWriter::open_versioned, or ArtifactWriter::new and the cleaning
Prepare(mode) ==
    IF mode = "versioned" THEN <<Op("rotate", "notes"), Op("mkdir", "notes")>>
    ELSE <<Op("mkdir", "notes")>> \o clean_owned_files

OptionalOps(f, has) == IF f \in has THEN WriteOps(f) ELSE <<>>

\* Mutant: the manifest is taken before the receipt is written.
persist_bundle_early_listing(mode, has) ==
    Prepare(mode) \o WriteOps("log") \o WriteOps("topology") \o OptionalOps("scenario", has)
    \o WriteOps("report") \o <<Op("list", "status")>> \o OptionalOps("receipt", has)
    \o WriteOps("status") \o WriteOps("readme")

\* persist_node_bundle, and the part of demo that follows the run
persist_bundle(mode, has) ==
    Prepare(mode) \o WriteOps("log") \o WriteOps("topology") \o OptionalOps("scenario", has)
    \o WriteOps("report") \o OptionalOps("receipt", has)
    \o <<Op("list", "status")>> \o WriteOps("status") \o WriteOps("readme")

NoRun == [session |-> 1, index |-> 0, has |-> {}]
Writer0 == [phase |-> "idle", todo |-> <<>>, run |-> NoRun, listed |-> {}, session_idx |-> 0]
Verifier0 == [phase |-> "idle", run |-> NoRun, listed |-> {}, orphaned |-> FALSE,
              undisturbed |-> FALSE]

Init == /\ setting \in Settings
        /\ dir \in {Absent, EmptyDir,
                    [EmptyDir EXCEPT !["notes"] = Content(NoRun, {})]}
        /\ prev = <<>>
        /\ writer = Writer0
        /\ verifier = Verifier0
        /\ started = 0 /\ completed = <<>> /\ crashes = 0 /\ verifies = 0

Verifying == verifier.phase \notin {"idle", "done", "error"}

\* A run is over and its bundle is to be written.  The sessions of one node
\* process all have its --scenario, or none.
BeginPersist(mode, has) ==
    /\ writer.phase \in {"idle", "crashed"}
    /\ started < setting.sessions
    /\ setting.overlap \/ ~Verifying
    /\ (mode = "node" /\ writer.session_idx > 0) =>
           ("scenario" \in has <=> "scenario" \in writer.run.has)
    /\ started' = started + 1
    /\ writer' = [writer EXCEPT
                    !.phase = "busy", !.todo = persist_bundle(mode, has), !.listed = {},
                    !.run = [session |-> started + 1, has |-> has,
                             index |-> IF mode = "node" THEN writer.session_idx ELSE 0]]
    /\ UNCHANGED <<dir, prev, verifier, completed, crashes, verifies>>

Manifest(d) == Present(d) \cup {"status", "readme"}

\* The contents a file can end up with: whoever truncated it last may find that
\* another process has written meanwhile, and leave that one's longer tail.
Landed(f, content) == IF dir[f] = Torn THEN {content} ELSE {content, Torn}

\* open_versioned: a directory that exists and is not empty is renamed to the
\* first <dir>.prev-<version> that is free.
rotate ==
    IF dir = Absent \/ dir = EmptyDir THEN UNCHANGED <<dir, prev>>
    ELSE prev' = Append(prev, dir) /\ dir' = Absent

FileOp(o) ==
    CASE o.op = "rotate" -> rotate
      [] o.op = "mkdir"  -> /\ dir' = IF dir = Absent THEN EmptyDir ELSE dir
                            /\ UNCHANGED prev
      [] o.op = "remove" -> dir' = [dir EXCEPT ![o.file] = Absent] /\ UNCHANGED prev
      [] o.op = "open"   -> dir' = [dir EXCEPT ![o.file] = Torn] /\ UNCHANGED prev
      [] o.op = "write"  -> /\ \E c \in Landed(o.file, Content(writer.run,
                                       IF o.file = "status" THEN writer.listed ELSE {})) :
                                   dir' = [dir EXCEPT ![o.file] = c]
                            /\ UNCHANGED prev
      [] o.op = "list"   -> UNCHANGED <<dir, prev>>

\* write_coordination_log refuses to overwrite an existing log.
Refused(o) == o.op = "open" /\ o.file = "log" /\ dir["log"] # Absent

\* The file the verifier holds open between its truncation and its write.
OpenInVerifier == CASE verifier.phase = "write_report" -> "report"
                    [] verifier.phase = "write_status" -> "status"
                    [] OTHER -> "none"

PersistStep ==
    /\ writer.phase = "busy" /\ writer.todo # <<>>
    /\ LET o == Head(writer.todo)
       IN  IF Refused(o)
           THEN /\ writer' = [writer EXCEPT !.phase = "failed"]
                /\ UNCHANGED <<dir, prev, verifier>>
           ELSE /\ FileOp(o)
                /\ writer' = [writer EXCEPT
                                !.todo = Tail(@),
                                !.listed = IF o.op = "list" THEN Manifest(dir) ELSE @]
                /\ verifier' = [verifier EXCEPT
                                  !.undisturbed = FALSE,
                                  !.orphaned = @ \/ (o.op = "remove" /\ o.file = OpenInVerifier)]
    /\ UNCHANGED <<started, completed, crashes, verifies>>

\* Mutant: the session index skips a number.
EndPersist_skipping ==
    /\ writer.phase = "busy" /\ writer.todo = <<>>
    /\ writer' = [writer EXCEPT !.phase = "idle", !.session_idx = @ + 2]
    /\ completed' = Append(completed, writer.run)
    /\ UNCHANGED <<dir, prev, verifier, started, crashes, verifies>>

\* The bundle is finished; a persistent node goes on to its next session.
EndPersist ==
    /\ writer.phase = "busy" /\ writer.todo = <<>>
    /\ writer' = [writer EXCEPT !.phase = "idle", !.session_idx = @ + 1]
    /\ completed' = Append(completed, writer.run)
    /\ UNCHANGED <<dir, prev, verifier, started, crashes, verifies>>

\* The process is killed; a later session is one of a fresh process.
Crash ==
    /\ writer.phase \in {"idle", "busy"} /\ crashes < setting.kills
    /\ writer' = [writer EXCEPT !.phase = IF writer.phase = "busy" THEN "crashed" ELSE @,
                                !.todo = <<>>, !.session_idx = 0]
    /\ crashes' = crashes + 1
    /\ UNCHANGED <<dir, prev, verifier, started, completed, verifies>>

-----------------------------------------------------------------------------
(* The verify command.                                                     *)

BeginVerify ==
    /\ ~Verifying /\ verifies < setting.verifies
    /\ setting.overlap \/ writer.phase # "busy"
    /\ verifies' = verifies + 1
    /\ verifier' = [Verifier0 EXCEPT !.phase = "topology",
                                     !.undisturbed = writer.phase # "busy"]
    /\ UNCHANGED <<dir, prev, writer, started, completed, crashes>>

\* is_dir, then TopologyConfig::load, then read_coordination_log: an Err ends it.
VerifyReads ==
    /\ verifier.phase \in {"topology", "log"}
    /\ verifier' =
         IF dir = Absent \/ ~Whole(dir, verifier.phase)
         THEN [verifier EXCEPT !.phase = "error"]
         ELSE IF verifier.phase = "topology" THEN [verifier EXCEPT !.phase = "log"]
         ELSE [verifier EXCEPT !.phase = "open_report", !.run = dir["log"].run]
    /\ UNCHANGED <<dir, prev, writer, started, completed, crashes, verifies>>

VerifyOpens(phase, f, next) ==
    /\ verifier.phase = phase
    /\ dir' = [dir EXCEPT ![f] = Torn]
    /\ verifier' = [verifier EXCEPT !.phase = next, !.orphaned = FALSE]
    /\ UNCHANGED <<prev, writer, started, completed, crashes, verifies>>

\* A file that was removed under the open handle receives nothing.
VerifyWrites(phase, f, listed, next) ==
    /\ verifier.phase = phase
    /\ IF verifier.orphaned THEN UNCHANGED dir
       ELSE \E c \in Landed(f, Content(verifier.run, listed)) : dir' = [dir EXCEPT ![f] = c]
    /\ verifier' = [verifier EXCEPT !.phase = next]
    /\ UNCHANGED <<prev, writer, started, completed, crashes, verifies>>

VerifyLists ==
    /\ verifier.phase = "list"
    /\ verifier' = [verifier EXCEPT !.phase = "open_status", !.listed = Manifest(dir)]
    /\ UNCHANGED <<dir, prev, writer, started, completed, crashes, verifies>>

\* Mutant: verify does not refresh run_status.json.
VerifyStepNoStatus ==
    \/ VerifyReads
    \/ VerifyOpens("open_report", "report", "write_report")
    \/ VerifyWrites("write_report", "report", {}, "done")

VerifyStep ==
    \/ VerifyReads
    \/ VerifyOpens("open_report", "report", "write_report")
    \/ VerifyWrites("write_report", "report", {}, "list")
    \/ VerifyLists
    \/ VerifyOpens("open_status", "status", "write_status")
    \/ VerifyWrites("write_status", "status", verifier.listed, "done")

Next == /\ UNCHANGED setting
        /\ \/ \E mode \in setting.modes, has \in SUBSET Optional : BeginPersist(mode, has)
           \/ PersistStep \/ EndPersist \/ Crash
           \/ BeginVerify \/ VerifyStep

Spec == Init /\ [][Next]_vars

-----------------------------------------------------------------------------
Dirs == [Names -> Contents \cup {Absent, Torn}] \cup {Absent}

TypeOK ==
    /\ dir \in Dirs
    /\ prev \in Seq(Dirs)
    /\ writer.run \in Runs /\ verifier.run \in Runs
    /\ completed \in Seq(Runs)

Quiet == writer.phase = "idle" /\ ~Verifying

\* The bundle of one run and nothing else of this writer's: every file of
\* the run, the optional ones exactly if it has them, and a manifest that
\* lists what is there.
IsBundleOf(d, run) ==
    /\ d # Absent
    /\ \A f \in ToSet(OWNED_FILES) \ {"status"} :
           d[f] = IF f \in Optional \ run.has THEN Absent ELSE Content(run, {})
    /\ d["status"] = Content(run, Present(d))

\* Whenever nobody works on the directory and the last write was not cut
\* off, it holds exactly the bundle of the latest completed run: no receipt,
\* scenario or manifest entry of an earlier session, or of one that was
\* killed halfway, shows through.  (Where verify may overlap this can fail, and
\* InspectionIsConsistent says how.)
LatestSnapshotIsExact ==
    (~setting.overlap /\ Quiet /\ completed # <<>> /\ Last(completed).session = started)
        => IsBundleOf(dir, Last(completed))

\* A bundle that an earlier session left, whole or cut off at any point,
\* never makes write_coordination_log refuse the next session.
NextSessionNotRefused == writer.phase # "failed"

\* No kill at any point and no concurrent verify makes the directory mix the
\* evidence of two sessions: log, receipt, texts and readme that are present
\* are of one run.
EvidenceIsOfOneSession ==
    dir # Absent =>
        \A f, g \in Names \ {"notes", "report", "status"} :
            Whole(dir, f) /\ Whole(dir, g) => dir[f].run = dir[g].run

\* A verify that nothing disturbed leaves a report and a status of the very
\* log that is on disk, and a manifest that lists every file there, whatever
\* a killed writer or an earlier race left ("so it always reflects the latest
\* check", run.rs).
VerifyRepairs ==
    (verifier.phase = "done" /\ verifier.undisturbed) =>
        /\ Whole(dir, "log")
        /\ \A f \in {"report", "status"} :
               Whole(dir, f) /\ dir[f].run = dir["log"].run
        /\ Present(dir) \subseteq dir["status"].listed

NotesKept == \/ dir # Absent /\ Whole(dir, "notes")
             \/ \E i \in DOMAIN prev : Whole(prev[i], "notes")

\* The operator's own files survive every mode, every kill and every verify:
\* in the directory or in a rotated one ("unrelated files are always
\* preserved", run.rs).
UnrelatedFilesSurvive == [][NotesKept => NotesKept']_vars

\* With rotation the bundle of every run that was completed stays on disk,
\* intact, in place or under a .prev name, also when later runs are killed.
\* (Between the two steps of a verify its report or status is being written.)
CompletedRunsAreKept ==
    setting.modes = {"versioned"} => \A i \in DOMAIN completed :
        \/ IsBundleOf(dir, completed[i])
        \/ Verifying /\ i = Len(completed)
        \/ \E k \in DOMAIN prev : IsBundleOf(prev[k], completed[i])

-----------------------------------------------------------------------------
(* Statements of the documentation that do not hold of the code: README.md *)
(* says which of them have a run.                                          *)

\* README.md: "`verify` always checks the latest completed session snapshot
\* currently stored in that node's artifact directory": once a session has
\* been completed verify finds one.
VerifyFindsSnapshot == completed # <<>> => verifier.phase # "error"

\* run.rs on the rewriting of run_status.json by verify: "so bundle inspection
\* stays consistent".  When nobody works on the directory, a report or status
\* is of the log's session.
InspectionIsConsistent ==
    (Quiet /\ dir # Absent /\ Whole(dir, "log")) =>
        \A f \in {"report", "status"} : Whole(dir, f) => dir[f].run = dir["log"].run

\* intent/decisions.md: "each completed session still carries a distinct
\* public run id".
RunIdsDistinct ==
    \A i, j \in DOMAIN completed :
        i # j => completed[i].index # completed[j].index
=============================================================================
