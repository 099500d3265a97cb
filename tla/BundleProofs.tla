---------------------------- MODULE BundleProofs ----------------------------
(***************************************************************************)
(* What holds of the bundle on disk for any number of sessions, kills and  *)
(* verifies: no session is refused, the evidence on disk is of one         *)
(* session, an undisturbed verify repairs, the snapshot is exact, rotation *)
(* keeps every completed run and no mode touches the operator's files.     *)
(*                                                                         *)
(* A writer's script is sorted by the rank of its steps, so that what is   *)
(* left of it is known from the set of the steps that are left: Pending.   *)
(* The invariant says of every file how far it is, from that set.          *)
(***************************************************************************)
EXTENDS Bundle, SequenceTheorems, TLAPS

OwnedNames == {"log", "report", "status", "receipt", "topology", "scenario", "readme"}
OpNames == {"rotate", "mkdir", "remove", "open", "write", "list"}
Steps == [op : OpNames, file : Names]

\* The files that verify does not rewrite.
Evidence == OwnedNames \ {"report", "status"}

\* Where a file comes in the order of removal, and in the order of writing.
CleanRank(f) == CASE f = "log" -> 1 [] f = "report" -> 2 [] f = "status" -> 3
                  [] f = "receipt" -> 4 [] f = "topology" -> 5
                  [] f = "scenario" -> 6 [] f = "readme" -> 7 [] OTHER -> 0
WriteRank(f) == CASE f = "log" -> 1 [] f = "topology" -> 2 [] f = "scenario" -> 3
                  [] f = "report" -> 4 [] f = "receipt" -> 5
                  [] f = "status" -> 7 [] f = "readme" -> 8 [] OTHER -> 0

\* When a step is due.
Rank(o) == CASE o.op = "rotate" -> 0
             [] o.op = "mkdir"  -> 1
             [] o.op = "remove" -> 1 + CleanRank(o.file)
             [] o.op = "open"   -> 10 + 2 * WriteRank(o.file)
             [] o.op = "write"  -> 11 + 2 * WriteRank(o.file)
             [] o.op = "list"   -> 22

Sorted(s) == \A i, j \in DOMAIN s : i < j => Rank(s[i]) < Rank(s[j])
OpsOf(s) == {s[i] : i \in DOMAIN s}

\* The files of a run.
Written(has) == OwnedNames \ (Optional \ has)

\* The steps of persist_bundle.
InScript(o, mode, has) ==
    \/ o = Op("rotate", "notes") /\ mode = "versioned"
    \/ o.op = "remove" /\ mode # "versioned" /\ o.file \in OwnedNames
    \/ o = Op("mkdir", "notes")
    \/ o.op \in {"open", "write"} /\ o.file \in Written(has)
    \/ o = Op("list", "status")
Script(mode, has) == {o \in Steps : InScript(o, mode, has)}

-----------------------------------------------------------------------------
(* The invariant.                                                          *)

\* What is left is the end of a script of this mode.
Tails(P, mode, has) ==
    /\ P \subseteq Script(mode, has)
    /\ \A o \in Script(mode, has) \ P, p \in P : Rank(o) < Rank(p)

\* How far file f of the run is, when P is left to do.
FileAt(d, f, P, run, listed) ==
    \/ Op("rotate", "notes") \in P
    \/ Op("remove", f) \in P
    \/ f \notin Written(run.has) /\ d[f] = Absent
    \/ Op("open", f) \in P /\ d[f] = Absent
    \/ Op("open", f) \notin P /\ Op("write", f) \in P /\ d[f] = Torn
    \/ /\ f \in Written(run.has) /\ Op("open", f) \notin P /\ Op("write", f) \notin P
       /\ d[f] = Content(run, IF f = "status" THEN listed ELSE {})

\* The files that only the writer writes.
Own(s) == IF s.overlap THEN Evidence ELSE OwnedNames

Pending(w) == OpsOf(w.todo)

\* Where the run's own files are, when P is left to do.
InOrder(s, d, P, run, listed) ==
    d # Absent => \A f \in Own(s) : FileAt(d, f, P, run, listed)

\* The writer, when it is busy.
Writing(s, d, w) ==
    /\ Sorted(w.todo)
    /\ \E mode \in s.modes : Tails(Pending(w), mode, w.run.has)
    /\ d = Absent => Op("mkdir", "notes") \in Pending(w)
    /\ InOrder(s, d, Pending(w), w.run, w.listed)
    /\ (~s.overlap /\ d # Absent /\ Op("list", "status") \notin Pending(w)) =>
           w.listed = Manifest(d)

Writers(s) == [phase : {"idle", "busy", "crashed"}, todo : Seq(Steps),
               run : RunsOf(s.sessions), listed : SUBSET Names, session_idx : Nat]

WriterInv(s, d, w, n) ==
    /\ w \in Writers(s)
    /\ n \in 0..s.sessions /\ w.session_idx <= n
    /\ w.phase = "busy" => /\ w.run.session = n /\ w.session_idx < n
                           /\ Writing(s, d, w)

\* The evidence in a directory is of one run.
OneRun(d) == d # Absent => \A f, g \in Evidence :
                               Whole(d, f) /\ Whole(d, g) => d[f].run = d[g].run

Active(v) == v.phase \notin {"idle", "done", "error"}

\* The verifier, and what it has made of the directory if nothing disturbed it.
VerifierPhases == {"idle", "topology", "log", "open_report", "write_report", "list",
                   "open_status", "write_status", "done", "error"}
Verifiers(s) == [phase : VerifierPhases, run : RunsOf(s.sessions), listed : SUBSET Names,
                 orphaned : BOOLEAN, undisturbed : BOOLEAN]
VerifierInv(s, d, w, v) ==
    /\ v \in Verifiers(s)
    /\ v.phase \in {"write_report", "list", "open_status", "write_status", "open_report",
                    "log"} => d # Absent
    /\ (~s.overlap /\ Active(v)) => w.phase # "busy" /\ v.undisturbed
    /\ v.undisturbed =>
         /\ v.phase \in {"open_report", "write_report", "list", "open_status",
                         "write_status", "done"} =>
                d # Absent /\ Whole(d, "log") /\ v.run = d["log"].run
         /\ v.phase = "write_report" => d["report"] = Torn /\ ~v.orphaned
         /\ v.phase \in {"list", "open_status", "write_status", "done"} =>
                d["report"] = Content(v.run, {})
         /\ v.phase \in {"open_status", "write_status"} => v.listed = Manifest(d)
         /\ v.phase = "write_status" => d["status"] = Torn /\ ~v.orphaned
         /\ v.phase = "done" => d["status"] = Content(v.run, Manifest(d))

\* The bundle of run r, but for the file that verify is writing.
Near(d, r, v) ==
    /\ d # Absent
    /\ \A f \in Evidence : d[f] = IF f \in Optional \ r.has THEN Absent ELSE Content(r, {})
    /\ d["report"] = Content(r, {}) \/ (v.phase = "write_report" /\ d["report"] = Torn)
    /\ d["status"] = Content(r, Present(d)) \/ (v.phase = "write_status" /\ d["status"] = Torn)

\* The latest completed run is on disk if no session was begun after it.
LatestInv(s, d, w, v, n, c) ==
    (~s.overlap /\ w.phase = "idle" /\ c # <<>> /\ c[Len(c)].session = n) =>
        Near(d, c[Len(c)], v)

\* With rotation all completed runs are on disk; the latest may not have been
\* moved yet.
KeptInv(s, d, pv, w, v, c) ==
    s.modes = {"versioned"} => \A i \in DOMAIN c :
        \/ \E k \in DOMAIN pv : IsBundleOf(pv[k], c[i])
        \/ /\ i = Len(c) /\ Near(d, c[i], v)
           /\ w.phase # "busy" \/ Op("rotate", "notes") \in Pending(w)

DirsOf(s) ==
    [Names -> [run : RunsOf(s.sessions), listed : SUBSET Names] \cup {Absent, Torn}]
        \cup {Absent}

BundleInv ==
    /\ setting \in Settings
    /\ dir \in DirsOf(setting) /\ prev \in Seq(DirsOf(setting))
    /\ completed \in Seq(RunsOf(setting.sessions))
    /\ WriterInv(setting, dir, writer, started)
    /\ OneRun(dir)
    /\ VerifierInv(setting, dir, writer, verifier)
    /\ LatestInv(setting, dir, writer, verifier, started, completed)
    /\ KeptInv(setting, dir, prev, writer, verifier, completed)

-----------------------------------------------------------------------------
(* The script of a bundle.                                                 *)

\* A piece of a script: sorted, its steps are S, with ranks from lo to below hi.
Chunk(s, lo, hi, S) ==
    /\ s \in Seq(Steps) /\ Sorted(s) /\ OpsOf(s) = S
    /\ \A o \in S : lo <= Rank(o) /\ Rank(o) < hi

\* OWNED_FILES as a set.
LEMMA OwnedFiles == ToSet(OWNED_FILES) = OwnedNames
<1>1. DOMAIN OWNED_FILES = 1..7
  BY DEF OWNED_FILES
<1>2. ToSet(OWNED_FILES) = {OWNED_FILES[i] : i \in 1..7}
  BY <1>1 DEF ToSet
<1>3. {OWNED_FILES[i] : i \in 1..7} = OwnedNames
  <2>1. \A i \in 1..7 : i = 1 \/ i = 2 \/ i = 3 \/ i = 4 \/ i = 5 \/ i = 6 \/ i = 7
    OBVIOUS
  <2> QED  BY <2>1 DEF OWNED_FILES, OwnedNames
<1> QED  BY <1>2, <1>3

\* The names of files.
LEMMA NamesAre == Names = OwnedNames \cup {"notes"}
  BY OwnedFiles DEF Names

\* Ranks are numbers.
LEMMA RankType == \A o \in Steps : Rank(o) \in Nat
  BY NamesAre DEF Steps, OpNames, OwnedNames, Rank, CleanRank, WriteRank

\* Two pieces make one.
LEMMA Joined ==
    ASSUME NEW s, NEW t, NEW a \in Nat, NEW b \in Nat, NEW c \in Nat, NEW S, NEW T,
           a <= b, b <= c, Chunk(s, a, b, S), Chunk(t, b, c, T)
    PROVE  Chunk(s \o t, a, c, S \cup T)
<1> DEFINE u == s \o t
<1>1. s \in Seq(Steps) /\ t \in Seq(Steps) /\ OpsOf(s) = S /\ OpsOf(t) = T
  BY DEF Chunk
<1>2. /\ u \in Seq(Steps) /\ Len(u) = Len(s) + Len(t)
      /\ \A i \in 1..Len(s) : u[i] = s[i]
      /\ \A i \in 1..Len(t) : u[Len(s) + i] = t[i]
  BY <1>1
<1>3. DOMAIN s = 1..Len(s) /\ DOMAIN t = 1..Len(t) /\ DOMAIN u = 1..Len(u)
      /\ Len(s) \in Nat /\ Len(t) \in Nat
  BY <1>1, <1>2
<1> HIDE DEF u
<1>4. ASSUME NEW i \in DOMAIN u PROVE i \in 1..Len(s) \/ i - Len(s) \in 1..Len(t)
  BY <1>2, <1>3
<1>5. ASSUME NEW i \in DOMAIN u
      PROVE  \/ i \in 1..Len(s) /\ u[i] = s[i] /\ u[i] \in S
             \/ i - Len(s) \in 1..Len(t) /\ u[i] = t[i - Len(s)] /\ u[i] \in T
  <2>1. CASE i \in 1..Len(s)
    BY <2>1, <1>1, <1>2, <1>3 DEF OpsOf
  <2>2. CASE i - Len(s) \in 1..Len(t)
    <3>1. PICK k \in 1..Len(t) : k = i - Len(s)
      BY <2>2
    <3>2. i = Len(s) + k
      BY <3>1, <1>3
    <3> QED  BY <3>1, <3>2, <1>1, <1>2, <1>3 DEF OpsOf
  <2> QED  BY <1>4, <2>1, <2>2
<1>6. OpsOf(u) = S \cup T
  <2>1. OpsOf(u) \subseteq S \cup T
    BY <1>5 DEF OpsOf
  <2>2. S \subseteq OpsOf(u)
    BY <1>1, <1>2, <1>3 DEF OpsOf
  <2>3. T \subseteq OpsOf(u)
    <3>1. \A i \in 1..Len(t) : Len(s) + i \in DOMAIN u
      BY <1>2, <1>3
    <3> QED  BY <3>1, <1>1, <1>2, <1>3 DEF OpsOf
  <2> QED  BY <2>1, <2>2, <2>3
<1>7. \A o \in S : Rank(o) \in Nat /\ a <= Rank(o) /\ Rank(o) < b
  <2>1. \A i \in DOMAIN s : s[i] \in Steps
    BY <1>1
  <2>2. S \subseteq Steps
    BY <1>1, <2>1 DEF OpsOf
  <2>3. \A o \in S : Rank(o) \in Nat
    BY <2>2, RankType
  <2> QED  BY <2>3 DEF Chunk
<1>8. \A o \in T : Rank(o) \in Nat /\ b <= Rank(o) /\ Rank(o) < c
  <2>1. \A i \in DOMAIN t : t[i] \in Steps
    BY <1>1
  <2>2. T \subseteq Steps
    BY <1>1, <2>1 DEF OpsOf
  <2>3. \A o \in T : Rank(o) \in Nat
    BY <2>2, RankType
  <2> QED  BY <2>3 DEF Chunk
<1>9. Sorted(u)
  <2> SUFFICES ASSUME NEW i \in DOMAIN u, NEW j \in DOMAIN u, i < j
               PROVE  Rank(u[i]) < Rank(u[j])
    BY DEF Sorted
  <2>1. CASE i \in 1..Len(s) /\ j \in 1..Len(s)
    BY <2>1, <1>2, <1>3 DEF Chunk, Sorted
  <2>2. CASE i \in 1..Len(s) /\ j \notin 1..Len(s)
    <3>1. u[i] \in S /\ u[j] \in T
      BY <2>2, <1>1, <1>2, <1>3, <1>5 DEF OpsOf
    <3> QED  BY <3>1, <1>7, <1>8
  <2>3. CASE i \notin 1..Len(s)
    <3>1. j \notin 1..Len(s)
      BY <2>3, <1>2, <1>3
    <3>2. PICK k \in 1..Len(t), l \in 1..Len(t) : k = i - Len(s) /\ l = j - Len(s)
      BY <2>3, <3>1, <1>4
    <3>3. u[i] = t[k] /\ u[j] = t[l] /\ k < l
      BY <2>3, <3>1, <3>2, <1>3, <1>5
    <3> QED  BY <3>3, <1>3 DEF Chunk, Sorted
  <2> QED  BY <2>1, <2>2, <2>3
<1>10. \A o \in S \cup T : a <= Rank(o) /\ Rank(o) < c
  BY <1>7, <1>8
<1> QED  BY <1>2, <1>6, <1>9, <1>10 DEF Chunk, u

\* A piece may be empty.
LEMMA EmptyChunk == \A a, b \in Nat : Chunk(<<>>, a, b, {})
  BY DEF Chunk, Sorted, OpsOf

\* A piece of one step.
LEMMA OneStep ==
    ASSUME NEW o \in Steps, NEW a \in Nat, NEW b \in Nat, a <= Rank(o), Rank(o) < b
    PROVE  Chunk(<<o>>, a, b, {o})
<1>1. <<o>> \in Seq(Steps) /\ DOMAIN <<o>> = {1} /\ <<o>>[1] = o
  OBVIOUS
<1> QED  BY <1>1 DEF Chunk, Sorted, OpsOf

\* The two steps of fs::write.
WriteSet(f) == {Op("open", f), Op("write", f)}
\* They are a piece of the script.
LEMMA WriteChunk ==
    ASSUME NEW f \in OwnedNames
    PROVE  Chunk(WriteOps(f), 10 + 2 * WriteRank(f), 12 + 2 * WriteRank(f), WriteSet(f))
<1>1. Op("open", f) \in Steps /\ Op("write", f) \in Steps
  BY NamesAre DEF Op, Steps, OpNames
<1>2. WriteRank(f) \in Nat
  BY DEF OwnedNames, WriteRank
<1>3. /\ Rank(Op("open", f)) = 10 + 2 * WriteRank(f)
      /\ Rank(Op("write", f)) = 11 + 2 * WriteRank(f)
  BY DEF Rank, Op
<1>4. /\ WriteOps(f) \in Seq(Steps) /\ DOMAIN WriteOps(f) = {1, 2}
      /\ WriteOps(f)[1] = Op("open", f) /\ WriteOps(f)[2] = Op("write", f)
  BY <1>1 DEF WriteOps
<1>5. Sorted(WriteOps(f))
  BY <1>2, <1>3, <1>4 DEF Sorted
<1>6. OpsOf(WriteOps(f)) = WriteSet(f)
  BY <1>4 DEF OpsOf, WriteSet
<1> QED  BY <1>2, <1>3, <1>4, <1>5, <1>6 DEF Chunk, WriteSet

\* An optional file is written, or not.
LEMMA OptionalChunk ==
    ASSUME NEW f \in OwnedNames, NEW has
    PROVE  Chunk(OptionalOps(f, has), 10 + 2 * WriteRank(f), 12 + 2 * WriteRank(f),
                 IF f \in has THEN WriteSet(f) ELSE {})
<1>1. WriteRank(f) \in Nat
  BY DEF OwnedNames, WriteRank
<1>2. Chunk(<<>>, 10 + 2 * WriteRank(f), 12 + 2 * WriteRank(f), {})
  <2>1. 10 + 2 * WriteRank(f) \in Nat /\ 12 + 2 * WriteRank(f) \in Nat
    BY <1>1
  <2> QED  BY <2>1, EmptyChunk
<1> QED  BY <1>2, WriteChunk DEF OptionalOps

\* clean_owned_files
LEMMA CleanChunk ==
    Chunk(clean_owned_files, 2, 9, {o \in Steps : o.op = "remove" /\ o.file \in OwnedNames})
<1> DEFINE s == clean_owned_files
           S == {o \in Steps : o.op = "remove" /\ o.file \in OwnedNames}
<1>1. DOMAIN OWNED_FILES = 1..7
  BY DEF OWNED_FILES
<1>2. DOMAIN s = 1..7 /\ \A i \in 1..7 : s[i] = Op("remove", OWNED_FILES[i])
  BY <1>1 DEF clean_owned_files, RemoveAll
<1>3. \A i \in 1..7 : OWNED_FILES[i] \in OwnedNames /\ CleanRank(OWNED_FILES[i]) = i
  <2>1. \A i \in 1..7 : i = 1 \/ i = 2 \/ i = 3 \/ i = 4 \/ i = 5 \/ i = 6 \/ i = 7
    OBVIOUS
  <2> QED  BY <2>1 DEF OWNED_FILES, OwnedNames, CleanRank
<1>4. \A i \in 1..7 : s[i] \in S /\ Rank(s[i]) = 1 + i
  BY <1>2, <1>3, NamesAre DEF Op, Steps, OpNames, Rank
<1>5. s \in Seq(Steps)
  <2>1. s = [i \in 1..7 |-> s[i]]
    BY <1>1 DEF clean_owned_files, RemoveAll
  <2> HIDE DEF s
  <2>2. s \in [1..7 -> Steps]
    BY <2>1, <1>4
  <2> QED  BY <2>2, SeqDef
<1>6. OpsOf(s) = S
  <2>1. \A f \in OwnedNames : CleanRank(f) \in 1..7 /\ OWNED_FILES[CleanRank(f)] = f
    BY DEF OwnedNames, CleanRank, OWNED_FILES
  <2>2. \A o \in S : o = Op("remove", o.file)
    BY DEF Steps, Op
  <2>3. \A o \in S : o = s[CleanRank(o.file)] /\ CleanRank(o.file) \in 1..7
    BY <2>1, <2>2, <1>2
  <2> HIDE DEF s, S
  <2> QED  BY <2>3, <1>2, <1>4 DEF OpsOf
<1>7. Sorted(s)
  BY <1>2, <1>4 DEF Sorted
<1>8. \A o \in S : \E i \in 1..7 : o = s[i]
  BY <1>2, <1>6 DEF OpsOf
<1> HIDE DEF s, S
<1>9. \A o \in S : 2 <= Rank(o) /\ Rank(o) < 9
  BY <1>4, <1>8
<1>10. Chunk(s, 2, 9, S)
  BY <1>5, <1>6, <1>7, <1>9 DEF Chunk
<1> QED  BY <1>10 DEF s, S

\* persist_bundle is the sorted sequence of the script's steps.
LEMMA ScriptIs ==
    ASSUME NEW mode \in {"node", "force", "versioned"}, NEW has \in SUBSET Optional
    PROVE  /\ persist_bundle(mode, has) \in Seq(Steps)
           /\ Sorted(persist_bundle(mode, has))
           /\ OpsOf(persist_bundle(mode, has)) = Script(mode, has)
<1> DEFINE O(f) == IF f \in has THEN WriteSet(f) ELSE {}
           C == {o \in Steps : o.op = "remove" /\ o.file \in OwnedNames}
           P == IF mode = "versioned" THEN {Op("rotate", "notes")} \cup {Op("mkdir", "notes")}
                ELSE {Op("mkdir", "notes")} \cup C
<1>1. Chunk(Prepare(mode), 0, 12, P)
  <2>1. Op("rotate", "notes") \in Steps /\ Op("mkdir", "notes") \in Steps
    BY NamesAre DEF Op, Steps, OpNames
  <2>2. Rank(Op("rotate", "notes")) = 0 /\ Rank(Op("mkdir", "notes")) = 1
    BY DEF Rank, Op
  <2>3. Chunk(<<Op("rotate", "notes")>>, 0, 1, {Op("rotate", "notes")})
    BY <2>1, <2>2, OneStep
  <2>4. Chunk(<<Op("mkdir", "notes")>>, 1, 12, {Op("mkdir", "notes")})
    BY <2>1, <2>2, OneStep
  <2>5. Chunk(<<Op("mkdir", "notes")>>, 0, 2, {Op("mkdir", "notes")})
    BY <2>1, <2>2, OneStep
  <2>6. <<Op("rotate", "notes"), Op("mkdir", "notes")>>
        = <<Op("rotate", "notes")>> \o <<Op("mkdir", "notes")>>
    OBVIOUS
  <2>7. Chunk(<<Op("rotate", "notes")>> \o <<Op("mkdir", "notes")>>, 0, 12,
              {Op("rotate", "notes")} \cup {Op("mkdir", "notes")})
    BY <2>3, <2>4, Joined
  <2>8. Chunk(clean_owned_files, 2, 12, C)
    <3>1. \A o \in C : Rank(o) \in Nat
      BY RankType
    <3> HIDE DEF C
    <3>2. Chunk(clean_owned_files, 2, 9, C)
      BY CleanChunk DEF C
    <3>3. \A o \in C : 2 <= Rank(o) /\ Rank(o) < 12
      BY <3>1, <3>2 DEF Chunk
    <3> QED  BY <3>2, <3>3 DEF Chunk
  <2> HIDE DEF C
  <2>9. Chunk(<<Op("mkdir", "notes")>> \o clean_owned_files, 0, 12,
              {Op("mkdir", "notes")} \cup C)
    BY <2>5, <2>8, Joined
  <2> QED  BY <2>6, <2>7, <2>9 DEF Prepare
<1>2. Chunk(WriteOps("log"), 12, 14, WriteSet("log"))
  BY WriteChunk DEF OwnedNames, WriteRank
<1>3. Chunk(WriteOps("topology"), 14, 16, WriteSet("topology"))
  BY WriteChunk DEF OwnedNames, WriteRank
<1>4. Chunk(OptionalOps("scenario", has), 16, 18, O("scenario"))
  BY OptionalChunk DEF OwnedNames, WriteRank
<1>5. Chunk(WriteOps("report"), 18, 20, WriteSet("report"))
  BY WriteChunk DEF OwnedNames, WriteRank
<1>6. Chunk(OptionalOps("receipt", has), 20, 22, O("receipt"))
  BY OptionalChunk DEF OwnedNames, WriteRank
<1>7. Chunk(<<Op("list", "status")>>, 22, 24, {Op("list", "status")})
  <2>1. Op("list", "status") \in Steps /\ Rank(Op("list", "status")) = 22
    BY NamesAre DEF Op, Steps, OpNames, OwnedNames, Rank
  <2> QED  BY <2>1, OneStep
<1>8. Chunk(WriteOps("status"), 24, 26, WriteSet("status"))
  BY WriteChunk DEF OwnedNames, WriteRank
<1>9. Chunk(WriteOps("readme"), 26, 28, WriteSet("readme"))
  BY WriteChunk DEF OwnedNames, WriteRank
<1> DEFINE S1 == P \cup WriteSet("log")
           S2 == S1 \cup WriteSet("topology")
           S3 == S2 \cup O("scenario")
           S4 == S3 \cup WriteSet("report")
           S5 == S4 \cup O("receipt")
           S6 == S5 \cup {Op("list", "status")}
           S7 == S6 \cup WriteSet("status")
           S8 == S7 \cup WriteSet("readme")
           s1 == Prepare(mode) \o WriteOps("log")
           s2 == s1 \o WriteOps("topology")
           s3 == s2 \o OptionalOps("scenario", has)
           s4 == s3 \o WriteOps("report")
           s5 == s4 \o OptionalOps("receipt", has)
           s6 == s5 \o <<Op("list", "status")>>
           s7 == s6 \o WriteOps("status")
           s8 == s7 \o WriteOps("readme")
<1>10. Chunk(s8, 0, 28, S8) /\ s8 = persist_bundle(mode, has)
  <2> HIDE DEF P, O
  <2>1. Chunk(s1, 0, 14, S1)
    BY <1>1, <1>2, Joined
  <2> HIDE DEF s1, S1
  <2>2. Chunk(s2, 0, 16, S2)
    BY <2>1, <1>3, Joined
  <2> HIDE DEF s2, S2
  <2>3. Chunk(s3, 0, 18, S3)
    BY <2>2, <1>4, Joined
  <2> HIDE DEF s3, S3
  <2>4. Chunk(s4, 0, 20, S4)
    BY <2>3, <1>5, Joined
  <2> HIDE DEF s4, S4
  <2>5. Chunk(s5, 0, 22, S5)
    BY <2>4, <1>6, Joined
  <2> HIDE DEF s5, S5
  <2>6. Chunk(s6, 0, 24, S6)
    BY <2>5, <1>7, Joined
  <2> HIDE DEF s6, S6
  <2>7. Chunk(s7, 0, 26, S7)
    BY <2>6, <1>8, Joined
  <2> HIDE DEF s7, S7
  <2>8. Chunk(s8, 0, 28, S8)
    BY <2>7, <1>9, Joined
  <2>9. s8 = persist_bundle(mode, has)
    BY DEF persist_bundle, s1, s2, s3, s4, s5, s6, s7
  <2> QED  BY <2>8, <2>9
<1>11. S8 = Script(mode, has)
  <2>1. \A o \in Steps : o \in S8 <=> InScript(o, mode, has)
    BY DEF InScript, Written, WriteSet, Op, Steps, OpNames, OwnedNames, Optional
  <2>2. S8 \subseteq Steps
    BY NamesAre DEF WriteSet, Op, Steps, OpNames, OwnedNames
  <2> QED  BY <2>1, <2>2 DEF Script
<1> HIDE DEF s8, S8
<1> QED  BY <1>10, <1>11 DEF Chunk

\* A script runs from its head: what is left is the set without the head, whose
\* rank is the lowest.
LEMMA HeadIsDue ==
    ASSUME NEW s \in Seq(Steps), Sorted(s), s # <<>>
    PROVE  /\ Head(s) \in OpsOf(s) /\ Head(s) \in Steps
           /\ \A o \in OpsOf(s) : o # Head(s) => Rank(Head(s)) < Rank(o)
           /\ Tail(s) \in Seq(Steps) /\ Sorted(Tail(s))
           /\ OpsOf(Tail(s)) = OpsOf(s) \ {Head(s)}
           /\ OpsOf(s) \subseteq Steps
<1>1. /\ Len(s) \in Nat /\ Len(s) >= 1 /\ DOMAIN s = 1..Len(s) /\ Head(s) = s[1]
      /\ Tail(s) \in Seq(Steps) /\ Len(Tail(s)) = Len(s) - 1
      /\ \A i \in 1..(Len(s) - 1) : Tail(s)[i] = s[i + 1]
      /\ \A i \in 1..Len(s) : s[i] \in Steps
  OBVIOUS
<1>2. \A i \in DOMAIN s : i # 1 => Rank(s[1]) < Rank(s[i])
  BY <1>1 DEF Sorted
<1>3. \A i \in DOMAIN s : Rank(s[i]) \in Nat
  <2>1. \A o \in Steps : Rank(o) \in Nat
    BY RankType
  <2>2. \A i \in DOMAIN s : s[i] \in Steps
    BY <1>1
  <2> QED  BY <2>1, <2>2, Zenon
<1>4. \A i \in DOMAIN s : i # 1 => s[i] # s[1]
  BY <1>2, <1>3, <1>1
<1> DEFINE t == Tail(s)
<1>5. DOMAIN t = 1..(Len(s) - 1)
  BY <1>1
<1>6. Sorted(t)
  <2> SUFFICES ASSUME NEW i \in DOMAIN t, NEW j \in DOMAIN t, i < j
               PROVE  Rank(t[i]) < Rank(t[j])
    BY DEF Sorted
  <2>1. i + 1 \in DOMAIN s /\ j + 1 \in DOMAIN s /\ i + 1 < j + 1
    BY <1>1, <1>5
  <2>2. t[i] = s[i + 1] /\ t[j] = s[j + 1]
    BY <1>1, <1>5
  <2> QED  BY <2>1, <2>2 DEF Sorted
<1>7. OpsOf(t) = OpsOf(s) \ {s[1]}
  <2>1. ASSUME NEW i \in DOMAIN t PROVE t[i] \in OpsOf(s) \ {s[1]}
    <3>1. i + 1 \in DOMAIN s /\ i + 1 # 1 /\ t[i] = s[i + 1]
      BY <1>1, <1>5
    <3> QED  BY <3>1, <1>4 DEF OpsOf
  <2>2. ASSUME NEW i \in DOMAIN s, s[i] # s[1] PROVE s[i] \in OpsOf(t)
    <3>1. i - 1 \in DOMAIN t
      BY <2>2, <1>1, <1>5
    <3>2. PICK k \in DOMAIN t : k = i - 1
      BY <3>1
    <3>3. t[k] = s[i]
      <4>1. k + 1 = i
        BY <3>2, <1>1
      <4> QED  BY <4>1, <1>1, <1>5
    <3> QED  BY <3>3 DEF OpsOf
  <2> HIDE DEF t
  <2> QED  BY <2>1, <2>2 DEF OpsOf
<1>8. 1 \in DOMAIN s
  BY <1>1
<1>9. s[1] \in OpsOf(s) /\ s[1] \in Steps
  BY <1>1, <1>8 DEF OpsOf
<1>10. \A o \in OpsOf(s) : o # s[1] => Rank(s[1]) < Rank(o)
  BY <1>2 DEF OpsOf
<1>11. OpsOf(s) \subseteq Steps
  BY <1>1 DEF OpsOf
<1> QED  BY <1>1, <1>6, <1>7, <1>9, <1>10, <1>11

-----------------------------------------------------------------------------
(* Files and directories.                                                  *)

\* A content is neither Absent nor Torn.
LEMMA ContentIsWhole ==
    ASSUME NEW s \in Settings, NEW r \in RunsOf(s.sessions), NEW l \in SUBSET Names
    PROVE  /\ Content(r, l) \in [run : RunsOf(s.sessions), listed : SUBSET Names]
           /\ Content(r, l) # Absent /\ Content(r, l) # Torn
           /\ Content(r, l).run = r /\ Content(r, l).listed = l
<1> DEFINE cs == [run : RunsOf(s.sessions), listed : SUBSET Names]
<1>1. Content(r, l) \in cs
  BY DEF Content
<1>2. Absent \notin cs /\ Torn \notin cs
  BY FileStates
<1> QED  BY <1>1, <1>2 DEF Content

\* In short.
LEMMA ListedIsWhole ==
    ASSUME NEW s \in Settings, NEW r \in RunsOf(s.sessions), NEW l \in SUBSET Names
    PROVE  Content(r, l) # Absent /\ Content(r, l) # Torn
  BY ContentIsWhole
\* The same without a listing.
LEMMA PlainIsWhole ==
    ASSUME NEW s \in Settings, NEW r \in RunsOf(s.sessions)
    PROVE  Content(r, {}) # Absent /\ Content(r, {}) # Torn
<1>1. {} \in SUBSET Names
  OBVIOUS
<1> QED  BY <1>1, ListedIsWhole

\* Neither state of a file is the other.
LEMMA StatesDiffer == Absent # Torn
  BY FileStates

\* A directory is not Absent.
LEMMA DirIsThere ==
    ASSUME NEW s \in Settings, NEW d \in DirsOf(s)
    PROVE  d # Absent <=>
             d \in [Names -> [run : RunsOf(s.sessions), listed : SUBSET Names]
                               \cup {Absent, Torn}]
  BY FileStates DEF DirsOf

\* The empty directory is one.
LEMMA EmptyDirIsThere ==
    ASSUME NEW s \in Settings PROVE EmptyDir \in DirsOf(s) /\ EmptyDir # Absent
<1>1. EmptyDir \in [Names -> [run : RunsOf(s.sessions), listed : SUBSET Names]
                               \cup {Absent, Torn}]
  BY DEF EmptyDir
<1> QED  BY <1>1, DirIsThere DEF DirsOf

\* The run that stands for files nobody wrote.
LEMMA NoRunIsOne == ASSUME NEW s \in Settings PROVE NoRun \in RunsOf(s.sessions)
  BY BundleAssumption DEF NoRun, RunsOf

\* Changing one file.
States(s) == [run : RunsOf(s.sessions), listed : SUBSET Names] \cup {Absent, Torn}
OneFileChanges(s, d, f, x, d2) ==
    /\ d2 \in DirsOf(s) /\ d2 # Absent /\ d2[f] = x
    /\ \A g \in Names : g # f => d2[g] = d[g]
\* The other files stay.
LEMMA FileChanges ==
    ASSUME NEW s \in Settings, NEW d \in DirsOf(s), d # Absent, NEW f \in Names,
           NEW x \in States(s)
    PROVE  OneFileChanges(s, d, f, x, [d EXCEPT ![f] = x])
<1>1. d \in [Names -> States(s)]
  BY DirIsThere DEF States
<1>2. [d EXCEPT ![f] = x] \in [Names -> States(s)]
  BY <1>1
<1>3. [d EXCEPT ![f] = x] \in DirsOf(s)
  BY <1>2 DEF DirsOf, States
<1>4. [d EXCEPT ![f] = x] # Absent
  BY <1>2, <1>3, DirIsThere DEF States
<1> QED  BY <1>1, <1>3, <1>4 DEF OneFileChanges

-----------------------------------------------------------------------------
(* Which steps are left when one of them is due.                           *)

\* h is the next step of a script of which P is left.
IsDue(P, mode, has, h) ==
    /\ Tails(P, mode, has) /\ h \in P
    /\ \A o \in P : o # h => Rank(h) < Rank(o)

\* Cleaning comes before writing, and a file is truncated before it is written.
DueFacts(P, mode, has, h) ==
    /\ h \in Steps /\ InScript(h, mode, has)
    /\ Op("rotate", "notes") \in P => h = Op("rotate", "notes")
    /\ Op("mkdir", "notes") \in P => h.op \in {"rotate", "mkdir"}
    /\ h.op \in {"rotate", "mkdir", "remove"} =>
           /\ \A f \in Written(has) : Op("open", f) \in P /\ Op("write", f) \in P
           /\ Op("list", "status") \in P
    /\ h.op = "rotate" => Op("mkdir", "notes") \in P
    /\ h.op \in {"open", "write", "list"} => \A f : Op("remove", f) \notin P
    /\ h.op = "open" => Op("write", h.file) \in P
    /\ h.op = "write" => Op("open", h.file) \notin P
    /\ h.op = "list" => Op("write", "status") \in P /\ Op("open", "status") \in P
    /\ Op("list", "status") \notin P =>
           h.op \in {"open", "write"} /\ h.file \in {"status", "readme"}
\* They follow from the order of the ranks.
LEMMA Due ==
    ASSUME NEW P, NEW mode, NEW has \in SUBSET Optional, NEW h, IsDue(P, mode, has, h)
    PROVE  DueFacts(P, mode, has, h)
<1>1. /\ P \subseteq Script(mode, has) /\ h \in P
      /\ \A o \in P : o # h => Rank(h) < Rank(o)
      /\ \A o \in Script(mode, has) : o \notin P => Rank(o) < Rank(h)
  BY DEF IsDue, Tails
<1>2. h \in Steps /\ InScript(h, mode, has)
  BY <1>1 DEF Script
<1>3. h.op \in OpNames /\ h.file \in Names
  BY <1>2 DEF Steps
<1>4. \A f \in OwnedNames : CleanRank(f) \in 1..7 /\ WriteRank(f) \in 1..8
  BY DEF OwnedNames, CleanRank, WriteRank
<1>5. /\ Rank(Op("rotate", "notes")) = 0 /\ Rank(Op("mkdir", "notes")) = 1
      /\ Rank(Op("list", "status")) = 22
      /\ \A f : /\ Rank(Op("remove", f)) = 1 + CleanRank(f)
                /\ Rank(Op("open", f)) = 10 + 2 * WriteRank(f)
                /\ Rank(Op("write", f)) = 11 + 2 * WriteRank(f)
  BY DEF Rank, Op
<1>6. h = Op(h.op, h.file)
  BY <1>2 DEF Steps, Op
<1>7. Rank(h) \in Nat
  BY <1>2, RankType
<1>8. \A f \in Written(has) : f \in OwnedNames /\ Op("open", f) \in Script(mode, has)
                              /\ Op("write", f) \in Script(mode, has)
  BY NamesAre DEF Written, Script, InScript, Op, Steps, OpNames
<1>9. Op("mkdir", "notes") \in Script(mode, has) /\ Op("list", "status") \in Script(mode, has)
  BY NamesAre DEF Script, InScript, Op, Steps, OpNames, OwnedNames
<1>10. Op("rotate", "notes") \in P => h = Op("rotate", "notes")
  BY <1>1, <1>5, <1>7
<1>11. h.op \in {"rotate", "mkdir", "remove"} => Rank(h) < 9
  BY <1>2, <1>4, <1>5, <1>6 DEF InScript, Op
<1>12. h.op \in {"open", "write", "list"} => Rank(h) > 11
  <2>1. h.op = "list" => Rank(h) = 22
    BY DEF Rank
  <2>2. h.op \in {"open", "write"} => h.file \in OwnedNames
    BY <1>2 DEF InScript, Written, Op
  <2>3. h.op = "open" => Rank(h) = 10 + 2 * WriteRank(h.file)
    BY DEF Rank
  <2>4. h.op = "write" => Rank(h) = 11 + 2 * WriteRank(h.file)
    BY DEF Rank
  <2> QED  BY <2>1, <2>2, <2>3, <2>4, <1>4
<1>13. Op("mkdir", "notes") \in P => h.op \in {"rotate", "mkdir"}
  <2> SUFFICES ASSUME Op("mkdir", "notes") \in P, h.op \notin {"rotate", "mkdir"} PROVE FALSE
    OBVIOUS
  <2>1. h # Op("mkdir", "notes")
    BY DEF Op
  <2>2. Rank(h) < 1
    BY <2>1, <1>1, <1>5
  <2>3. h.op = "remove"
    BY <2>2, <1>3, <1>12, <1>7 DEF OpNames
  <2> QED  BY <2>2, <2>3, <1>2, <1>4, <1>5, <1>6 DEF InScript, Op
<1>14. h.op \in {"rotate", "mkdir", "remove"} =>
                  /\ \A f \in Written(has) : Op("open", f) \in P /\ Op("write", f) \in P
                  /\ Op("list", "status") \in P
  <2> SUFFICES ASSUME Rank(h) < 9
               PROVE  /\ \A f \in Written(has) : Op("open", f) \in P /\ Op("write", f) \in P
                      /\ Op("list", "status") \in P
    BY <1>11
  <2>1. \A f \in Written(has) : ~(10 + 2 * WriteRank(f) < Rank(h)) /\ ~(11 + 2 * WriteRank(f) < Rank(h))
    BY <1>4, <1>7, <1>8
  <2>2. ~(22 < Rank(h))
    BY <1>7
  <2> QED  BY <2>1, <2>2, <1>1, <1>5, <1>8, <1>9
<1>15. h.op = "rotate" => Op("mkdir", "notes") \in P
  <2>1. h.op = "rotate" => Rank(h) = 0
    BY DEF Rank
  <2> QED  BY <2>1, <1>1, <1>5, <1>9
<1>16. h.op \in {"open", "write", "list"} => \A f : Op("remove", f) \notin P
  <2> SUFFICES ASSUME h.op \in {"open", "write", "list"}, NEW f, Op("remove", f) \in P
               PROVE  FALSE
    OBVIOUS
  <2>1. f \in OwnedNames
    BY <1>1 DEF Script, InScript, Op
  <2>2. Op("remove", f) # h
    BY DEF Op
  <2>3. Rank(h) < 1 + CleanRank(f)
    BY <2>2, <1>1, <1>5
  <2> QED  BY <2>1, <2>3, <1>4, <1>7, <1>12
<1>17. h.op = "open" => Op("write", h.file) \in P
  <2> SUFFICES ASSUME h.op = "open", Op("write", h.file) \notin P PROVE FALSE
    OBVIOUS
  <2>1. h.file \in Written(has)
    BY <1>2 DEF InScript, Op
  <2>2. Rank(Op("write", h.file)) < Rank(h) /\ WriteRank(h.file) \in Nat
    BY <2>1, <1>1, <1>4, <1>8
  <2>3. Rank(h) = 10 + 2 * WriteRank(h.file)
    BY DEF Rank
  <2> QED  BY <2>2, <2>3, <1>5
<1>18. h.op = "write" => Op("open", h.file) \notin P
  <2> SUFFICES ASSUME h.op = "write", Op("open", h.file) \in P PROVE FALSE
    OBVIOUS
  <2>1. h.file \in Written(has)
    BY <1>2 DEF InScript, Op
  <2>4. Op("open", h.file) # h
    BY DEF Op
  <2>2. Rank(h) < Rank(Op("open", h.file)) /\ WriteRank(h.file) \in Nat
    BY <2>1, <2>4, <1>1, <1>4, <1>8
  <2>3. Rank(h) = 11 + 2 * WriteRank(h.file)
    BY DEF Rank
  <2> QED  BY <2>2, <2>3, <1>5
<1>19. h.op = "list" => Op("write", "status") \in P /\ Op("open", "status") \in P
  <2> SUFFICES ASSUME h.op = "list"
               PROVE  Op("write", "status") \in P /\ Op("open", "status") \in P
    OBVIOUS
  <2>1. Rank(h) = 22
    BY DEF Rank
  <2>2. "status" \in Written(has) /\ WriteRank("status") = 7
    BY DEF Written, OwnedNames, Optional, WriteRank
  <2> QED  BY <2>1, <2>2, <1>1, <1>5, <1>8
<1>20. Op("list", "status") \notin P =>
                  h.op \in {"open", "write"} /\ h.file \in {"status", "readme"}
  <2> SUFFICES ASSUME Op("list", "status") \notin P
               PROVE  h.op \in {"open", "write"} /\ h.file \in {"status", "readme"}
    OBVIOUS
  <2>1. 22 < Rank(h)
    BY <1>1, <1>5, <1>9
  <2>2. h.op \in {"open", "write"}
    <3>1. h.op # "list"
      BY <2>1 DEF Rank
    <3> QED  BY <3>1, <2>1, <1>3, <1>7, <1>11 DEF OpNames
  <2>3. h.file \in OwnedNames
    BY <2>2, <1>2 DEF InScript, Written, Op
  <2>4. WriteRank(h.file) >= 6
    <3>1. Rank(h) = 10 + 2 * WriteRank(h.file) \/ Rank(h) = 11 + 2 * WriteRank(h.file)
      BY <2>2, <1>5, <1>6
    <3> QED  BY <3>1, <2>1, <2>3, <1>4
  <2>5. h.file \in {"status", "readme"}
    BY <2>3, <2>4 DEF OwnedNames, WriteRank
  <2> QED  BY <2>2, <2>5
<1> QED  BY <1>2, <1>10, <1>13, <1>14, <1>15, <1>16, <1>17, <1>18, <1>19, <1>20
       DEF DueFacts

-----------------------------------------------------------------------------
(* The steps of the writer.                                                *)

\* What FileOp makes of the directory.
Effect(d, w, h, d2) ==
    CASE h.op = "rotate" -> d2 = IF d = Absent \/ d = EmptyDir THEN d ELSE Absent
      [] h.op = "mkdir"  -> d2 = IF d = Absent THEN EmptyDir ELSE d
      [] h.op = "remove" -> d2 = [d EXCEPT ![h.file] = Absent]
      [] h.op = "open"   -> d2 = [d EXCEPT ![h.file] = Torn]
      [] h.op = "write"  ->
            LET x == Content(w.run, IF h.file = "status" THEN w.listed ELSE {})
            IN  \E c \in IF d[h.file] = Torn THEN {x} ELSE {x, Torn} :
                    d2 = [d EXCEPT ![h.file] = c]
      [] h.op = "list"   -> d2 = d

Advanced(d, w) == [w EXCEPT !.todo = Tail(@),
                            !.listed = IF Head(w.todo).op = "list" THEN Manifest(d) ELSE @]

\* A busy writer has a due step, and the rest is the end of the same script.
HasDueStep(s, w) ==
    \E mode \in s.modes : /\ IsDue(Pending(w), mode, w.run.has, Head(w.todo))
                          /\ Tails(Pending(w) \ {Head(w.todo)}, mode, w.run.has)
IsAdvanced(s, d, w, w2) ==
    /\ w2 \in Writers(s)
    /\ Pending(w2) = Pending(w) \ {Head(w.todo)} /\ Sorted(w2.todo)
    /\ w2.run = w.run /\ w2.session_idx = w.session_idx /\ w2.phase = "busy"
    /\ w2.listed = IF Head(w.todo).op = "list" THEN Manifest(d) ELSE w.listed
\* Its step is the one of lowest rank.
LEMMA BusyWriter ==
    ASSUME NEW s \in Settings, NEW d, NEW w, NEW n, WriterInv(s, d, w, n),
           w.phase = "busy", w.todo # <<>>
    PROVE  HasDueStep(s, w) /\ IsAdvanced(s, d, w, Advanced(d, w))
<1> DEFINE h == Head(w.todo)
           P == Pending(w)
<1>1. w \in Writers(s) /\ Sorted(w.todo) /\ Writing(s, d, w)
  BY DEF WriterInv, Writing
<1>2. w.todo \in Seq(Steps)
  BY <1>1 DEF Writers
<1>3. /\ h \in P /\ h \in Steps /\ P \subseteq Steps
      /\ \A o \in P : o # h => Rank(h) < Rank(o)
      /\ Tail(w.todo) \in Seq(Steps) /\ Sorted(Tail(w.todo))
      /\ OpsOf(Tail(w.todo)) = P \ {h}
  BY <1>1, <1>2, HeadIsDue DEF Pending
<1>4. PICK mode \in s.modes : Tails(P, mode, w.run.has)
  BY <1>1 DEF Writing
<1> HIDE DEF h, P
<1>5. IsDue(P, mode, w.run.has, h)
  BY <1>3, <1>4 DEF IsDue
<1>6. Tails(P \ {h}, mode, w.run.has)
  <2> SUFFICES ASSUME NEW o \in Script(mode, w.run.has) \ (P \ {h}), NEW p \in P \ {h}
               PROVE  Rank(o) < Rank(p)
    BY <1>4 DEF Tails
  <2>1. CASE o = h
    BY <2>1, <1>3
  <2>2. CASE o # h
    BY <2>2, <1>4 DEF Tails
  <2> QED  BY <2>1, <2>2
<1>7. Manifest(d) \in SUBSET Names
  BY NamesAre DEF Manifest, Present, OwnedNames
<1>8. /\ Advanced(d, w) \in Writers(s)
      /\ Advanced(d, w).todo = Tail(w.todo)
      /\ Advanced(d, w).run = w.run /\ Advanced(d, w).session_idx = w.session_idx
      /\ Advanced(d, w).phase = "busy"
      /\ Advanced(d, w).listed = IF h.op = "list" THEN Manifest(d) ELSE w.listed
  BY <1>1, <1>3, <1>7 DEF Advanced, Writers, h
<1> QED  BY <1>3, <1>5, <1>6, <1>8 DEF h, P, Pending, HasDueStep, IsAdvanced

\* write_coordination_log is not refused: when the log is due, it has been
\* removed or rotated away.
LEMMA LogIsAbsent ==
    ASSUME NEW s \in Settings, NEW d, NEW w, NEW n, WriterInv(s, d, w, n),
           w.phase = "busy", w.todo # <<>>, Head(w.todo) = Op("open", "log")
    PROVE  d # Absent /\ d["log"] = Absent
<1> DEFINE h == Head(w.todo)
           P == Pending(w)
<1>1. PICK mode \in s.modes : IsDue(P, mode, w.run.has, h)
  BY BusyWriter DEF HasDueStep
<1>2. w.run.has \in SUBSET Optional /\ Writing(s, d, w)
  BY DEF WriterInv, Writers, RunsOf
<1>3. h.op = "open" /\ h.file = "log" /\ h \in P
  BY <1>1 DEF Op, IsDue
<1> HIDE DEF h, P
<1>4. /\ Op("rotate", "notes") \notin P /\ Op("mkdir", "notes") \notin P
      /\ Op("remove", "log") \notin P
  <2>1. h # Op("rotate", "notes")
    BY <1>3 DEF Op
  <2>2. DueFacts(P, mode, w.run.has, h)
    BY <1>1, <1>2, Due
  <2> QED  BY <2>1, <2>2, <1>3 DEF DueFacts
<1>5. d # Absent /\ FileAt(d, "log", P, w.run, w.listed)
  BY <1>2, <1>4 DEF Writing, InOrder, Own, Evidence, OwnedNames, P
<1>6. "log" \in Written(w.run.has) /\ Op("open", "log") \in P
  BY <1>2, <1>3 DEF Written, OwnedNames, Optional, h
<1> QED  BY <1>4, <1>5, <1>6 DEF FileAt

\* What a step of the writer leaves of the directory's files.
LEMMA FilesAdvance ==
    ASSUME NEW s \in Settings, NEW d \in DirsOf(s), NEW w, NEW n, WriterInv(s, d, w, n),
           w.phase = "busy", w.todo # <<>>,
           NEW d2, Effect(d, w, Head(w.todo), d2)
    PROVE  /\ d2 \in DirsOf(s)
           /\ Head(w.todo).op # "rotate" => d2 # Absent
           /\ InOrder(s, d2, Pending(Advanced(d, w)), w.run, Advanced(d, w).listed)
<1> DEFINE h == Head(w.todo)
           P == Pending(w)
           Q == P \ {h}
           l2 == Advanced(d, w).listed
           T == States(s)
<1>1. PICK mode \in s.modes : /\ IsDue(P, mode, w.run.has, h)
                              /\ Tails(Q, mode, w.run.has)
  BY BusyWriter DEF HasDueStep
<1>2. /\ Pending(Advanced(d, w)) = Q
      /\ l2 = IF h.op = "list" THEN Manifest(d) ELSE w.listed
  <2>1. IsAdvanced(s, d, w, Advanced(d, w))
    BY BusyWriter
  <2> QED  BY <2>1 DEF IsAdvanced
<1>3. w.run \in RunsOf(s.sessions) /\ w.listed \in SUBSET Names /\ Writing(s, d, w)
  BY DEF WriterInv, Writers
<1>4. w.run.has \in SUBSET Optional
  BY <1>3 DEF RunsOf
<1>due. DueFacts(P, mode, w.run.has, h)
  BY <1>1, <1>4, Due
<1>5. h \in P /\ h \in Steps /\ InScript(h, mode, w.run.has)
  BY <1>1, <1>due DEF DueFacts, IsDue
<1>6. h.op \in OpNames /\ h.file \in Names
  BY <1>5 DEF Steps
<1>7. Effect(d, w, h, d2)
  OBVIOUS
<1>8. d = Absent => Op("mkdir", "notes") \in P
  BY <1>3 DEF Writing
<1>9. d # Absent => \A f \in Own(s) : FileAt(d, f, P, w.run, w.listed)
  BY <1>3 DEF Writing, InOrder
<1>10. h.op \in {"remove", "open", "write", "list"} =>
          d # Absent /\ Op("rotate", "notes") \notin P
  <2>1. Op("mkdir", "notes") \in P => h.op \in {"rotate", "mkdir"}
    BY <1>due DEF DueFacts
  <2>2. Op("rotate", "notes") \in P => h.op = "rotate"
    <3>1. Op("rotate", "notes") \in P => h = Op("rotate", "notes")
      BY <1>due DEF DueFacts
    <3> QED  BY <3>1 DEF Op
  <2> QED  BY <1>8, <2>1, <2>2
<1>11. \A f : Written(w.run.has) \subseteq OwnedNames
  BY DEF Written
<1>12. Own(s) \subseteq OwnedNames /\ OwnedNames \subseteq Names
  BY NamesAre DEF Own, Evidence
<1>13. /\ Absent # Torn
       /\ \A l \in SUBSET Names : Content(w.run, l) \in T /\ Content(w.run, l) # Absent
                                  /\ Content(w.run, l) # Torn
  BY <1>3, ContentIsWhole, StatesDiffer DEF States
<1>14. EmptyDir \in DirsOf(s) /\ EmptyDir # Absent /\ \A f \in Names : EmptyDir[f] = Absent
  BY EmptyDirIsThere DEF EmptyDir
<1>15. ASSUME h.op \in {"rotate", "mkdir", "remove"}
       PROVE  \A f \in Written(w.run.has) : Op("open", f) \in Q
  <2>1. \A f \in Written(w.run.has) : Op("open", f) \in P
    BY <1>15, <1>due DEF DueFacts
  <2>2. \A f : Op("open", f) # h
    BY <1>15 DEF Op
  <2> QED  BY <2>1, <2>2
<1>16. ASSUME NEW f, f # h.file, h.op \in {"remove", "open", "write"}
       PROVE  /\ Op("remove", f) \in P => Op("remove", f) \in Q
              /\ Op("open", f) \in Q <=> Op("open", f) \in P
              /\ Op("write", f) \in Q <=> Op("write", f) \in P
              /\ Op("rotate", "notes") \in P => Op("rotate", "notes") \in Q
  <2>1. Op("remove", f) # h /\ Op("open", f) # h /\ Op("write", f) # h
        /\ Op("rotate", "notes") # h
    BY <1>16 DEF Op
  <2> QED  BY <2>1
<1>17. h = Op(h.op, h.file)
  BY <1>5 DEF Steps, Op
<1>18. ASSUME NEW f \in Names, NEW x \in T, d # Absent, d2 = [d EXCEPT ![f] = x]
       PROVE  /\ d2 \in DirsOf(s) /\ d2 # Absent
              /\ d2[f] = x
              /\ \A g \in Names : g # f => d2[g] = d[g]
  <2>1. OneFileChanges(s, d, f, x, [d EXCEPT ![f] = x])
    BY <1>18, FileChanges
  <2>2. OneFileChanges(s, d, f, x, d2)
    BY <1>18, <2>1, Zenon
  <2> QED  BY <2>2 DEF OneFileChanges
<1>19. Absent \in T /\ Torn \in T
  BY DEF States
<1> HIDE DEF h, P, l2, T
<1>20. CASE h.op = "rotate"
  <2>1. d2 = IF d = Absent \/ d = EmptyDir THEN d ELSE Absent
    BY <1>7, <1>20 DEF Effect
  <2>2. d2 \in DirsOf(s)
    BY <2>1 DEF DirsOf
  <2>3. ASSUME d2 # Absent, NEW f \in Own(s) PROVE FileAt(d2, f, Q, w.run, l2)
    <3>1. d2[f] = Absent
      BY <2>1, <2>3, <1>12, <1>14
    <3> QED  BY <3>1, <1>15, <1>20 DEF FileAt
  <2> QED  BY <2>2, <2>3, <1>2, <1>20 DEF h, l2, InOrder
<1>21. CASE h.op = "mkdir"
  <2>1. d2 = IF d = Absent THEN EmptyDir ELSE d
    BY <1>7, <1>21 DEF Effect
  <2>2. d2 \in DirsOf(s) /\ d2 # Absent
    BY <2>1, <1>14
  <2>3. ASSUME NEW f \in Own(s) PROVE FileAt(d2, f, Q, w.run, l2)
    <3>1. CASE d = Absent
      <4>1. d2[f] = Absent
        BY <2>1, <3>1, <1>12, <1>14
      <4> QED  BY <4>1, <1>15, <1>21 DEF FileAt
    <3>2. CASE d # Absent
      <4>1. FileAt(d, f, P, w.run, w.listed) /\ d2 = d
        BY <3>2, <1>9, <2>1
      <4>2. \A o : o.op # "mkdir" => (o \in Q <=> o \in P)
        BY <1>21
      <4>3. /\ Op("rotate", "notes") \in Q <=> Op("rotate", "notes") \in P
            /\ Op("remove", f) \in Q <=> Op("remove", f) \in P
            /\ Op("open", f) \in Q <=> Op("open", f) \in P
            /\ Op("write", f) \in Q <=> Op("write", f) \in P
        BY <4>2 DEF Op
      <4>4. l2 = w.listed
        BY <1>2, <1>21
      <4> QED  BY <4>1, <4>3, <4>4 DEF FileAt
    <3> QED  BY <3>1, <3>2
  <2> QED  BY <2>2, <2>3, <1>2 DEF h, l2, InOrder
<1>22. CASE h.op = "remove"
  <2>1. d2 = [d EXCEPT ![h.file] = Absent]
    BY <1>7, <1>22 DEF Effect
  <2>2. /\ d2 \in DirsOf(s) /\ d2 # Absent /\ d2[h.file] = Absent
        /\ \A g \in Names : g # h.file => d2[g] = d[g]
    BY <2>1, <1>6, <1>10, <1>18, <1>19, <1>22
  <2>3. ASSUME NEW f \in Own(s) PROVE FileAt(d2, f, Q, w.run, l2)
    <3>1. CASE f = h.file
      BY <3>1, <2>2, <1>15, <1>22 DEF FileAt
    <3>2. CASE f # h.file
      <4>1. FileAt(d, f, P, w.run, w.listed) /\ d2[f] = d[f] /\ l2 = w.listed
        BY <3>2, <2>2, <1>2, <1>9, <1>10, <1>12, <1>22
      <4> QED  BY <4>1, <3>2, <1>16, <1>22 DEF FileAt
    <3> QED  BY <3>1, <3>2
  <2> QED  BY <2>2, <2>3, <1>2 DEF h, l2, InOrder
<1>23. CASE h.op = "open"
  <2>1. d2 = [d EXCEPT ![h.file] = Torn]
    BY <1>7, <1>23 DEF Effect
  <2>2. /\ d2 \in DirsOf(s) /\ d2 # Absent /\ d2[h.file] = Torn
        /\ \A g \in Names : g # h.file => d2[g] = d[g]
    BY <2>1, <1>6, <1>10, <1>18, <1>19, <1>23
  <2>3. ASSUME NEW f \in Own(s) PROVE FileAt(d2, f, Q, w.run, l2)
    <3>1. CASE f = h.file
      <4>1. Op("write", f) \in P
        BY <3>1, <1>23, <1>due DEF DueFacts
      <4>2. Op("write", f) \in Q /\ Op("open", f) \notin Q
        BY <4>1, <3>1, <1>17, <1>23 DEF Op
      <4> QED  BY <4>2, <3>1, <2>2 DEF FileAt
    <3>2. CASE f # h.file
      <4>1. FileAt(d, f, P, w.run, w.listed) /\ d2[f] = d[f] /\ l2 = w.listed
        BY <3>2, <2>2, <1>2, <1>9, <1>10, <1>12, <1>23
      <4> QED  BY <4>1, <3>2, <1>16, <1>23 DEF FileAt
    <3> QED  BY <3>1, <3>2
  <2> QED  BY <2>2, <2>3, <1>2 DEF h, l2, InOrder
<1>24. CASE h.op = "write"
  <2> DEFINE x == Content(w.run, IF h.file = "status" THEN w.listed ELSE {})
  <2>1. PICK c \in IF d[h.file] = Torn THEN {x} ELSE {x, Torn} : d2 = [d EXCEPT ![h.file] = c]
    BY <1>7, <1>24 DEF Effect
  <2>2. x \in T
    BY <1>3, <1>13
  <2>3. c \in T
    BY <2>1, <2>2, <1>19
  <2>4. /\ d2 \in DirsOf(s) /\ d2 # Absent /\ d2[h.file] = c
        /\ \A g \in Names : g # h.file => d2[g] = d[g]
    BY <2>1, <2>3, <1>6, <1>10, <1>18, <1>19, <1>24
  <2>5. ASSUME NEW f \in Own(s) PROVE FileAt(d2, f, Q, w.run, l2)
    <3>1. CASE f = h.file
      <4>1. FileAt(d, f, P, w.run, w.listed) /\ l2 = w.listed
        BY <1>2, <1>9, <1>10, <1>24
      <4>2. Op("open", f) \notin P /\ Op("remove", f) \notin P /\ Op("rotate", "notes") \notin P
        BY <3>1, <1>10, <1>24, <1>due DEF DueFacts
      <4>3. f \in Written(w.run.has)
        BY <3>1, <1>5, <1>24 DEF InScript, Op
      <4>4. Op("write", f) \in P
        BY <3>1, <1>5, <1>17, <1>24
      <4>5. d[f] = Torn
        BY <4>1, <4>2, <4>3, <4>4 DEF FileAt
      <4>6. d2[f] = x
        BY <4>5, <3>1, <2>1, <2>4
      <4>7. Op("open", f) \notin Q /\ Op("write", f) \notin Q
        BY <4>2, <3>1, <1>17, <1>24
      <4> QED  BY <4>1, <4>3, <4>6, <4>7, <3>1 DEF FileAt
    <3>2. CASE f # h.file
      <4>1. FileAt(d, f, P, w.run, w.listed) /\ d2[f] = d[f] /\ l2 = w.listed
        BY <3>2, <2>4, <1>2, <1>9, <1>10, <1>12, <1>24
      <4> QED  BY <4>1, <3>2, <1>16, <1>24 DEF FileAt
    <3> QED  BY <3>1, <3>2
  <2> QED  BY <2>4, <2>5, <1>2 DEF h, l2, InOrder
<1>25. CASE h.op = "list"
  <2>1. d2 = d /\ d # Absent
    BY <1>7, <1>10, <1>25 DEF Effect
  <2>2. ASSUME NEW f \in Own(s) PROVE FileAt(d2, f, Q, w.run, l2)
    <3>1. FileAt(d, f, P, w.run, w.listed)
      BY <2>1, <1>9
    <3>2. /\ Op("rotate", "notes") \in Q <=> Op("rotate", "notes") \in P
          /\ Op("remove", f) \in Q <=> Op("remove", f) \in P
          /\ Op("open", f) \in Q <=> Op("open", f) \in P
          /\ Op("write", f) \in Q <=> Op("write", f) \in P
      BY <1>25 DEF Op
    <3>3. f = "status" => Op("write", f) \in Q
      BY <3>2, <1>25, <1>due DEF DueFacts
    <3> QED  BY <2>1, <3>1, <3>2, <3>3 DEF FileAt
  <2> QED  BY <2>1, <2>2, <1>2 DEF h, l2, InOrder
<1> QED  BY <1>6, <1>20, <1>21, <1>22, <1>23, <1>24, <1>25 DEF OpNames

\* The manifest does not depend on status and readme, which come after it.
LEMMA ManifestStays ==
    ASSUME NEW d, NEW d2, NEW f \in {"status", "readme"},
           \A g \in Names : g # f => d2[g] = d[g]
    PROVE  Manifest(d2) = Manifest(d)
  BY DEF Manifest, Present

\* A step of a busy writer leaves it in order.
LEMMA WritingAdvances ==
    ASSUME NEW s \in Settings, NEW d \in DirsOf(s), NEW w, NEW n, WriterInv(s, d, w, n),
           w.phase = "busy", w.todo # <<>>,
           NEW d2, Effect(d, w, Head(w.todo), d2)
    PROVE  Writing(s, d2, Advanced(d, w))
<1> DEFINE h == Head(w.todo)
           P == Pending(w)
           Q == P \ {h}
           w2 == Advanced(d, w)
<1>1. PICK mode \in s.modes : /\ IsDue(P, mode, w.run.has, h)
                              /\ Tails(Q, mode, w.run.has)
  BY BusyWriter DEF HasDueStep
<1>2. /\ Pending(w2) = Q /\ Sorted(w2.todo) /\ w2.run = w.run
      /\ w2.listed = IF h.op = "list" THEN Manifest(d) ELSE w.listed
  <2>1. IsAdvanced(s, d, w, w2)
    BY BusyWriter
  <2> QED  BY <2>1 DEF IsAdvanced
<1>3. w.run.has \in SUBSET Optional /\ Writing(s, d, w)
  BY DEF WriterInv, Writers, RunsOf
<1>due. DueFacts(P, mode, w.run.has, h)
  BY <1>1, <1>3, Due
<1>4. h \in P /\ h \in Steps /\ InScript(h, mode, w.run.has)
  BY <1>1, <1>due DEF DueFacts, IsDue
<1>5. d2 \in DirsOf(s) /\ (h.op # "rotate" => d2 # Absent)
  BY FilesAdvance
<1>6. InOrder(s, d2, Q, w.run, w2.listed)
  <2>1. InOrder(s, d2, Pending(w2), w.run, w2.listed)
    BY FilesAdvance
  <2> QED  BY <2>1, <1>2
<1>7. Effect(d, w, h, d2)
  OBVIOUS
<1> HIDE DEF w2, h, P
<1>8. d2 = Absent => Op("mkdir", "notes") \in Q
  <2>1. h.op = "rotate" => Op("mkdir", "notes") \in P
    BY <1>due DEF DueFacts
  <2>2. h.op = "rotate" => Op("mkdir", "notes") # h
    BY DEF Op
  <2> QED  BY <2>1, <2>2, <1>5
<1>9. ASSUME ~s.overlap, d2 # Absent, Op("list", "status") \notin Q
      PROVE  w2.listed = Manifest(d2)
  <2>1. CASE h.op = "list"
    <3>1. d2 = d
      BY <2>1, <1>7 DEF Effect
    <3> QED  BY <3>1, <2>1, <1>2
  <2>2. CASE h.op # "list"
    <3>1. Op("list", "status") \notin P
      BY <2>2, <1>9 DEF Op
    <3>2. h.op \in {"open", "write"} /\ h.file \in {"status", "readme"}
      BY <3>1, <1>due DEF DueFacts
    <3>3. d # Absent
      <4>1. Op("mkdir", "notes") \in P => h.op \in {"rotate", "mkdir"}
        BY <1>due DEF DueFacts
      <4> QED  BY <4>1, <3>2, <1>3 DEF Writing, P
    <3>4. w.listed = Manifest(d) /\ w2.listed = w.listed
      BY <3>1, <3>3, <2>2, <1>2, <1>3, <1>9 DEF Writing, P
    <3>5. \A g \in Names : g # h.file => d2[g] = d[g]
      <4>1. PICK x : d2 = [d EXCEPT ![h.file] = x]
        BY <3>2, <1>7 DEF Effect
      <4>2. d \in [Names -> States(s)]
        BY <3>3, DirIsThere DEF States
      <4> QED  BY <4>1, <4>2
    <3> QED  BY <3>2, <3>4, <3>5, ManifestStays
  <2> QED  BY <2>1, <2>2
<1>10. \E m \in s.modes : Tails(Pending(w2), m, w2.run.has)
  BY <1>1, <1>2
<1>11. InOrder(s, d2, Pending(w2), w2.run, w2.listed)
  BY <1>2, <1>6
<1> QED  BY <1>2, <1>8, <1>9, <1>10, <1>11 DEF Writing, w2

\* No step of a writer mixes the evidence of two runs: what it leaves is of one
\* run until it has cleaned, and of its own from then on.
LEMMA OneRunAdvances ==
    ASSUME NEW s \in Settings, NEW d \in DirsOf(s), NEW w, NEW n, WriterInv(s, d, w, n),
           w.phase = "busy", w.todo # <<>>, OneRun(d),
           NEW d2, Effect(d, w, Head(w.todo), d2)
    PROVE  OneRun(d2)
<1> DEFINE h == Head(w.todo)
           P == Pending(w)
           Q == P \ {h}
<1>1. PICK mode \in s.modes : IsDue(P, mode, w.run.has, h)
  BY BusyWriter DEF HasDueStep
<1>2. w.run.has \in SUBSET Optional /\ Writing(s, d, w) /\ w.run \in RunsOf(s.sessions)
  BY DEF WriterInv, Writers, RunsOf
<1>due. DueFacts(P, mode, w.run.has, h)
  BY <1>1, <1>2, Due
<1>3. h \in P /\ h \in Steps /\ InScript(h, mode, w.run.has)
  BY <1>1, <1>due DEF DueFacts, IsDue
<1>4. h.op \in OpNames /\ h.file \in Names
  BY <1>3 DEF Steps
<1>5. Effect(d, w, h, d2) /\ d2 \in DirsOf(s)
  BY FilesAdvance
<1>6. h.op \in {"remove", "open", "write"} => d \in [Names -> States(s)] /\ d # Absent
  <2>1. Op("mkdir", "notes") \in P => h.op \in {"rotate", "mkdir"}
    BY <1>due DEF DueFacts
  <2>2. h.op \in {"remove", "open", "write"} => d # Absent
    BY <2>1, <1>2 DEF Writing
  <2> QED  BY <2>2, DirIsThere DEF States
<1>7. Evidence \subseteq Names /\ Evidence \subseteq Own(s) /\ "status" \notin Evidence
  BY NamesAre DEF Evidence, Own
<1> HIDE DEF h, P
<1>8. CASE h.op \in {"rotate", "mkdir", "list"}
  <2>1. d2 = d \/ d2 = Absent \/ d2 = EmptyDir
    BY <1>5, <1>8 DEF Effect
  <2>2. OneRun(Absent) /\ OneRun(EmptyDir)
    BY <1>7 DEF OneRun, EmptyDir, Whole
  <2> QED  BY <2>1, <2>2
<1>9. CASE h.op \in {"remove", "open"}
  <2>1. PICK x \in {Absent, Torn} : d2 = [d EXCEPT ![h.file] = x]
    BY <1>5, <1>9 DEF Effect
  <2>2. \A f \in Names : Whole(d2, f) => Whole(d, f) /\ d2[f] = d[f]
    BY <2>1, <1>4, <1>6, <1>9 DEF Whole
  <2> QED  BY <2>2, <1>6, <1>7, <1>9 DEF OneRun
<1>10. CASE h.op = "write"
  <2>1. PICK x : d2 = [d EXCEPT ![h.file] = x]
    BY <1>5, <1>10 DEF Effect
  <2>2. \A f \in Names : f # h.file => d2[f] = d[f]
    BY <2>1, <1>6, <1>10
  <2>3. CASE h.file \notin Evidence
    BY <2>2, <2>3, <1>6, <1>7, <1>10 DEF OneRun, Whole
  <2>4. CASE h.file \in Evidence
    <3>1. \A f \in Own(s) : d2 # Absent => FileAt(d2, f, Q, w.run, Advanced(d, w).listed)
      <4>1. IsAdvanced(s, d, w, Advanced(d, w))
        BY BusyWriter
      <4>2. Pending(Advanced(d, w)) = Q
        BY <4>1 DEF IsAdvanced, h, P
      <4>3. InOrder(s, d2, Pending(Advanced(d, w)), w.run, Advanced(d, w).listed)
        BY FilesAdvance
      <4> QED  BY <4>2, <4>3 DEF InOrder
    <3>2. Op("rotate", "notes") \notin Q /\ \A f : Op("remove", f) \notin Q
      <4>1. h # Op("rotate", "notes")
        BY <1>10 DEF Op
      <4> QED  BY <4>1, <1>10, <1>due DEF DueFacts
    <3>3. {} \in SUBSET Names
      OBVIOUS
    <3>4. Content(w.run, {}).run = w.run
      BY <3>3, <1>2, ContentIsWhole
    <3>5. ASSUME d2 # Absent, NEW f \in Evidence, Whole(d2, f) PROVE d2[f].run = w.run
      <4>1. FileAt(d2, f, Q, w.run, Advanced(d, w).listed) /\ f # "status"
        BY <3>1, <3>5, <1>7
      <4>2. d2[f] # Absent /\ d2[f] # Torn
        BY <3>5 DEF Whole
      <4>3. d2[f] = Content(w.run, {})
        BY <4>1, <4>2, <3>2 DEF FileAt
      <4> QED  BY <4>3, <3>4
    <3> QED  BY <3>5 DEF OneRun
  <2> QED  BY <2>3, <2>4
<1> QED  BY <1>4, <1>8, <1>9, <1>10 DEF OpNames

\* A bundle that verify has not touched is exact, and so is one it finished.
LEMMA NearIsExact ==
    ASSUME NEW d, NEW r, NEW v, Near(d, r, v), v.phase \notin {"write_report", "write_status"}
    PROVE  IsBundleOf(d, r)
<1>1. /\ d # Absent /\ d["report"] = Content(r, {}) /\ d["status"] = Content(r, Present(d))
      /\ \A f \in Evidence : d[f] = IF f \in Optional \ r.has THEN Absent ELSE Content(r, {})
  BY DEF Near
<1>2. ToSet(OWNED_FILES) \ {"status"} = Evidence \cup {"report"}
  BY OwnedFiles DEF Evidence, OwnedNames
<1>3. "report" \notin Optional
  BY DEF Optional
<1> QED  BY <1>1, <1>2, <1>3 DEF IsBundleOf

\* A step of the writer preserves the invariant.
LEMMA StepPersist == BundleInv /\ PersistStep /\ UNCHANGED setting => BundleInv'
<1> SUFFICES ASSUME BundleInv, PersistStep, UNCHANGED setting PROVE BundleInv'
  OBVIOUS
<1> DEFINE h == Head(writer.todo)
           P == Pending(writer)
<1>1. /\ setting \in Settings /\ dir \in DirsOf(setting) /\ prev \in Seq(DirsOf(setting))
      /\ completed \in Seq(RunsOf(setting.sessions))
      /\ WriterInv(setting, dir, writer, started)
      /\ OneRun(dir)
      /\ VerifierInv(setting, dir, writer, verifier)
      /\ KeptInv(setting, dir, prev, writer, verifier, completed)
  BY DEF BundleInv
<1>2. /\ writer.phase = "busy" /\ writer.todo # <<>> /\ setting' = setting
      /\ started' = started /\ completed' = completed
  BY DEF PersistStep
<1>3. PICK mode \in setting.modes : IsDue(P, mode, writer.run.has, h)
  BY <1>1, <1>2, BusyWriter DEF HasDueStep
<1>4. writer.run.has \in SUBSET Optional /\ writer \in Writers(setting)
  BY <1>1 DEF WriterInv, Writers, RunsOf
<1>due. DueFacts(P, mode, writer.run.has, h)
  BY <1>3, <1>4, Due
<1>5. h \in P /\ h \in Steps /\ InScript(h, mode, writer.run.has)
  BY <1>3, <1>due DEF DueFacts, IsDue
<1>6. ~Refused(h)
  <2> SUFFICES ASSUME h.op = "open", h.file = "log" PROVE dir["log"] = Absent
    BY DEF Refused
  <2>1. h = Op("open", "log")
    BY <1>5 DEF Steps, Op
  <2> QED  BY <2>1, <1>1, <1>2, LogIsAbsent
<1>7. /\ FileOp(h) /\ writer' = Advanced(dir, writer)
      /\ verifier' = [verifier EXCEPT !.undisturbed = FALSE,
                                      !.orphaned = @ \/ (h.op = "remove" /\ h.file = OpenInVerifier)]
  BY <1>6 DEF PersistStep, Advanced
<1>8. h.op \in OpNames
  BY <1>5 DEF Steps
<1>9. /\ Effect(dir, writer, h, dir')
      /\ h.op # "rotate" => prev' = prev
      /\ h.op = "rotate" =>
             prev' = IF dir = Absent \/ dir = EmptyDir THEN prev ELSE Append(prev, dir)
  <2>1. CASE h.op = "rotate"
    BY <2>1, <1>7 DEF FileOp, rotate, Effect
  <2>2. CASE h.op = "mkdir"
    BY <2>2, <1>7 DEF FileOp, Effect
  <2>3. CASE h.op = "remove"
    BY <2>3, <1>7 DEF FileOp, Effect
  <2>4. CASE h.op = "open"
    BY <2>4, <1>7 DEF FileOp, Effect
  <2>5. CASE h.op = "write"
    BY <2>5, <1>7 DEF FileOp, Effect, Landed
  <2>6. CASE h.op = "list"
    BY <2>6, <1>7 DEF FileOp, Effect
  <2> QED  BY <1>8, <2>1, <2>2, <2>3, <2>4, <2>5, <2>6 DEF OpNames
<1>10. /\ IsAdvanced(setting, dir, writer, writer')
       /\ dir' \in DirsOf(setting) /\ (h.op # "rotate" => dir' # Absent)
       /\ Writing(setting, dir', writer')
       /\ OneRun(dir')
  <2>1. IsAdvanced(setting, dir, writer, Advanced(dir, writer))
    BY <1>1, <1>2, BusyWriter
  <2>2. dir' \in DirsOf(setting) /\ (h.op # "rotate" => dir' # Absent)
    BY <1>1, <1>2, <1>9, FilesAdvance
  <2>3. Writing(setting, dir', Advanced(dir, writer))
    BY <1>1, <1>2, <1>9, WritingAdvances
  <2>4. OneRun(dir')
    BY <1>1, <1>2, <1>9, OneRunAdvances
  <2> QED  BY <2>1, <2>2, <2>3, <2>4, <1>7
<1>11. Pending(writer') = P \ {h} /\ writer'.phase = "busy"
  BY <1>10 DEF IsAdvanced
<1> HIDE DEF h, P
<1>12. WriterInv(setting, dir', writer', started)
  <2>1. /\ started \in 0..setting.sessions /\ writer.session_idx <= started
        /\ writer.run.session = started /\ writer.session_idx < started
    BY <1>1, <1>2 DEF WriterInv
  <2>2. /\ writer' \in Writers(setting) /\ writer'.session_idx = writer.session_idx
        /\ writer'.run = writer.run
    BY <1>10 DEF IsAdvanced
  <2> QED  BY <2>1, <2>2, <1>10 DEF WriterInv
<1>13. prev' \in Seq(DirsOf(setting))
  <2>1. prev' = prev \/ prev' = Append(prev, dir)
    BY <1>9
  <2> QED  BY <2>1, <1>1
<1>14. ~setting.overlap => ~Active(verifier)
  BY <1>1, <1>2 DEF VerifierInv
<1>15. setting.overlap => h.op # "rotate"
  BY <1>1, <1>3, <1>5, BundleAssumption DEF InScript, Op
<1>16. VerifierInv(setting, dir', writer', verifier')
  <2>1. /\ verifier' \in Verifiers(setting) /\ verifier'.phase = verifier.phase
        /\ verifier'.undisturbed = FALSE
    BY <1>1, <1>7 DEF VerifierInv, Verifiers
  <2>2. Active(verifier') <=> Active(verifier)
    BY <2>1 DEF Active
  <2>3. verifier.phase \in {"write_report", "list", "open_status", "write_status",
                            "open_report", "log"} => dir' # Absent
    BY <1>10, <1>14, <1>15 DEF Active
  <2>4. setting.overlap \in BOOLEAN
    BY <1>1, BundleAssumption
  <2> QED  BY <2>1, <2>2, <2>3, <2>4, <1>14 DEF VerifierInv
<1>17. KeptInv(setting, dir', prev', writer', verifier', completed)
  <2> SUFFICES ASSUME setting.modes = {"versioned"}, NEW i \in DOMAIN completed
               PROVE  \E k \in DOMAIN prev' : IsBundleOf(prev'[k], completed[i])
    BY DEF KeptInv
  <2>1. ~setting.overlap
    BY <1>1, BundleAssumption
  <2>2. \/ \E k \in DOMAIN prev : IsBundleOf(prev[k], completed[i])
        \/ Near(dir, completed[i], verifier) /\ Op("rotate", "notes") \in P
    BY <1>1, <1>2 DEF KeptInv, P
  <2>3. CASE \E k \in DOMAIN prev : IsBundleOf(prev[k], completed[i])
    <3>1. PICK k \in DOMAIN prev : IsBundleOf(prev[k], completed[i])
      BY <2>3
    <3>2. k \in DOMAIN prev' /\ prev'[k] = prev[k]
      BY <1>1, <1>9
    <3> QED  BY <3>1, <3>2
  <2>4. CASE Near(dir, completed[i], verifier) /\ Op("rotate", "notes") \in P
    <3>1. h.op = "rotate"
      <4>1. Op("rotate", "notes") \in P => h = Op("rotate", "notes")
        BY <1>due DEF DueFacts
      <4> QED  BY <2>4, <4>1 DEF Op
    <3>2. verifier.phase \notin {"write_report", "write_status"}
      BY <2>1, <1>14 DEF Active
    <3>3. IsBundleOf(dir, completed[i])
      BY <2>4, <3>2, NearIsExact
    <3>4. dir # Absent /\ dir # EmptyDir
      <4>1. completed[i] \in RunsOf(setting.sessions)
        BY <1>1
      <4>2. Content(completed[i], {}) # Absent
        BY <4>1, <1>1, PlainIsWhole
      <4>3. dir["report"] = Content(completed[i], {})
        BY <2>4, <3>2 DEF Near
      <4>4. EmptyDir["report"] = Absent
        BY NamesAre DEF EmptyDir, OwnedNames
      <4> QED  BY <2>4, <4>2, <4>3, <4>4 DEF Near
    <3>5. prev' = Append(prev, dir)
      BY <3>1, <3>4, <1>9
    <3>6. Len(prev) + 1 \in DOMAIN prev' /\ prev'[Len(prev) + 1] = dir
      BY <3>5, <1>1
    <3> QED  BY <3>3, <3>6
  <2> QED  BY <2>2, <2>3, <2>4
<1>18. LatestInv(setting, dir', writer', verifier', started, completed)
  BY <1>11 DEF LatestInv
<1> QED  BY <1>1, <1>2, <1>10, <1>12, <1>13, <1>16, <1>17, <1>18 DEF BundleInv

\* Beginning a bundle preserves the invariant: everything is left to do.
LEMMA StepBeginPersist ==
    ASSUME BundleInv, UNCHANGED setting, NEW mode \in setting.modes,
           NEW has \in SUBSET Optional, BeginPersist(mode, has)
    PROVE  BundleInv'
<1>1. /\ setting \in Settings /\ dir \in DirsOf(setting) /\ prev \in Seq(DirsOf(setting))
      /\ completed \in Seq(RunsOf(setting.sessions))
      /\ WriterInv(setting, dir, writer, started)
      /\ OneRun(dir)
      /\ VerifierInv(setting, dir, writer, verifier)
      /\ KeptInv(setting, dir, prev, writer, verifier, completed)
  BY DEF BundleInv
<1>2. /\ setting' = setting /\ started' = started + 1 /\ started < setting.sessions
      /\ dir' = dir /\ prev' = prev /\ verifier' = verifier /\ completed' = completed
      /\ writer.phase \in {"idle", "crashed"}
      /\ setting.overlap \/ ~Active(verifier)
  BY DEF BeginPersist, Verifying, Active
<1>3. mode \in {"node", "force", "versioned"} /\ setting.sessions \in Nat
      /\ setting.overlap \in BOOLEAN
  BY <1>1, BundleAssumption
<1> DEFINE script == persist_bundle(mode, has)
           run == [session |-> started + 1, has |-> has,
                   index |-> IF mode = "node" THEN writer.session_idx ELSE 0]
<1>4. script \in Seq(Steps) /\ Sorted(script) /\ OpsOf(script) = Script(mode, has)
  BY <1>3, ScriptIs
<1>5. /\ started \in 0..setting.sessions /\ writer \in Writers(setting)
      /\ writer.session_idx \in Nat /\ writer.session_idx <= started
  BY <1>1 DEF WriterInv, Writers
<1>6. run \in RunsOf(setting.sessions) /\ run.session = started + 1 /\ run.has = has
  <2>1. started + 1 \in 1..setting.sessions
    BY <1>2, <1>3, <1>5
  <2>2. (IF mode = "node" THEN writer.session_idx ELSE 0) \in 0..(setting.sessions - 1)
    BY <1>2, <1>3, <1>5
  <2> QED  BY <2>1, <2>2 DEF RunsOf
<1> HIDE DEF script, run
<1>7. writer' = [writer EXCEPT !.phase = "busy", !.todo = script, !.listed = {}, !.run = run]
  BY DEF BeginPersist, script, run
<1>8. /\ writer' \in Writers(setting) /\ writer'.phase = "busy" /\ writer'.todo = script
      /\ writer'.run = run /\ writer'.session_idx = writer.session_idx
  BY <1>4, <1>5, <1>6, <1>7 DEF Writers
<1>9. Pending(writer') = Script(mode, has)
  BY <1>4, <1>8 DEF Pending
<1>10. /\ Op("mkdir", "notes") \in Script(mode, has)
       /\ Op("list", "status") \in Script(mode, has)
       /\ mode = "versioned" => Op("rotate", "notes") \in Script(mode, has)
       /\ mode # "versioned" => \A f \in OwnedNames : Op("remove", f) \in Script(mode, has)
  BY NamesAre DEF Script, InScript, Op, Steps, OpNames, OwnedNames
<1>11. Writing(setting, dir, writer')
  <2>1. Sorted(writer'.todo)
    BY <1>4, <1>8
  <2>2. Tails(Script(mode, has), mode, writer'.run.has)
    BY <1>6, <1>8 DEF Tails
  <2>3. \A f \in Own(setting) : FileAt(dir, f, Script(mode, has), writer'.run, writer'.listed)
    BY <1>10 DEF FileAt, Own, Evidence
  <2> QED  BY <2>1, <2>2, <2>3, <1>9, <1>10 DEF Writing, InOrder
<1>12. WriterInv(setting, dir, writer', started + 1)
  <2>1. started + 1 \in 0..setting.sessions /\ writer.session_idx < started + 1
        /\ writer.session_idx <= started + 1
    BY <1>2, <1>3, <1>5
  <2> QED  BY <2>1, <1>6, <1>8, <1>11 DEF WriterInv
<1>13. VerifierInv(setting, dir, writer', verifier)
  BY <1>1, <1>2, <1>3 DEF VerifierInv
<1>14. KeptInv(setting, dir, prev, writer', verifier, completed)
  <2> SUFFICES ASSUME setting.modes = {"versioned"}, NEW i \in DOMAIN completed
               PROVE  \/ \E k \in DOMAIN prev : IsBundleOf(prev[k], completed[i])
                      \/ /\ i = Len(completed) /\ Near(dir, completed[i], verifier)
                         /\ writer'.phase # "busy" \/ Op("rotate", "notes") \in Pending(writer')
    BY DEF KeptInv
  <2>1. Op("rotate", "notes") \in Pending(writer')
    BY <1>9, <1>10
  <2> QED  BY <2>1, <1>1 DEF KeptInv
<1>15. LatestInv(setting, dir, writer', verifier, started + 1, completed)
  BY <1>8 DEF LatestInv
<1> QED  BY <1>1, <1>2, <1>12, <1>13, <1>14, <1>15 DEF BundleInv

\* What is complete when nothing is left to do.
LEMMA DoneIsNear ==
    ASSUME NEW s \in Settings, NEW d, NEW w, NEW n, NEW v, WriterInv(s, d, w, n),
           w.phase = "busy", w.todo = <<>>, ~s.overlap
    PROVE  Near(d, w.run, v)
<1>1. Writing(s, d, w) /\ w.run.has \in SUBSET Optional
  BY DEF WriterInv, Writers, RunsOf
<1>2. Pending(w) = {}
  BY DEF Pending, OpsOf
<1>3. d # Absent
  BY <1>1, <1>2 DEF Writing
<1>4. \A f \in OwnedNames : FileAt(d, f, {}, w.run, w.listed)
  BY <1>1, <1>2, <1>3 DEF Writing, InOrder, Own
<1>5. \A f \in OwnedNames :
         d[f] = IF f \in Written(w.run.has)
                THEN Content(w.run, IF f = "status" THEN w.listed ELSE {}) ELSE Absent
  BY <1>4 DEF FileAt
<1>6. w.listed = Manifest(d)
  BY <1>1, <1>2, <1>3 DEF Writing
<1>7. w.run \in RunsOf(s.sessions) /\ w.listed \in SUBSET Names
  BY DEF WriterInv, Writers
<1>8. Manifest(d) = Present(d)
  <2>1. d["status"] = Content(w.run, w.listed) /\ d["readme"] = Content(w.run, {})
    BY <1>5 DEF OwnedNames, Written, Optional
  <2>2. d["status"] # Absent /\ d["readme"] # Absent
    <3>1. Content(w.run, w.listed) # Absent
      BY <1>7, ListedIsWhole
    <3>2. Content(w.run, {}) # Absent
      BY <1>7, PlainIsWhole
    <3> QED  BY <2>1, <3>1, <3>2
  <2> QED  BY <2>2, NamesAre DEF Manifest, Present, OwnedNames
<1>9. \A f \in Evidence : d[f] = IF f \in Optional \ w.run.has THEN Absent
                                 ELSE Content(w.run, {})
  BY <1>5 DEF Evidence, Written, OwnedNames
<1>10. d["report"] = Content(w.run, {}) /\ d["status"] = Content(w.run, Present(d))
  BY <1>5, <1>6, <1>8 DEF OwnedNames, Written, Optional
<1> QED  BY <1>3, <1>9, <1>10 DEF Near

\* Finishing a bundle preserves the invariant.
LEMMA StepEndPersist == BundleInv /\ EndPersist /\ UNCHANGED setting => BundleInv'
<1> SUFFICES ASSUME BundleInv, EndPersist, UNCHANGED setting PROVE BundleInv'
  OBVIOUS
<1>1. /\ setting \in Settings /\ dir \in DirsOf(setting) /\ prev \in Seq(DirsOf(setting))
      /\ completed \in Seq(RunsOf(setting.sessions))
      /\ WriterInv(setting, dir, writer, started)
      /\ OneRun(dir)
      /\ VerifierInv(setting, dir, writer, verifier)
      /\ KeptInv(setting, dir, prev, writer, verifier, completed)
  BY DEF BundleInv
<1>2. /\ setting' = setting /\ started' = started /\ dir' = dir /\ prev' = prev
      /\ verifier' = verifier /\ completed' = Append(completed, writer.run)
      /\ writer.phase = "busy" /\ writer.todo = <<>>
      /\ writer' = [writer EXCEPT !.phase = "idle", !.session_idx = @ + 1]
  BY DEF EndPersist
<1>3. writer \in Writers(setting) /\ writer.run.session = started
      /\ writer.session_idx < started /\ started \in Nat
  BY <1>1, <1>2 DEF WriterInv
<1>4. writer.run \in RunsOf(setting.sessions) /\ writer.session_idx \in Nat
  BY <1>3 DEF Writers
<1>5. completed' \in Seq(RunsOf(setting.sessions))
  BY <1>1, <1>2, <1>4
<1>6. /\ writer' \in Writers(setting) /\ writer'.phase = "idle"
      /\ writer'.session_idx = writer.session_idx + 1
  <2>1. PICK m \in Nat : m = writer.session_idx + 1
    BY <1>4
  <2>2. writer' = [writer EXCEPT !.phase = "idle", !.session_idx = m]
    BY <1>2, <1>3, <2>1 DEF Writers
  <2> QED  BY <1>3, <2>1, <2>2 DEF Writers
<1>7. WriterInv(setting, dir, writer', started)
  <2>1. writer'.session_idx <= started
    BY <1>3, <1>4, <1>6
  <2> QED  BY <2>1, <1>1, <1>6 DEF WriterInv
<1>8. VerifierInv(setting, dir, writer', verifier)
  BY <1>1, <1>2, <1>6 DEF VerifierInv
<1>9. /\ Len(completed') = Len(completed) + 1 /\ Len(completed) \in Nat
      /\ completed'[Len(completed) + 1] = writer.run
      /\ DOMAIN completed' = 1..(Len(completed) + 1) /\ DOMAIN completed = 1..Len(completed)
      /\ \A i \in 1..Len(completed) : completed'[i] = completed[i]
  BY <1>1, <1>2
<1>10. ~setting.overlap => Near(dir, writer.run, verifier)
  BY <1>1, <1>2, DoneIsNear
<1>11. LatestInv(setting, dir, writer', verifier, started, completed')
  BY <1>9, <1>10 DEF LatestInv
<1>12. KeptInv(setting, dir, prev, writer', verifier, completed')
  <2> SUFFICES ASSUME setting.modes = {"versioned"}, NEW i \in DOMAIN completed'
               PROVE  \/ \E k \in DOMAIN prev : IsBundleOf(prev[k], completed'[i])
                      \/ i = Len(completed') /\ Near(dir, completed'[i], verifier)
    BY <1>6 DEF KeptInv
  <2>1. ~setting.overlap
    BY <1>1, BundleAssumption
  <2>2. CASE i = Len(completed) + 1
    BY <2>1, <2>2, <1>9, <1>10
  <2>3. CASE i \in 1..Len(completed)
    <3>1. Op("rotate", "notes") \notin Pending(writer)
      BY <1>2 DEF Pending, OpsOf
    <3>2. \E k \in DOMAIN prev : IsBundleOf(prev[k], completed[i])
      BY <2>3, <3>1, <1>1, <1>2, <1>9 DEF KeptInv
    <3> QED  BY <2>3, <3>2, <1>9
  <2> QED  BY <2>2, <2>3, <1>9
<1> QED  BY <1>1, <1>2, <1>5, <1>7, <1>8, <1>11, <1>12 DEF BundleInv

\* A kill preserves the invariant: whatever was left to do stays undone.
LEMMA StepCrash == BundleInv /\ Crash /\ UNCHANGED setting => BundleInv'
<1> SUFFICES ASSUME BundleInv, Crash, UNCHANGED setting PROVE BundleInv'
  OBVIOUS
<1>1. /\ WriterInv(setting, dir, writer, started)
      /\ VerifierInv(setting, dir, writer, verifier)
      /\ LatestInv(setting, dir, writer, verifier, started, completed)
      /\ KeptInv(setting, dir, prev, writer, verifier, completed)
  BY DEF BundleInv
<1>2. /\ setting' = setting /\ started' = started /\ dir' = dir /\ prev' = prev
      /\ verifier' = verifier /\ completed' = completed
      /\ writer' = [writer EXCEPT !.phase = IF writer.phase = "busy" THEN "crashed" ELSE @,
                                  !.todo = <<>>, !.session_idx = 0]
  BY DEF Crash
<1>3. writer \in Writers(setting) /\ started \in Nat
  BY <1>1 DEF WriterInv
<1>4. /\ writer' \in Writers(setting) /\ writer'.session_idx = 0
      /\ writer'.phase \in {"idle", "crashed"}
      /\ writer'.phase = "idle" => writer.phase = "idle"
  <2>1. PICK t \in Seq(Steps) : t = <<>>
    <3>1. <<>> \in Seq(Steps)
      OBVIOUS
    <3> QED  BY <3>1, Zenon
  <2>2. PICK ph \in {"idle", "crashed"} :
            ph = IF writer.phase = "busy" THEN "crashed" ELSE writer.phase
    BY <1>3 DEF Writers
  <2>3. writer' = [writer EXCEPT !.phase = ph, !.todo = t, !.session_idx = 0]
    BY <1>2, <1>3, <2>1, <2>2 DEF Writers
  <2> QED  BY <1>3, <2>2, <2>3 DEF Writers
<1>5. WriterInv(setting, dir, writer', started)
  BY <1>1, <1>3, <1>4 DEF WriterInv
<1>6. VerifierInv(setting, dir, writer', verifier)
  BY <1>1, <1>4 DEF VerifierInv
<1>7. LatestInv(setting, dir, writer', verifier, started, completed)
  BY <1>1, <1>4 DEF LatestInv
<1>8. KeptInv(setting, dir, prev, writer', verifier, completed)
  BY <1>1, <1>4 DEF KeptInv
<1> QED  BY <1>2, <1>5, <1>6, <1>7, <1>8 DEF BundleInv

-----------------------------------------------------------------------------
(* The steps of verify.                                                    *)

\* While verify is at work, the writer has files of its own only.
LEMMA VerifyTouches ==
    ASSUME NEW s \in Settings, NEW d \in DirsOf(s), d # Absent, NEW f \in {"report", "status"},
           NEW x \in States(s), NEW w, NEW n, WriterInv(s, d, w, n), OneRun(d),
           w.phase = "busy" => s.overlap, NEW d2, d2 = [d EXCEPT ![f] = x]
    PROVE  OneFileChanges(s, d, f, x, d2) /\ WriterInv(s, d2, w, n) /\ OneRun(d2)
<1>1. f \in Names /\ f \notin Evidence
  BY NamesAre DEF OwnedNames, Evidence
<1>2. OneFileChanges(s, d, f, x, d2)
  <2>1. OneFileChanges(s, d, f, x, [d EXCEPT ![f] = x])
    BY <1>1, FileChanges
  <2> QED  BY <2>1, Zenon
<1>3. d2 # Absent /\ \A g \in Evidence : d2[g] = d[g]
  BY <1>1, <1>2, NamesAre DEF OneFileChanges, Evidence
<1>4. OneRun(d2)
  BY <1>3 DEF OneRun, Whole
<1>5. WriterInv(s, d2, w, n)
  <2> SUFFICES ASSUME w.phase = "busy" PROVE Writing(s, d2, w)
    BY DEF WriterInv
  <2>1. s.overlap /\ Writing(s, d, w)
    BY DEF WriterInv
  <2>2. InOrder(s, d2, Pending(w), w.run, w.listed)
    BY <2>1, <1>3 DEF Writing, InOrder, Own, FileAt
  <2> QED  BY <2>1, <2>2, <1>3 DEF Writing
<1> QED  BY <1>2, <1>4, <1>5

\* Completed bundles stay, if one that was there is there.
LEMMA NearFollows ==
    ASSUME NEW s \in Settings, NEW d, NEW d2, NEW v, NEW v2, NEW w, NEW n, NEW pv,
           NEW c \in Seq(RunsOf(s.sessions)),
           LatestInv(s, d, w, v, n, c), KeptInv(s, d, pv, w, v, c),
           \A r \in RunsOf(s.sessions) : ~s.overlap /\ Near(d, r, v) => Near(d2, r, v2)
    PROVE  LatestInv(s, d2, w, v2, n, c) /\ KeptInv(s, d2, pv, w, v2, c)
<1>1. \A i \in DOMAIN c : c[i] \in RunsOf(s.sessions)
  OBVIOUS
<1>2. c # <<>> => Len(c) \in DOMAIN c
  OBVIOUS
<1>3. LatestInv(s, d2, w, v2, n, c)
  BY <1>1, <1>2 DEF LatestInv
<1>4. s.modes = {"versioned"} => ~s.overlap
  BY BundleAssumption
<1>5. KeptInv(s, d2, pv, w, v2, c)
  BY <1>1, <1>4 DEF KeptInv
<1> QED  BY <1>3, <1>5

\* An exact bundle is one at any stage of a verify.
LEMMA ExactIsNear ==
    ASSUME NEW d, NEW r, NEW v, NEW v2, Near(d, r, v),
           v.phase \notin {"write_report", "write_status"}
    PROVE  Near(d, r, v2)
  BY DEF Near

\* Starting a verify.
LEMMA StepBeginVerify == BundleInv /\ BeginVerify /\ UNCHANGED setting => BundleInv'
<1> SUFFICES ASSUME BundleInv, BeginVerify, UNCHANGED setting PROVE BundleInv'
  OBVIOUS
<1>1. /\ setting \in Settings /\ completed \in Seq(RunsOf(setting.sessions))
      /\ VerifierInv(setting, dir, writer, verifier)
      /\ LatestInv(setting, dir, writer, verifier, started, completed)
      /\ KeptInv(setting, dir, prev, writer, verifier, completed)
  BY DEF BundleInv
<1>2. /\ setting' = setting /\ started' = started /\ dir' = dir /\ prev' = prev
      /\ writer' = writer /\ completed' = completed
      /\ ~Active(verifier) /\ (setting.overlap \/ writer.phase # "busy")
      /\ verifier' = [Verifier0 EXCEPT !.phase = "topology",
                                       !.undisturbed = writer.phase # "busy"]
  BY DEF BeginVerify, Verifying, Active
<1>3. Verifier0 \in Verifiers(setting)
  BY <1>1, NoRunIsOne DEF Verifier0, Verifiers, VerifierPhases
<1>4. /\ verifier' \in Verifiers(setting) /\ verifier'.phase = "topology"
      /\ verifier'.undisturbed = (writer.phase # "busy")
  BY <1>2, <1>3 DEF Verifiers, VerifierPhases
<1>5. VerifierInv(setting, dir, writer, verifier')
  BY <1>2, <1>4 DEF VerifierInv
<1>6. \A r \in RunsOf(setting.sessions) : Near(dir, r, verifier) => Near(dir, r, verifier')
  BY <1>2, ExactIsNear DEF Active
<1>7. /\ LatestInv(setting, dir, writer, verifier', started, completed)
      /\ KeptInv(setting, dir, prev, writer, verifier', completed)
  BY <1>1, <1>6, NearFollows
<1> QED  BY <1>2, <1>5, <1>7 DEF BundleInv

\* Reading the topology and the log.
LEMMA StepVerifyReads == BundleInv /\ VerifyReads /\ UNCHANGED setting => BundleInv'
<1> SUFFICES ASSUME BundleInv, VerifyReads, UNCHANGED setting PROVE BundleInv'
  OBVIOUS
<1>1. /\ setting \in Settings /\ completed \in Seq(RunsOf(setting.sessions))
      /\ dir \in DirsOf(setting)
      /\ VerifierInv(setting, dir, writer, verifier)
      /\ LatestInv(setting, dir, writer, verifier, started, completed)
      /\ KeptInv(setting, dir, prev, writer, verifier, completed)
  BY DEF BundleInv
<1>2. /\ setting' = setting /\ started' = started /\ dir' = dir /\ prev' = prev
      /\ writer' = writer /\ completed' = completed
      /\ verifier.phase \in {"topology", "log"}
      /\ verifier' =
           IF dir = Absent \/ ~Whole(dir, verifier.phase)
           THEN [verifier EXCEPT !.phase = "error"]
           ELSE IF verifier.phase = "topology" THEN [verifier EXCEPT !.phase = "log"]
           ELSE [verifier EXCEPT !.phase = "open_report", !.run = dir["log"].run]
  BY DEF VerifyReads
<1>3. verifier \in Verifiers(setting) /\ Active(verifier)
      /\ (~setting.overlap => writer.phase # "busy" /\ verifier.undisturbed)
  BY <1>1, <1>2 DEF VerifierInv, Active
<1>4. VerifierInv(setting, dir, writer, verifier')
  <2>1. CASE dir = Absent \/ ~Whole(dir, verifier.phase)
    <3>1. /\ verifier' \in Verifiers(setting) /\ verifier'.phase = "error"
      BY <2>1, <1>2, <1>3 DEF Verifiers, VerifierPhases
    <3> QED  BY <3>1 DEF VerifierInv, Active
  <2>2. CASE dir # Absent /\ Whole(dir, verifier.phase) /\ verifier.phase = "topology"
    <3>1. /\ verifier' \in Verifiers(setting) /\ verifier'.phase = "log"
          /\ verifier'.undisturbed = verifier.undisturbed
      BY <2>2, <1>2, <1>3 DEF Verifiers, VerifierPhases
    <3> QED  BY <2>2, <3>1, <1>3 DEF VerifierInv, Active
  <2>3. CASE dir # Absent /\ Whole(dir, verifier.phase) /\ verifier.phase = "log"
    <3>1. dir["log"] \in [run : RunsOf(setting.sessions), listed : SUBSET Names]
      <4>1. dir["log"] \in [run : RunsOf(setting.sessions), listed : SUBSET Names]
                             \cup {Absent, Torn}
        BY <2>3, <1>1, DirIsThere, NamesAre DEF OwnedNames
      <4> QED  BY <4>1, <2>3 DEF Whole
    <3>2. dir["log"].run \in RunsOf(setting.sessions)
      BY <3>1
    <3>3. /\ verifier' \in Verifiers(setting) /\ verifier'.phase = "open_report"
          /\ verifier'.undisturbed = verifier.undisturbed
          /\ verifier'.run = dir["log"].run
      BY <2>3, <3>2, <1>2, <1>3 DEF Verifiers, VerifierPhases
    <3> QED  BY <2>3, <3>3, <1>3 DEF VerifierInv, Active
  <2> QED  BY <2>1, <2>2, <2>3, <1>2
<1>5. \A r \in RunsOf(setting.sessions) : Near(dir, r, verifier) => Near(dir, r, verifier')
  BY <1>2, ExactIsNear
<1>6. /\ LatestInv(setting, dir, writer, verifier', started, completed)
      /\ KeptInv(setting, dir, prev, writer, verifier', completed)
  BY <1>1, <1>5, NearFollows
<1> QED  BY <1>2, <1>4, <1>6 DEF BundleInv

\* What every later step of verify starts from.
Started ==
    /\ setting \in Settings /\ completed \in Seq(RunsOf(setting.sessions))
    /\ dir \in DirsOf(setting) /\ dir # Absent
    /\ WriterInv(setting, dir, writer, started) /\ OneRun(dir)
    /\ VerifierInv(setting, dir, writer, verifier) /\ verifier \in Verifiers(setting)
    /\ LatestInv(setting, dir, writer, verifier, started, completed)
    /\ KeptInv(setting, dir, prev, writer, verifier, completed)
    /\ Active(verifier)
    /\ ~setting.overlap => writer.phase # "busy" /\ verifier.undisturbed
    /\ writer.phase = "busy" => setting.overlap
\* They follow from the invariant.
LEMMA VerifyStarted ==
    ASSUME BundleInv, verifier.phase \in {"open_report", "write_report", "list", "open_status",
                                          "write_status"}
    PROVE  Started
<1>1. Active(verifier)
  BY DEF Active
<1>2. setting.overlap \in BOOLEAN
  BY BundleAssumption DEF BundleInv
<1> QED  BY <1>1, <1>2 DEF BundleInv, VerifierInv, Started

\* A file that a bundle has is not Absent.
LEMMA NearHas ==
    ASSUME NEW s \in Settings, NEW d, NEW v, NEW r \in RunsOf(s.sessions), Near(d, r, v)
    PROVE  /\ d["report"] # Absent /\ d["status"] # Absent /\ d["readme"] # Absent
           /\ d["log"] = Content(r, {}) /\ d["log"].run = r
<1>1. Content(r, {}) # Absent /\ Torn # Absent /\ Content(r, Present(d)) # Absent
  <2>1. Present(d) \in SUBSET Names
    BY DEF Present
  <2> QED  BY <2>1, PlainIsWhole, ListedIsWhole, StatesDiffer
<1>2. d["log"] = Content(r, {}) /\ d["readme"] = Content(r, {})
  BY DEF Near, Evidence, OwnedNames, Optional
<1>3. Content(r, {}).run = r
  BY DEF Content
<1> QED  BY <1>1, <1>2, <1>3 DEF Near

\* Opening the report, and the status.
LEMMA StepVerifyOpens ==
    ASSUME BundleInv, UNCHANGED setting,
           NEW phase, NEW f, NEW next,
           \/ phase = "open_report" /\ f = "report" /\ next = "write_report"
           \/ phase = "open_status" /\ f = "status" /\ next = "write_status",
           VerifyOpens(phase, f, next)
    PROVE  BundleInv'
<1>1. /\ setting' = setting /\ started' = started /\ prev' = prev
      /\ writer' = writer /\ completed' = completed
      /\ verifier.phase = phase /\ dir' = [dir EXCEPT ![f] = Torn]
      /\ verifier' = [verifier EXCEPT !.phase = next, !.orphaned = FALSE]
  BY DEF VerifyOpens
<1>2. Started
  BY <1>1, VerifyStarted
<1>3. f \in {"report", "status"} /\ Torn \in States(setting)
  BY DEF States
<1>4. /\ OneFileChanges(setting, dir, f, Torn, dir')
      /\ WriterInv(setting, dir', writer, started) /\ OneRun(dir')
  BY <1>1, <1>2, <1>3, VerifyTouches DEF Started
<1>5. /\ dir' \in DirsOf(setting) /\ dir' # Absent /\ dir'[f] = Torn
      /\ \A g \in Names : g # f => dir'[g] = dir[g]
  BY <1>4 DEF OneFileChanges
<1>6. /\ verifier' \in Verifiers(setting) /\ verifier'.phase = next
      /\ verifier'.orphaned = FALSE /\ verifier'.undisturbed = verifier.undisturbed
      /\ verifier'.run = verifier.run /\ verifier'.listed = verifier.listed
  BY <1>1, <1>2 DEF Started, Verifiers, VerifierPhases
<1>7. dir'["log"] = dir["log"] /\ (f = "status" => dir'["report"] = dir["report"])
  BY <1>3, <1>5, NamesAre DEF OwnedNames
<1>8. f = "status" => Manifest(dir') = Manifest(dir)
  BY <1>5, ManifestStays
<1>9. VerifierInv(setting, dir', writer, verifier')
  <2>1. CASE phase = "open_report"
    BY <2>1, <1>1, <1>2, <1>5, <1>6, <1>7 DEF VerifierInv, Started, Active, Whole
  <2>2. CASE phase = "open_status"
    BY <2>2, <1>1, <1>2, <1>5, <1>6, <1>7, <1>8 DEF VerifierInv, Started, Active, Whole
  <2> QED  BY <2>1, <2>2
<1>10. ASSUME NEW r \in RunsOf(setting.sessions), Near(dir, r, verifier)
       PROVE  Near(dir', r, verifier')
  <2>1. dir[f] # Absent
    BY <1>2, <1>3, <1>10, NearHas DEF Started
  <2>2. Present(dir') = Present(dir)
    BY <2>1, <1>5, StatesDiffer DEF Present
  <2>3. \A g \in Evidence : dir'[g] = dir[g]
    BY <1>3, <1>5, NamesAre DEF Evidence
  <2>4. \A g \in {"report", "status"} : g # f => dir'[g] = dir[g]
    BY <1>5, NamesAre DEF OwnedNames
  <2> QED  BY <2>2, <2>3, <2>4, <1>1, <1>5, <1>6, <1>10 DEF Near
<1>11. /\ LatestInv(setting, dir', writer, verifier', started, completed)
       /\ KeptInv(setting, dir', prev, writer, verifier', completed)
  BY <1>2, <1>10, NearFollows DEF Started
<1> QED  BY <1>1, <1>4, <1>5, <1>9, <1>11 DEF BundleInv

\* Listing the directory.
LEMMA StepVerifyLists == BundleInv /\ VerifyLists /\ UNCHANGED setting => BundleInv'
<1> SUFFICES ASSUME BundleInv, VerifyLists, UNCHANGED setting PROVE BundleInv'
  OBVIOUS
<1>1. /\ setting' = setting /\ started' = started /\ prev' = prev /\ dir' = dir
      /\ writer' = writer /\ completed' = completed
      /\ verifier.phase = "list"
      /\ verifier' = [verifier EXCEPT !.phase = "open_status", !.listed = Manifest(dir)]
  BY DEF VerifyLists
<1>2. Started
  BY <1>1, VerifyStarted
<1>3. Manifest(dir) \in SUBSET Names
  BY NamesAre DEF Manifest, Present, OwnedNames
<1>4. /\ verifier' \in Verifiers(setting) /\ verifier'.phase = "open_status"
      /\ verifier'.undisturbed = verifier.undisturbed
      /\ verifier'.run = verifier.run /\ verifier'.listed = Manifest(dir)
  BY <1>1, <1>2, <1>3 DEF Started, Verifiers, VerifierPhases
<1>5. VerifierInv(setting, dir, writer, verifier')
  BY <1>1, <1>2, <1>4 DEF VerifierInv, Started, Active
<1>6. \A r \in RunsOf(setting.sessions) : Near(dir, r, verifier) => Near(dir, r, verifier')
  BY <1>1, ExactIsNear
<1>7. /\ LatestInv(setting, dir, writer, verifier', started, completed)
      /\ KeptInv(setting, dir, prev, writer, verifier', completed)
  BY <1>2, <1>6, NearFollows DEF Started
<1> QED  BY <1>1, <1>5, <1>7 DEF BundleInv

\* Writing the report, and the status: what undisturbed writes leave is whole,
\* and a disturbed one touches no evidence.
LEMMA StepVerifyWrites ==
    ASSUME BundleInv, UNCHANGED setting,
           NEW phase, NEW f, NEW listed, NEW next,
           \/ phase = "write_report" /\ f = "report" /\ listed = {} /\ next = "list"
           \/ phase = "write_status" /\ f = "status" /\ listed = verifier.listed
              /\ next = "done",
           VerifyWrites(phase, f, listed, next)
    PROVE  BundleInv'
<1> DEFINE x == Content(verifier.run, listed)
<1>1. /\ setting' = setting /\ started' = started /\ prev' = prev
      /\ writer' = writer /\ completed' = completed
      /\ verifier.phase = phase /\ verifier' = [verifier EXCEPT !.phase = next]
      /\ IF verifier.orphaned THEN dir' = dir
         ELSE \E c \in Landed(f, x) : dir' = [dir EXCEPT ![f] = c]
  BY DEF VerifyWrites
<1>2. Started
  BY <1>1, VerifyStarted
<1>3. f \in {"report", "status"}
  OBVIOUS
<1>4. listed \in SUBSET Names /\ verifier.run \in RunsOf(setting.sessions)
  BY <1>2 DEF Started, Verifiers
<1>5. x \in States(setting) /\ x # Absent /\ x # Torn
  <2>1. x \in [run : RunsOf(setting.sessions), listed : SUBSET Names]
    BY <1>4 DEF Content
  <2>2. x # Absent /\ x # Torn
    BY <1>2, <1>4, ListedIsWhole DEF Started
  <2> QED  BY <2>1, <2>2 DEF States
<1>6. /\ verifier' \in Verifiers(setting) /\ verifier'.phase = next
      /\ verifier'.orphaned = verifier.orphaned
      /\ verifier'.undisturbed = verifier.undisturbed
      /\ verifier'.run = verifier.run /\ verifier'.listed = verifier.listed
  BY <1>1, <1>2 DEF Started, Verifiers, VerifierPhases
<1>7. verifier.undisturbed =>
          dir[f] = Torn /\ ~verifier.orphaned /\ Whole(dir, "log")
          /\ verifier.run = dir["log"].run
          /\ (f = "status" => verifier.listed = Manifest(dir)
                              /\ dir["report"] = Content(verifier.run, {}))
  BY <1>1, <1>2 DEF Started, VerifierInv
<1> HIDE DEF x
<1>8. CASE verifier.orphaned
  <2>1. dir' = dir /\ ~verifier.undisturbed /\ setting.overlap
    BY <1>1, <1>2, <1>7, <1>8, BundleAssumption DEF Started
  <2>2. VerifierInv(setting, dir, writer, verifier')
    BY <2>1, <1>1, <1>2, <1>6 DEF VerifierInv, Started, Active
  <2>3. /\ LatestInv(setting, dir, writer, verifier', started, completed)
        /\ KeptInv(setting, dir, prev, writer, verifier', completed)
    BY <2>1, <1>2, NearFollows DEF Started
  <2> QED  BY <2>1, <2>2, <2>3, <1>1, <1>2 DEF BundleInv, Started
<1>9. CASE ~verifier.orphaned
  <2>1. PICK c \in {x, Torn} :
            dir' = [dir EXCEPT ![f] = c] /\ (dir[f] = Torn => c = x)
    BY <1>1, <1>9 DEF Landed
  <2>2. c \in States(setting) /\ c # Absent
    BY <2>1, <1>5, StatesDiffer DEF States
  <2>3. /\ OneFileChanges(setting, dir, f, c, dir')
        /\ WriterInv(setting, dir', writer, started) /\ OneRun(dir')
    BY <2>1, <2>2, <1>2, <1>3, VerifyTouches DEF Started
  <2>4. /\ dir' \in DirsOf(setting) /\ dir' # Absent /\ dir'[f] = c
        /\ \A g \in Names : g # f => dir'[g] = dir[g]
    BY <2>3 DEF OneFileChanges
  <2>5. dir'["log"] = dir["log"] /\ (f = "status" => dir'["report"] = dir["report"])
    BY <1>3, <2>4, NamesAre DEF OwnedNames
  <2>6. f = "status" => Manifest(dir') = Manifest(dir)
    BY <2>4, ManifestStays
  <2>7. VerifierInv(setting, dir', writer, verifier')
    <3>1. CASE phase = "write_report"
      <4>1. verifier.undisturbed => dir'["report"] = Content(verifier.run, {})
        BY <3>1, <2>1, <2>4, <1>7 DEF x
      <4> QED  BY <3>1, <4>1, <2>4, <2>5, <1>1, <1>2, <1>6, <1>7
               DEF VerifierInv, Started, Active, Whole
    <3>2. CASE phase = "write_status"
      <4>1. verifier.undisturbed => dir'["status"] = Content(verifier.run, Manifest(dir'))
        BY <3>2, <2>1, <2>4, <2>6, <1>7 DEF x
      <4> QED  BY <3>2, <4>1, <2>4, <2>5, <1>1, <1>2, <1>6, <1>7
               DEF VerifierInv, Started, Active, Whole
    <3> QED  BY <3>1, <3>2
  <2>8. ASSUME NEW r \in RunsOf(setting.sessions), ~setting.overlap, Near(dir, r, verifier)
        PROVE  Near(dir', r, verifier')
    <3>1. /\ dir["report"] # Absent /\ dir["status"] # Absent /\ dir["readme"] # Absent
          /\ dir["log"].run = r
      BY <1>2, <2>8, NearHas DEF Started
    <3>2. verifier.undisturbed
      BY <1>2, <2>8 DEF Started
    <3>3. verifier.run = r /\ c = x /\ dir'[f] = x
      BY <3>1, <3>2, <2>1, <2>4, <1>7
    <3>4. Present(dir') = Present(dir)
      BY <3>1, <1>3, <2>2, <2>4 DEF Present
    <3>5. Manifest(dir) = Present(dir)
      BY <3>1, NamesAre DEF Manifest, Present, OwnedNames
    <3>6. \A g \in Evidence : dir'[g] = dir[g]
      BY <1>3, <2>4, NamesAre DEF Evidence
    <3>7. \A g \in {"report", "status"} : g # f => dir'[g] = dir[g]
      BY <2>4, NamesAre DEF OwnedNames
    <3>8. /\ dir' # Absent
          /\ \A g \in Evidence : dir'[g] = IF g \in Optional \ r.has THEN Absent
                                           ELSE Content(r, {})
      BY <3>6, <2>4, <2>8 DEF Near
    <3>9. CASE phase = "write_report"
      <4>1. dir'["report"] = Content(r, {})
        BY <3>3, <3>9 DEF x
      <4>2. dir'["status"] = Content(r, Present(dir'))
        BY <3>4, <3>7, <3>9, <2>8, <1>1 DEF Near
      <4> QED  BY <3>8, <4>1, <4>2 DEF Near
    <3>10. CASE phase = "write_status"
      <4>1. dir'["status"] = Content(r, Present(dir'))
        BY <3>2, <3>3, <3>4, <3>5, <3>10, <1>7 DEF x
      <4>2. dir'["report"] = Content(r, {})
        BY <3>7, <3>10, <2>8, <1>1 DEF Near
      <4> QED  BY <3>8, <4>1, <4>2 DEF Near
    <3> QED  BY <3>9, <3>10
  <2>9. /\ LatestInv(setting, dir', writer, verifier', started, completed)
        /\ KeptInv(setting, dir', prev, writer, verifier', completed)
    BY <1>2, <2>8, NearFollows DEF Started
  <2> QED  BY <1>1, <2>3, <2>4, <2>7, <2>9 DEF BundleInv
<1> QED  BY <1>2, <1>8, <1>9 DEF Started, Verifiers

-----------------------------------------------------------------------------
(* The invariant holds.                                                    *)

\* Nothing has been written yet.
LEMMA InitBundle == Init => BundleInv
<1> SUFFICES ASSUME Init PROVE BundleInv
  OBVIOUS
<1>1. /\ setting \in Settings /\ prev = <<>> /\ completed = <<>> /\ started = 0
      /\ writer = Writer0 /\ verifier = Verifier0
      /\ dir \in {Absent, EmptyDir, [EmptyDir EXCEPT !["notes"] = Content(NoRun, {})]}
  BY DEF Init
<1>2. NoRun \in RunsOf(setting.sessions) /\ setting.sessions \in Nat
      /\ setting.overlap \in BOOLEAN
  BY <1>1, NoRunIsOne, BundleAssumption
<1>3. dir \in DirsOf(setting)
  <2>1. EmptyDir \in [Names -> States(setting)]
    BY DEF EmptyDir, States
  <2>2. Content(NoRun, {}) \in States(setting)
    BY <1>2 DEF Content, States
  <2>3. [EmptyDir EXCEPT !["notes"] = Content(NoRun, {})] \in [Names -> States(setting)]
    BY <2>1, <2>2
  <2> QED  BY <2>1, <2>3, <1>1 DEF DirsOf, States
<1>4. OneRun(dir)
  <2>1. \A f \in Evidence : f \in Names /\ f # "notes"
    BY NamesAre DEF Evidence, OwnedNames
  <2>2. ASSUME dir # Absent, NEW f \in Evidence PROVE ~Whole(dir, f)
    <3>1. EmptyDir[f] = Absent
      BY <2>1 DEF EmptyDir
    <3>2. dir[f] = Absent
      BY <3>1, <2>1, <2>2, <1>1 DEF EmptyDir
    <3> QED  BY <3>2 DEF Whole
  <2> QED  BY <2>2 DEF OneRun
<1>5. WriterInv(setting, dir, writer, started)
  <2>1. <<>> \in Seq(Steps) /\ {} \in SUBSET Names
    OBVIOUS
  <2>2. writer \in Writers(setting)
    BY <2>1, <1>1, <1>2 DEF Writer0, Writers
  <2> QED  BY <2>2, <1>1, <1>2 DEF WriterInv, Writer0
<1>6. VerifierInv(setting, dir, writer, verifier)
  <2>1. verifier \in Verifiers(setting)
    BY <1>1, <1>2 DEF Verifier0, Verifiers, VerifierPhases
  <2> QED  BY <2>1, <1>1 DEF VerifierInv, Verifier0, Active
<1>7. /\ prev \in Seq(DirsOf(setting)) /\ completed \in Seq(RunsOf(setting.sessions))
      /\ LatestInv(setting, dir, writer, verifier, started, completed)
      /\ KeptInv(setting, dir, prev, writer, verifier, completed)
  BY <1>1 DEF LatestInv, KeptInv
<1> QED  BY <1>1, <1>3, <1>4, <1>5, <1>6, <1>7 DEF BundleInv

\* Every step preserves the invariant.
LEMMA StepBundle == BundleInv /\ [Next]_vars => BundleInv'
<1> SUFFICES ASSUME BundleInv, [Next]_vars PROVE BundleInv'
  OBVIOUS
<1>1. CASE UNCHANGED vars
  BY <1>1 DEF vars, BundleInv
<1>2. CASE Next
  <2>1. UNCHANGED setting
    BY <1>2 DEF Next
  <2>2. ASSUME NEW mode \in setting.modes, NEW has \in SUBSET Optional, BeginPersist(mode, has)
        PROVE  BundleInv'
    BY <2>1, <2>2, StepBeginPersist
  <2>3. CASE PersistStep
    BY <2>1, <2>3, StepPersist
  <2>4. CASE EndPersist
    BY <2>1, <2>4, StepEndPersist
  <2>5. CASE Crash
    BY <2>1, <2>5, StepCrash
  <2>6. CASE BeginVerify
    BY <2>1, <2>6, StepBeginVerify
  <2>7. CASE VerifyReads
    BY <2>1, <2>7, StepVerifyReads
  <2>8. CASE VerifyOpens("open_report", "report", "write_report")
    BY <2>1, <2>8, StepVerifyOpens
  <2>9. CASE VerifyWrites("write_report", "report", {}, "list")
    BY <2>1, <2>9, StepVerifyWrites
  <2>10. CASE VerifyLists
    BY <2>1, <2>10, StepVerifyLists
  <2>11. CASE VerifyOpens("open_status", "status", "write_status")
    BY <2>1, <2>11, StepVerifyOpens
  <2>12. CASE VerifyWrites("write_status", "status", verifier.listed, "done")
    BY <2>1, <2>12, StepVerifyWrites
  <2> QED  BY <1>2, <2>2, <2>3, <2>4, <2>5, <2>6, <2>7, <2>8, <2>9, <2>10, <2>11, <2>12
           DEF Next, VerifyStep
<1> QED  BY <1>1, <1>2

\* Every reachable state satisfies the invariant.
LEMMA BundleInvariant == Spec => []BundleInv
  BY InitBundle, StepBundle, PTL DEF Spec

-----------------------------------------------------------------------------
(* The theorems.                                                           *)

\* The directory, the rotated ones and the runs keep their types for any number
\* of sessions, kills and verifies.
THEOREM BundleTypeCorrect == Spec => []TypeOK
<1>1. DirsOf(setting) = Dirs
  BY DEF DirsOf, Dirs, Contents, Runs
<1>2. BundleInv => TypeOK
  BY <1>1 DEF BundleInv, WriterInv, Writers, VerifierInv, Verifiers, TypeOK, Runs
<1> QED  BY <1>2, BundleInvariant, PTL

\* write_coordination_log never refuses a session because of what an earlier
\* one left, whole or cut off at any file operation.
THEOREM SessionsAreNeverRefused == Spec => []NextSessionNotRefused
<1>1. BundleInv => NextSessionNotRefused
  BY DEF BundleInv, WriterInv, Writers, NextSessionNotRefused
<1> QED  BY <1>1, BundleInvariant, PTL

\* No kill and no verify at any time makes a directory hold the evidence of two
\* sessions.
THEOREM EvidenceIsNeverMixed == Spec => []EvidenceIsOfOneSession
<1>1. Names \ {"notes", "report", "status"} = Evidence
  BY NamesAre DEF Evidence, OwnedNames
<1>2. BundleInv => EvidenceIsOfOneSession
  BY <1>1 DEF BundleInv, OneRun, EvidenceIsOfOneSession
<1> QED  BY <1>2, BundleInvariant, PTL

\* A verify that no writer disturbed leaves a report and a manifest of the log
\* that is on disk, whatever it found.
THEOREM UndisturbedVerifyRepairs == Spec => []VerifyRepairs
<1>1. ASSUME BundleInv, verifier.phase = "done", verifier.undisturbed
      PROVE  /\ Whole(dir, "log")
             /\ \A f \in {"report", "status"} :
                    Whole(dir, f) /\ dir[f].run = dir["log"].run
             /\ Present(dir) \subseteq dir["status"].listed
  <2>1. /\ Whole(dir, "log") /\ verifier.run = dir["log"].run
        /\ dir["report"] = Content(verifier.run, {})
        /\ dir["status"] = Content(verifier.run, Manifest(dir))
    BY <1>1 DEF BundleInv, VerifierInv
  <2>2. setting \in Settings /\ verifier.run \in RunsOf(setting.sessions)
    BY <1>1 DEF BundleInv, VerifierInv, Verifiers
  <2>3. Manifest(dir) \in SUBSET Names
    BY NamesAre DEF Manifest, Present, OwnedNames
  <2>4. Whole(dir, "report") /\ dir["report"].run = verifier.run
    <3>1. Content(verifier.run, {}) # Absent /\ Content(verifier.run, {}) # Torn
      BY <2>2, PlainIsWhole
    <3> QED  BY <2>1, <3>1 DEF Whole, Content
  <2>5. Whole(dir, "status") /\ dir["status"].run = verifier.run
    <3>1. Content(verifier.run, Manifest(dir)) # Absent
          /\ Content(verifier.run, Manifest(dir)) # Torn
      BY <2>2, <2>3, ListedIsWhole
    <3> QED  BY <2>1, <3>1 DEF Whole, Content
  <2>6. Present(dir) \subseteq dir["status"].listed
    BY <2>1 DEF Content, Manifest
  <2> QED  BY <2>1, <2>4, <2>5, <2>6
<1>2. BundleInv => VerifyRepairs
  BY <1>1 DEF VerifyRepairs
<1> QED  BY <1>2, BundleInvariant, PTL

\* Where verify waits for the writer, the directory is exactly the bundle of the
\* latest completed run whenever nobody works on it.
THEOREM SnapshotIsExact == Spec => []LatestSnapshotIsExact
<1>1. ASSUME BundleInv, ~setting.overlap, Quiet, completed # <<>>,
             Last(completed).session = started
      PROVE  IsBundleOf(dir, Last(completed))
  <2>1. Last(completed) = completed[Len(completed)]
    BY DEF Last
  <2>2. Near(dir, Last(completed), verifier)
    BY <1>1, <2>1 DEF BundleInv, LatestInv, Quiet
  <2>3. verifier.phase \notin {"write_report", "write_status"}
    BY <1>1 DEF Quiet, Verifying
  <2> QED  BY <2>2, <2>3, NearIsExact
<1>2. BundleInv => LatestSnapshotIsExact
  BY <1>1 DEF LatestSnapshotIsExact
<1> QED  BY <1>2, BundleInvariant, PTL

\* open_versioned loses no completed run, whenever a later one is killed.
THEOREM RotationLosesNothing == Spec => []CompletedRunsAreKept
<1>1. ASSUME BundleInv, setting.modes = {"versioned"}, NEW i \in DOMAIN completed
      PROVE  \/ IsBundleOf(dir, completed[i])
             \/ Verifying /\ i = Len(completed)
             \/ \E k \in DOMAIN prev : IsBundleOf(prev[k], completed[i])
  <2>1. \/ \E k \in DOMAIN prev : IsBundleOf(prev[k], completed[i])
        \/ i = Len(completed) /\ Near(dir, completed[i], verifier)
    BY <1>1 DEF BundleInv, KeptInv
  <2>2. CASE i = Len(completed) /\ Near(dir, completed[i], verifier)
    <3>1. verifier.phase \in {"write_report", "write_status"} => Verifying
      BY DEF Verifying
    <3> QED  BY <2>2, <3>1, NearIsExact
  <2> QED  BY <2>1, <2>2
<1>2. BundleInv => CompletedRunsAreKept
  BY <1>1 DEF CompletedRunsAreKept
<1> QED  BY <1>2, BundleInvariant, PTL

\* No step of clean_owned_files, open_versioned, a writer or verify loses the
\* operator's own files.
THEOREM NotesSurvive == Spec => UnrelatedFilesSurvive
<1>1. ASSUME BundleInv, PersistStep, NotesKept PROVE NotesKept'
  <2> DEFINE h == Head(writer.todo)
  <2>1. /\ setting \in Settings /\ dir \in DirsOf(setting) /\ prev \in Seq(DirsOf(setting))
        /\ WriterInv(setting, dir, writer, started)
        /\ writer.phase = "busy" /\ writer.todo # <<>>
    BY <1>1 DEF BundleInv, PersistStep
  <2>2. writer.run.has \in SUBSET Optional /\ Writing(setting, dir, writer)
    BY <2>1 DEF WriterInv, Writers, RunsOf
  <2>3. PICK mode \in setting.modes : IsDue(Pending(writer), mode, writer.run.has, h)
    BY <2>1, BusyWriter DEF HasDueStep
  <2>due. DueFacts(Pending(writer), mode, writer.run.has, h)
    BY <2>2, <2>3, Due
  <2>4. h \in Steps /\ InScript(h, mode, writer.run.has)
    BY <2>due DEF DueFacts
  <2>5. Op("mkdir", "notes") \in Pending(writer) => h.op \in {"rotate", "mkdir"}
    BY <2>due DEF DueFacts
  <2>6. h.op \in OpNames /\ h.file \in Names
    BY <2>4 DEF Steps
  <2>7. (Refused(h) /\ UNCHANGED <<dir, prev>>) \/ FileOp(h)
    BY <1>1 DEF PersistStep
  <2> HIDE DEF h
  <2>8. CASE UNCHANGED <<dir, prev>>
    BY <2>8, <1>1 DEF NotesKept
  <2>9. CASE FileOp(h) /\ h.op = "rotate"
    <3>1. CASE UNCHANGED <<dir, prev>>
      BY <3>1, <1>1 DEF NotesKept
    <3>2. CASE prev' = Append(prev, dir)
      <4>1. /\ Len(prev) + 1 \in DOMAIN prev' /\ prev'[Len(prev) + 1] = dir
            /\ \A i \in DOMAIN prev : i \in DOMAIN prev' /\ prev'[i] = prev[i]
        BY <2>1, <3>2
      <4> QED  BY <4>1, <1>1 DEF NotesKept
    <3> QED  BY <2>9, <3>1, <3>2 DEF FileOp, rotate
  <2>10. CASE FileOp(h) /\ h.op = "mkdir"
    <3>1. prev' = prev /\ (dir # Absent => dir' = dir)
      BY <2>10 DEF FileOp
    <3> QED  BY <3>1, <1>1 DEF NotesKept
  <2>11. CASE FileOp(h) /\ h.op = "list"
    BY <2>11, <1>1 DEF FileOp, NotesKept
  <2>12. CASE FileOp(h) /\ h.op \in {"remove", "open", "write"}
    <3>1. h.file \in OwnedNames
      BY <2>4, <2>12 DEF InScript, Written, Op
    <3>2. PICK x : dir' = [dir EXCEPT ![h.file] = x] /\ prev' = prev
      BY <2>12 DEF FileOp
    <3>3. dir # Absent /\ dir \in [Names -> States(setting)]
      <4>1. dir # Absent
        BY <2>2, <2>5, <2>12 DEF Writing
      <4> QED  BY <2>1, <4>1, DirIsThere DEF States
    <3>4. dir' \in [Names -> States(setting) \cup {x}] /\ dir'["notes"] = dir["notes"]
      BY <3>1, <3>2, <3>3, NamesAre DEF OwnedNames
    <3>5. FileOp(h) => Effect(dir, writer, h, dir')
      BY <2>12 DEF FileOp, Effect, Landed
    <3>6. dir' # Absent
      <4>1. h.op # "rotate"
        BY <2>12
      <4>2. Effect(dir, writer, h, dir')
        BY <2>12, <3>5
      <4> QED  BY <2>1, <4>1, <4>2, FilesAdvance DEF h
    <3> QED  BY <1>1, <3>2, <3>4, <3>6 DEF NotesKept, Whole
  <2> QED  BY <2>6, <2>7, <2>8, <2>9, <2>10, <2>11, <2>12 DEF OpNames
<1>2. ASSUME BundleInv, NotesKept, NEW phase, NEW f \in {"report", "status"},
             verifier.phase = phase,
             phase \in {"open_report", "write_report", "open_status", "write_status"},
             NEW x \in States(setting), dir' = [dir EXCEPT ![f] = x], prev' = prev
      PROVE  NotesKept'
  <2>1. Started
    BY <1>2, VerifyStarted
  <2>2. f \in Names /\ f # "notes"
    BY NamesAre DEF OwnedNames
  <2>3. OneFileChanges(setting, dir, f, x, dir')
    BY <1>2, <2>1, <2>2, VerifyTouches DEF Started
  <2>4. dir' # Absent /\ dir'["notes"] = dir["notes"]
    BY <2>2, <2>3, NamesAre DEF OneFileChanges
  <2> QED  BY <1>2, <2>4 DEF NotesKept, Whole
<1>3. ASSUME BundleInv, NotesKept, VerifyStep PROVE NotesKept'
  <2>1. CASE VerifyReads \/ VerifyLists
    BY <2>1, <1>3 DEF VerifyReads, VerifyLists, NotesKept
  <2>2. ASSUME NEW phase \in {"open_report", "open_status"}, NEW f \in {"report", "status"},
               NEW next, VerifyOpens(phase, f, next)
        PROVE  NotesKept'
    <3>1. verifier.phase = phase /\ dir' = [dir EXCEPT ![f] = Torn] /\ prev' = prev
      BY <2>2 DEF VerifyOpens
    <3>2. Torn \in States(setting)
      BY DEF States
    <3> QED  BY <3>1, <3>2, <1>2, <1>3
  <2>3. ASSUME NEW phase \in {"write_report", "write_status"}, NEW f \in {"report", "status"},
               NEW listed \in SUBSET Names, NEW next, VerifyWrites(phase, f, listed, next)
        PROVE  NotesKept'
    <3>1. /\ verifier.phase = phase /\ prev' = prev
          /\ \/ dir' = dir
             \/ \E c \in {Content(verifier.run, listed), Torn} : dir' = [dir EXCEPT ![f] = c]
      BY <2>3 DEF VerifyWrites, Landed
    <3>2. CASE dir' = dir
      BY <3>1, <3>2, <1>3 DEF NotesKept
    <3>3. Content(verifier.run, listed) \in States(setting) /\ Torn \in States(setting)
      BY <1>3 DEF BundleInv, VerifierInv, Verifiers, Content, States
    <3>4. CASE \E c \in {Content(verifier.run, listed), Torn} : dir' = [dir EXCEPT ![f] = c]
      <4>1. PICK c \in States(setting) : dir' = [dir EXCEPT ![f] = c]
        BY <3>3, <3>4
      <4> QED  BY <4>1, <3>1, <1>2, <1>3
    <3> QED  BY <3>1, <3>2, <3>4
  <2>4. {} \in SUBSET Names /\ verifier.listed \in SUBSET Names
    BY <1>3 DEF BundleInv, VerifierInv, Verifiers
  <2> QED  BY <1>3, <2>1, <2>2, <2>3, <2>4 DEF VerifyStep
<1>4. ASSUME BundleInv, [Next]_vars, NotesKept PROVE NotesKept'
  <2>1. CASE UNCHANGED <<dir, prev>>
    BY <2>1, <1>4 DEF NotesKept
  <2>2. CASE PersistStep
    BY <2>2, <1>1, <1>4
  <2>3. CASE VerifyStep
    BY <2>3, <1>3, <1>4
  <2> QED  BY <1>4, <2>1, <2>2, <2>3
           DEF Next, vars, BeginPersist, EndPersist, Crash, BeginVerify
<1>5. BundleInv /\ [Next]_vars => [NotesKept => NotesKept']_vars
  BY <1>4
<1> QED  BY <1>5, BundleInvariant, PTL DEF Spec, UnrelatedFilesSurvive
=============================================================================
