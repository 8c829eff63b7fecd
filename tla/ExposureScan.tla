---------------------------- MODULE ExposureScan ----------------------------
(***************************************************************************)
(* The local exposure audit: the scanner that walks the user's files       *)
(* (exposure_scan.rs), the detector that turns the matches in one file     *)
(* into findings (exposure_scan/detection.rs) and the part of the window   *)
(* that starts, cancels and drops scans (desktop.rs).  Every scan has its  *)
(* own worker thread; the window follows at most one of them.              *)
(* What the detector's patterns match is given: a file is the sequence of  *)
(* its matches in the order of the rules.  The disk does not change while  *)
(* it is scanned, but listing a directory, and opening or reading a file,  *)
(* may fail.                                                               *)
(***************************************************************************)
EXTENDS Naturals, Sequences, SequencesExt, FiniteSetsExt, TLC

CONSTANTS
  Home, ExtraRoots,  \* HOME, and the sequence of CODEX_HOME and CLAUDE_CONFIG_DIR
  Paths,             \* every path, as it is spelled
  Entries,           \* directory -> its entries
  Ignored,           \* the directories with a name of ignored_directory
  PriorityFiles,     \* root -> the PRIORITY files, each as the paths on its way
  Contents,          \* file -> its bytes, newlines and matches
  Disks,             \* what the paths may be: path -> kind
  MaxFileBytes, MaxTotalBytes, MaxFiles, MaxEntries, MaxDepth, MaxFindings,
  MaxScans           \* disk -> bound on the scans started

\* What a path is on the disk; a root may be no absolute path at all.
Kinds == {"relative", "none", "dir", "unreadable", "file", "binary", "link", "other"}
DirKinds == {"dir", "unreadable"}
FileKinds == {"file", "binary"}

ExposureRule ==
  {"CredentialAssignment", "PrivateKeyHeader", "TokenPattern", "ConnectionString",
   "HighEntropyValue"}

Match == [start : Nat, end : Nat, rule : ExposureRule \cup {"none"}]
Text == [bytes : Nat, newlines : SUBSET Nat, matches : Seq(Match)]

ASSUME LimitAssumption ==
  /\ MaxScans \in [Disks -> Nat]
  /\ MaxFileBytes \in Nat /\ MaxTotalBytes \in Nat /\ MaxFiles \in Nat
  /\ MaxEntries \in Nat /\ MaxDepth \in Nat /\ MaxFindings \in Nat

\* A disk has finitely many paths, and each is the entry of one directory.
ASSUME DiskAssumption ==
  /\ IsFiniteSet(Paths) /\ Disks \subseteq [Paths -> Kinds]
  /\ Home \in Paths /\ ExtraRoots \in Seq(Paths)
  /\ DOMAIN Entries \subseteq Paths /\ Entries \in [DOMAIN Entries -> SUBSET Paths]
  /\ \A c, d \in DOMAIN Entries : c # d => Entries[c] \cap Entries[d] = {}
  /\ \A k \in Disks, d \in DOMAIN Entries : \A e \in Entries[d] : k[e] # "none"
  /\ \A k \in Disks, d \in Paths : k[d] = "dir" => d \in DOMAIN Entries

ASSUME TextAssumption ==
  /\ DOMAIN Contents \subseteq Paths /\ Contents \in [DOMAIN Contents -> Text]
  /\ \A k \in Disks, p \in Paths : k[p] \in FileKinds => p \in DOMAIN Contents
  /\ \A p \in DOMAIN Contents :
       /\ IsFiniteSet(Contents[p].newlines)
       /\ \A i \in DOMAIN Contents[p].matches :
            Contents[p].matches[i].start < Contents[p].matches[i].end

\* The way to a file leads from entry to entry, and PRIORITY names no file in
\* an ignored directory.
ASSUME PriorityAssumption ==
  /\ {Home} \cup Range(ExtraRoots) \subseteq DOMAIN PriorityFiles
  /\ PriorityFiles \in [DOMAIN PriorityFiles -> Seq(Seq(Paths) \ {<<>>})]
  /\ \A k \in Disks, r \in DOMAIN PriorityFiles :
       \A way \in Range(PriorityFiles[r]) :
         /\ k[r] \in DirKinds /\ k[Last(way)] \in FileKinds
         /\ \A j \in DOMAIN way : k[way[j]] # "link"
         => \A j \in DOMAIN way :
              LET parent == IF j = 1 THEN r ELSE way[j - 1]
              IN /\ parent \in DOMAIN Entries => way[j] \in Entries[parent]
                 /\ j < Len(way) => k[way[j]] \in DirKinds /\ way[j] \notin Ignored

VARIABLES
  disk,       \* path -> kind
  scans,      \* the scans started: the Scanner of each and its thread's place
  cancelled,  \* the scans whose cancel flag is set
  ui,         \* the scan_* fields of the window; task is a scan or 0
  barrier     \* history: the scans started before the window was last cleared

vars == <<disk, scans, cancelled, ui, barrier>>

NoReport == [of |-> 0]

\* A root given twice is scanned once.
Roots ==
  LET upTo[n \in 0 .. Len(ExtraRoots)] ==
        IF n = 0 THEN <<Home>>
        ELSE IF Contains(upTo[n - 1], ExtraRoots[n]) THEN upTo[n - 1]
        ELSE Append(upTo[n - 1], ExtraRoots[n])
  IN upTo[Len(ExtraRoots)]

NewScanner ==
  [at |-> "begin", root |-> 1, next |-> 1, stack |-> <<>>, late |-> FALSE,
   seenFiles |-> {}, seenDirs |-> {}, entries |-> 0, bytes |-> 0,
   files |-> 0, skipped |-> 0, findings |-> <<>>, incomplete |-> FALSE]

NewUtilities ==
  [open |-> FALSE, task |-> 0, report |-> NoReport, error |-> FALSE]

Init ==
  /\ disk \in Disks
  /\ scans = <<>>
  /\ cancelled = {}
  /\ ui = NewUtilities
  /\ barrier = 0

-----------------------------------------------------------------------------
(* One file                                                                *)

Overlap(a, b) == a.start < b.end /\ b.start < a.end

\* An occurrence another rule already reported is not reported again.
Add(found, m, limit) ==
  IF \E i \in DOMAIN found : Overlap(found[i], m)
  THEN [found |-> found, incomplete |-> FALSE]
  ELSE IF Len(found) >= limit THEN [found |-> found, incomplete |-> TRUE]
  ELSE [found |-> Append(found, m), incomplete |-> FALSE]

\* What is recorded after the first n matches, of which the scan looks at `cut'
\* before it stops.  A match of no rule is an assignment that comes to nothing.
Recorded(matches, limit, cut) ==
  LET upTo[n \in 0 .. Len(matches)] ==
        IF n = 0 THEN [found |-> <<>>, incomplete |-> FALSE]
        ELSE IF upTo[n - 1].incomplete THEN upTo[n - 1]
        ELSE IF n > cut THEN [upTo[n - 1] EXCEPT !.incomplete = TRUE]
        ELSE IF matches[n].rule = "none" THEN upTo[n - 1]
        ELSE Add(upTo[n - 1].found, matches[n], limit)
  IN upTo[Len(matches)]

\* sort_by_key: what does not overlap has different starts.
SortedByStart(found) ==
  CHOOSE t \in [DOMAIN found -> Range(found)] :
    /\ Range(t) = Range(found)
    /\ \A i, j \in DOMAIN found : i < j => t[i].start < t[j].start

DetectMutant(matches, limit, cut) == Recorded(matches, limit, cut)

\* detect
Detect(matches, limit, cut) ==
  LET all == Recorded(matches, limit, cut)
  IN [all EXCEPT !.found = SortedByStart(@)]

\* The line of each detection, counted on from the one before it.
Located(path, found, newlines) ==
  LET line[n \in 0 .. Len(found)] ==
        IF n = 0 THEN 1
        ELSE LET offset == IF n = 1 THEN 0 ELSE found[n - 1].start
             IN line[n - 1]
                  + Cardinality({b \in newlines : offset <= b /\ b < found[n].start})
  IN [n \in 1 .. Len(found) |->
        [path |-> path, line |-> line[n], rule |-> found[n].rule]]

\* The text of a file, of which the scan may see only a part before it stops.
Examined(s, p) ==
  LET c == Contents[p]
      Result(cut) ==
        LET d == Detect(c.matches, MaxFindings - Len(s.findings), cut)
        IN [s EXCEPT !.files = @ + 1, !.bytes = @ + c.bytes,
                     !.late = @ \/ cut < Len(c.matches),
                     !.incomplete = @ \/ d.incomplete,
                     !.findings = @ \o Located(p, d.found, c.newlines)]
  IN {Result(cut) : cut \in 0 .. Len(c.matches)}

\* What scan_file may make of a regular file.
ScanFile(s, p) ==
  LET seen == [s EXCEPT !.seenFiles = @ \cup {p}]
      skip == [seen EXCEPT !.skipped = @ + 1]
      fail == [skip EXCEPT !.incomplete = TRUE]
      size == Contents[p].bytes
  IN IF p \in s.seenFiles THEN {s}
     ELSE IF \/ s.files >= MaxFiles
             \/ size > MaxFileBytes
             \/ s.bytes + size > MaxTotalBytes THEN {fail}
     ELSE {fail} \cup
       IF disk[p] = "binary" THEN {[skip EXCEPT !.bytes = @ + size]}
       ELSE Examined(seen, p)

-----------------------------------------------------------------------------
(* The scanner's thread: first the priority files of every root, then the  *)
(* trees.  Each operator gives the scanners one step may lead to.          *)

IsFile(p) == disk[p] \in FileKinds
IsDir(p) == disk[p] \in DirKinds

Stopped(i) ==
  LET s == scans[i]
  IN \/ i \in cancelled
     \/ s.late
     \/ s.files >= MaxFiles
     \/ Len(s.findings) >= MaxFindings

Partial(s) == [s EXCEPT !.incomplete = TRUE]

Begin(i) ==
  LET s == scans[i]
  IN IF IsDir(Home)
     THEN {[s EXCEPT !.at = "priority"]}
     ELSE {[s EXCEPT !.at = "failed"]}

PriorityMutant(i) ==
  LET s == scans[i]
      root == Roots[s.root]
      NextRoot(t) == [t EXCEPT !.root = @ + 1, !.next = 1]
      way == PriorityFiles[root][s.next]
      safe == /\ IsDir(root)
              /\ \A j \in DOMAIN way : disk[way[j]] # "link"
  IN IF s.root > 1 THEN {[s EXCEPT !.at = "walk", !.root = 1]}
     ELSE IF disk[root] = "relative" THEN {NextRoot(Partial(s))}
     ELSE IF s.next > Len(PriorityFiles[root]) THEN {NextRoot(s)}
     ELSE IF Stopped(i) THEN {NextRoot(Partial(s))}
     ELSE LET t == [s EXCEPT !.next = @ + 1]
          IN IF safe /\ IsFile(Last(way)) THEN ScanFile(t, Last(way)) ELSE {t}

\* No part of the way to a priority file may be a link.
Priority(i) ==
  LET s == scans[i]
      root == Roots[s.root]
      NextRoot(t) == [t EXCEPT !.root = @ + 1, !.next = 1]
      way == PriorityFiles[root][s.next]
      safe == /\ IsDir(root)
              /\ \A j \in DOMAIN way : disk[way[j]] # "link"
  IN IF s.root > Len(Roots) THEN {[s EXCEPT !.at = "walk", !.root = 1]}
     ELSE IF disk[root] = "relative" THEN {NextRoot(Partial(s))}
     ELSE IF s.next > Len(PriorityFiles[root]) THEN {NextRoot(s)}
     ELSE IF Stopped(i) THEN {NextRoot(Partial(s))}
     ELSE LET t == [s EXCEPT !.next = @ + 1]
          IN IF safe /\ IsFile(Last(way)) THEN ScanFile(t, Last(way)) ELSE {t}

EnterMutant(s, i, d) ==
  IF d \in s.seenDirs THEN {s}
  ELSE IF Stopped(i) \/ Len(s.stack) > MaxDepth THEN {Partial(s)}
  ELSE IF ~IsDir(d) THEN {Partial(s)}
  ELSE LET seen == [s EXCEPT !.seenDirs = @ \cup {d}]
       IN IF disk[d] = "unreadable" THEN {seen}
          ELSE {[seen EXCEPT !.stack = Append(@, [dir |-> d, left |-> Entries[d]])]}

\* walk: a directory that cannot be listed is remembered all the same.
Enter(s, i, d) ==
  IF d \in s.seenDirs THEN {s}
  ELSE IF Stopped(i) \/ Len(s.stack) > MaxDepth THEN {Partial(s)}
  ELSE IF ~IsDir(d) THEN {Partial(s)}
  ELSE LET seen == [s EXCEPT !.seenDirs = @ \cup {d}]
       IN {Partial(seen)} \cup
          (IF disk[d] = "unreadable" THEN {}
           ELSE {[seen EXCEPT !.stack = Append(@, [dir |-> d, left |-> Entries[d]])]})

Return(s) == [s EXCEPT !.stack = Front(@)]

\* One entry of the directory on top of the stack, in any order.
Entry(s, i, e) ==
  LET t == [s EXCEPT !.entries = @ + 1,
                     !.stack[Len(s.stack)].left = @ \ {e}]
  IN {Partial(t)} \cup
     CASE IsDir(e) ->
            IF e \in Ignored THEN {t} ELSE Enter(t, i, e)
       [] IsFile(e) -> ScanFile(t, e)
       [] OTHER -> {[t EXCEPT !.skipped = @ + 1]}

Walk(i) ==
  LET s == scans[i]
      left == Last(s.stack).left
  IN IF s.stack = <<>>
     THEN IF s.root > Len(Roots) THEN {[s EXCEPT !.at = "sent"]}
          ELSE LET t == [s EXCEPT !.root = @ + 1]
               IN IF disk[Roots[s.root]] = "relative" THEN {t}
                  ELSE Enter(t, i, Roots[s.root])
     ELSE IF left = {} THEN {Return(s)}
     ELSE IF Stopped(i) \/ s.entries >= MaxEntries THEN {Return(Partial(s))}
     ELSE UNION {Entry(s, i, e) : e \in left}

Running(i) == scans[i].at \in {"begin", "priority", "walk"}

ScanStep(i) ==
  /\ Running(i)
  /\ \E s \in CASE scans[i].at = "begin" -> Begin(i)
                [] scans[i].at = "priority" -> Priority(i)
                [] OTHER -> Walk(i) : scans' = [scans EXCEPT ![i] = s]
  /\ UNCHANGED <<disk, cancelled, ui, barrier>>

\* max_duration has passed.
TimeUp(i) ==
  /\ Running(i) /\ ~scans[i].late
  /\ scans' = [scans EXCEPT ![i].late = TRUE]
  /\ UNCHANGED <<disk, cancelled, ui, barrier>>

\* The thread ends without a result; its end of the channel closes.
Die(i) ==
  /\ Running(i)
  /\ scans' = [scans EXCEPT ![i].at = "died"]
  /\ UNCHANGED <<disk, cancelled, ui, barrier>>

-----------------------------------------------------------------------------
(* The window                                                              *)

\* Dropping a task sets its cancel flag.
Dropped(u) == IF u.task = 0 THEN {} ELSE {u.task}

\* start_exposure_scan; without a usable HOME or a thread, id is 0.
Start(u, id) ==
  [u EXCEPT !.report = NoReport, !.task = id, !.error = id = 0]

\* The result of the task, if it has one; a thread that died counts as an error.
Received(u) ==
  IF u.task = 0 \/ u.task > Len(scans) THEN u
  ELSE CASE scans[u.task].at = "sent" ->
              [u EXCEPT !.task = 0, !.error = FALSE, !.report = [of |-> u.task]]
         [] scans[u.task].at \in {"failed", "died"} ->
              [u EXCEPT !.task = 0, !.error = TRUE, !.report = NoReport]
         [] OTHER -> u

\* One frame of show_exposure_scan: the button, the result, then the window.
ShowExposureScan(click, id, cancel, close) ==
  LET starts == click /\ ui.task = 0
      clicked == IF click THEN [ui EXCEPT !.open = TRUE] ELSE ui
      started == IF starts THEN Start(clicked, id) ELSE clicked
      polled == Received(started)
      closed == [polled EXCEPT !.open = FALSE, !.task = 0]
  IN /\ id # 0 => starts /\ id = Len(scans) + 1 /\ id <= MaxScans[disk]
     /\ scans' = IF id # 0 THEN Append(scans, NewScanner) ELSE scans
     /\ cancel => polled.open /\ polled.task # 0
     /\ close => polled.open
     /\ ui' = IF close THEN closed ELSE polled
     /\ cancelled' = cancelled \cup (IF ui'.task # started.task THEN Dropped(started) ELSE {})
                               \cup (IF cancel THEN {polled.task} ELSE {})
     /\ UNCHANGED <<disk, barrier>>

ClearSensitiveBuffersMutant ==
  /\ ui' = [ui EXCEPT !.report = NoReport, !.open = FALSE]
  /\ barrier' = Len(scans)
  /\ UNCHANGED <<disk, scans, cancelled>>

\* Every lock of the window or the vault.
ClearSensitiveBuffers ==
  /\ ui' = [ui EXCEPT !.task = 0, !.report = NoReport, !.open = FALSE]
  /\ cancelled' = cancelled \cup Dropped(ui)
  /\ barrier' = Len(scans)
  /\ UNCHANGED <<disk, scans>>

\* An unlock request takes the window; the scan behind it goes on.
ShowUnlockRequest ==
  /\ ui.open
  /\ ui' = [ui EXCEPT !.open = FALSE]
  /\ UNCHANGED <<disk, scans, cancelled, barrier>>

Frame ==
  \E click, cancel, close \in BOOLEAN, id \in 0 .. MaxScans[disk] :
    ShowExposureScan(click, id, cancel, close)

Next ==
  \/ \E i \in DOMAIN scans : ScanStep(i) \/ TimeUp(i) \/ Die(i)
  \/ Frame
  \/ ClearSensitiveBuffers
  \/ ShowUnlockRequest

Spec == Init /\ [][Next]_vars

-----------------------------------------------------------------------------
(* Properties                                                              *)

Finding == [path : Paths, line : Nat \ {0}, rule : ExposureRule]

Scanner ==
  [at : {"begin", "priority", "walk", "sent", "failed", "died"},
   root : 1 .. Len(Roots) + 1, next : Nat \ {0},
   stack : Seq([dir : DOMAIN Entries, left : SUBSET Paths]), late : BOOLEAN,
   seenFiles : SUBSET Paths, seenDirs : SUBSET Paths, entries : Nat, bytes : Nat,
   files : Nat, skipped : Nat, findings : Seq(Finding), incomplete : BOOLEAN]

\* The shape of the state.
TypeOK ==
  /\ disk \in Disks /\ scans \in Seq(Scanner)
  /\ cancelled \subseteq DOMAIN scans /\ barrier \in 0 .. Len(scans)
  /\ ui \in [open : BOOLEAN, task : 0 .. Len(scans), report : [of : 0 .. Len(scans)],
             error : BOOLEAN]

\* The directories the roots lead to, without the ignored ones and the links.
Reachable ==
  LET reach[n \in 0 .. Cardinality(Paths)] ==
        IF n = 0 THEN Range(Roots)
        ELSE reach[n - 1] \cup
             {e \in UNION {Entries[d] : d \in reach[n - 1] \cap DOMAIN Entries} :
                IsDir(e) /\ e \notin Ignored}
  IN reach[Cardinality(Paths)]

Leaves ==
  {e \in UNION {Entries[d] : d \in Reachable \cap DOMAIN Entries} :
     ~IsDir(e)}

\* The report of scan i, when nothing of it says that it is partial.
Complete(i) == scans[i].at = "sent" /\ ~scans[i].incomplete

\* A report without the partial-scan notice is about everything: every root
\* and every directory under it that is not excluded could be listed, every
\* text file in them was read and counted once, and everything else in them
\* was counted as skipped once, although trees, limits, links, failures and
\* overlapping roots all end the walk in different places (walk, scan_file).
CompleteMeansEverything ==
  \A i \in DOMAIN scans : Complete(i) =>
    /\ \A r \in Reachable : disk[r] = "dir"
    /\ scans[i].files = Cardinality({p \in Leaves : disk[p] = "file"})
    /\ scans[i].skipped = Cardinality({p \in Leaves : disk[p] # "file"})

\* The matches that count: those no counted match of an earlier rule overlaps.
Counted(matches) ==
  LET rules == {i \in DOMAIN matches : matches[i].rule # "none"}
  IN CHOOSE K \in SUBSET rules :
       \A i \in rules :
         i \in K <=> ~\E j \in K : j < i /\ Overlap(matches[i], matches[j])

\* What the report should say about match i of a file.
FindingOf(p, i) ==
  LET c == Contents[p]
  IN [path |-> p, rule |-> c.matches[i].rule,
      line |-> 1 + Cardinality({b \in c.newlines : b < c.matches[i].start})]

\* How often the findings say f, and how often they should.
Times(f, found) == Cardinality({k \in DOMAIN found : found[k] = f})
Occurring(f) ==
  Cardinality({i \in Counted(Contents[f.path].matches) : FindingOf(f.path, i) = f})

\* A finding names a line that really holds a match of that rule, and no match
\* is reported twice, whatever ended the scan; a report without the notice has
\* every occurrence in every file once, under the rule seen first (detect,
\* scan_file).
FindingsAreExact ==
  \A i \in DOMAIN scans :
    LET found == scans[i].findings
        files == {p \in Leaves : disk[p] = "file"}
    IN /\ \A f \in Range(found) : Times(f, found) <= Occurring(f)
       /\ Complete(i) =>
            /\ \A f \in Range(found) : f.path \in files
            /\ \A p \in files : \A m \in Counted(Contents[p].matches) :
                 Times(FindingOf(p, m), found) = Occurring(FindingOf(p, m))

\* The known credential files of every root are read before anything else of
\* any root, so a limit can never be spent on a large tree first, also when
\* one of the roots cannot be used (scan_user_files).
CredentialsFirst ==
  LET safe(r) == {way \in Range(PriorityFiles[r]) :
                    /\ IsDir(r) /\ IsFile(Last(way))
                    /\ \A j \in DOMAIN way : disk[way[j]] # "link"}
      credentials == UNION {{Last(way) : way \in safe(r)} : r \in Range(Roots)}
  IN \A i \in DOMAIN scans :
       scans[i].seenFiles \subseteq credentials \/ credentials \subseteq scans[i].seenFiles

\* The window shows the report of the scan started last, and never one that
\* was started before the window was locked: a late result of a dropped scan
\* has nowhere to go (start_exposure_scan, clear_sensitive_buffers).
OnlyThisScanIsShown ==
  /\ ui.report # NoReport => ui.report.of = Len(scans) /\ ui.report.of > barrier
  /\ ui.task # 0 => ui.task = Len(scans) /\ ui.task > barrier

=============================================================================
