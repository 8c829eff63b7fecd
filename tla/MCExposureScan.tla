--------------------------- MODULE MCExposureScan ---------------------------
(***************************************************************************)
(* The exposure audit over a small disk: a home folder with a credential   *)
(* file, a project two levels deep, an excluded folder and a link, and an  *)
(* assistant's folder outside it; with some of it changed, so that each    *)
(* limit is what ends one of the scans, or none is.                        *)
(***************************************************************************)
EXTENDS ExposureScan

HomeDir == "h"
OverlappingRoots == <<"h/p", "h/p", "x">>

AllPaths == {"h", "h/env", "h/p", "h/p/a", "h/p/d", "h/p/d/b", "h/target", "h/ln",
             "h/ln/z", "x", "x/auth"}

TreeEntries ==
  "h" :> {"h/env", "h/p", "h/target", "h/ln"} @@ "h/p" :> {"h/p/a", "h/p/d"}
  @@ "h/p/d" :> {"h/p/d/b"} @@ "h/p/d/b" :> {} @@ "h/target" :> {}
  @@ "h/ln" :> {"h/ln/z"} @@ "x" :> {"x/auth"}

IgnoredDirs == {"h/target"}

\* Directly in a root, and one folder down.
TreePriority ==
  "h" :> <<<<"h/env">>, <<"h/p", "h/p/a">>>> @@ "h/p" :> <<>>
  @@ "x" :> <<<<"x/auth">>>>

At(s, e, r) == [start |-> s, end |-> e, rule |-> r]

\* A token inside an assignment on the second line, found before two on one
\* line above it.
RichText ==
  [bytes |-> 2, newlines |-> {3, 7},
   matches |-> <<At(5, 7, "TokenPattern"), At(4, 7, "CredentialAssignment"),
                 At(1, 2, "none"), At(0, 2, "CredentialAssignment"),
                 At(2, 3, "CredentialAssignment")>>]
PoorText ==
  [bytes |-> 1, newlines |-> {}, matches |-> <<At(0, 2, "CredentialAssignment")>>]
TwinText ==
  [bytes |-> 1, newlines |-> {4},
   matches |-> <<At(0, 2, "CredentialAssignment"), At(5, 6, "HighEntropyValue")>>]
PlainText == [bytes |-> 2, newlines |-> {}, matches |-> <<>>]
LargeText == [bytes |-> 3, newlines |-> {}, matches |-> <<At(0, 1, "TokenPattern")>>]

TreeContents ==
  "h/env" :> PoorText @@ "h/p/a" :> RichText @@ "h/p/d/b" :> PlainText
  @@ "x/auth" :> PoorText @@ "h/ln" :> TwinText @@ "h/ln/z" :> LargeText

BaseKind ==
  [p \in AllPaths |->
     IF p = "h/ln" THEN "link"
     ELSE IF p = "h/ln/z" THEN "other"
     ELSE IF p \in DOMAIN TreeContents THEN "file" ELSE "dir"]

\* What can be listed or read in part, or not at all.
Failing ==
  {"h/p" :> "unreadable", "h/ln" :> "file", "x" :> "relative", "x" :> "unreadable"}

\* Within every limit: with one folder less, with the largest number of bytes
\* and entries, and with a binary file and two findings of one file.
Small ==
  {"h/p/d" :> "other", "h/env" :> "other",
   "h/p/d" :> "other" @@ "h/p/a" :> "binary" @@ "h/ln" :> "file"}

\* Within every limit but one: a file too large, an entry too many, a folder
\* too deep.
Beyond ==
  {"h/p/a" :> "other" @@ "h/p/d" :> "other" @@ "h/ln" :> "dir" @@ "h/ln/z" :> "file",
   "h/env" :> "other" @@ "h/ln" :> "dir",
   "h/p/d/b" :> "dir"}

\* Next to nothing to scan, or no home to scan in: enough for the window.
BareDisks ==
  {[BaseKind EXCEPT !["h"] = k, !["h/env"] = "other", !["h/p"] = "link", !["x"] = "none"] :
     k \in {"link", "unreadable"}}

TreeDisks ==
  {BaseKind} \cup BareDisks \cup {c @@ BaseKind : c \in Failing \cup Small \cup Beyond}

\* A second scan, where the scans are short.
ScanBounds == [d \in TreeDisks |-> IF d \in BareDisks THEN 2 ELSE 1]
=============================================================================
