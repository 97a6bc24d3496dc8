--------------------------- MODULE ArtifactAccess ---------------------------
(***************************************************************************)
(* Which file an artifact path means, and what a preview shows of it:      *)
(* SandboxSession.read_artifact_text and download_artifact (session.py)    *)
(* with posixpath and the working_dir of config.py, and the artifact       *)
(* commands of SandboxManager, which look the path up among the artifacts  *)
(* recorded for a run.                                                     *)
(*                                                                         *)
(* A path is the sequence of its segments, as split("/") gives them: "/a"  *)
(* is <<"", "a">>, "a//b/" is <<"a", "", "b", "">>, "/" is <<"", "">>.     *)
(* Every request is compared with a walk from the root of the file system; *)
(* there are no symbolic links.                                            *)
(***************************************************************************)
EXTENDS Integers, SequencesExt

CONSTANTS
  Names,        \* names of files and directories, without blanks at their ends
  Binary,       \* those with an extension whose media type is not one of text
  Paths,        \* the paths that callers give
  Directories,  \* values of working_dir that users give
  Files,        \* paths that manifests may have
  Default,      \* artifact_max_preview_chars
  MaxLength     \* bound: lengths of texts, and values of max_chars

VARIABLES
  workingDir,  \* config.working_dir
  artifacts,   \* the artifacts recorded for a run
  asked,       \* the path of the last request, or the lengths of the last preview
  purpose,     \* what the path was for: "text" or "download"
  reply        \* what became of it

accessVars == <<workingDir, artifacts, asked, purpose, reply>>

\* A blank stands for any white space.
Segments == {"", ".", "..", " "} \cup Names \cup {n \o " " : n \in Names}

\* The segments that a file or a directory may be called.
FileNames == Segments \ {"", ".", ".."}

ASSUME NamesAssumption == Names \cap {"", ".", "..", " "} = {} /\ Binary \subseteq Names
ASSUME PathsAssumption == \A p \in Paths \cup Directories : p \in Seq(Segments) /\ p # <<>>
ASSUME FilesAssumption == \A f \in Files : f \in Seq(FileNames) /\ f # <<>>
ASSUME LengthsAssumption == Default \in Nat \ {0} /\ MaxLength \in Nat

-----------------------------------------------------------------------------
(* str and posixpath *)

TrimLeft(s) == IF s = " " THEN "" ELSE s

TrimRight(s) ==
  CASE s = " " -> ""
    [] s # " " /\ (\E n \in Names : s = n \o " ") -> CHOOSE n \in Names : s = n \o " "
    [] OTHER -> s

Strip(p) ==
  [i \in DOMAIN p |-> LET s == IF i = 1 THEN TrimLeft(p[i]) ELSE p[i]
                      IN IF i = Len(p) THEN TrimRight(s) ELSE s]

IsAbsolute(p) == Len(p) > 1 /\ p[1] = ""

LStripSlashes(p) ==
  LET first == CHOOSE i \in DOMAIN p : /\ i = Len(p) \/ p[i] # ""
                                       /\ \A j \in 1 .. i - 1 : p[j] = ""
  IN SubSeq(p, first, Len(p))

RStripSlashes(p) ==
  LET last == CHOOSE i \in DOMAIN p : /\ i = 1 \/ p[i] # ""
                                      /\ \A j \in i + 1 .. Len(p) : p[j] = ""
  IN SubSeq(p, 1, last)

\* Two leading slashes mean something of their own to POSIX; three are one.
Lead(p) ==
  IF ~IsAbsolute(p) THEN 0
  ELSE IF Len(p) > 2 /\ p[2] = "" /\ ~(Len(p) > 3 /\ p[3] = "") THEN 2 ELSE 1

\* One round of normpath's loop.
Push(lead, comps, s) ==
  CASE s \in {"", "."} -> comps
    [] s = ".." /\ comps = <<>> /\ lead # 0 -> comps
    [] s = ".." /\ comps # <<>> /\ Last(comps) # ".." -> Front(comps)
    [] OTHER -> Append(comps, s)

\* The components kept of the first i segments, for each i.
Pushed(lead, p) ==
  LET comps[i \in 0 .. Len(p)] ==
        IF i = 0 THEN <<>> ELSE Push(lead, comps[i - 1], p[i])
  IN comps

NormPath(p) ==
  LET comps == Pushed(Lead(p), p)[Len(p)]
      slashes == [i \in 1 .. Lead(p) |-> ""]
  IN CASE comps # <<>> -> slashes \o comps
       [] comps = <<>> /\ Lead(p) = 0 -> <<".">>
       [] OTHER -> slashes \o <<"">>

Join(a, b) ==
  IF IsAbsolute(b) THEN b
  ELSE (IF Last(a) = "" THEN Front(a) ELSE a) \o b

-----------------------------------------------------------------------------
(* config.py: working_dir *)

WorkingDirs ==
  LET Clean(d) == RStripSlashes(Strip(d))
  IN {IF Clean(d) = <<"">> THEN <<"", "">> ELSE Clean(d) :
        d \in {x \in Directories : IsAbsolute(Strip(x))}}

-----------------------------------------------------------------------------
(* session.py *)

Root == <<"", "">>

File(remote, relative) == [kind |-> "file", remote |-> remote, relative |-> relative]

\* ArtifactNotFoundError and ArtifactError
NotFound == [kind |-> "not found"]
Outside == [kind |-> "outside"]

JoinRemotePath(wd, p) == NormPath(Join(wd, p))

\* Mutant: a path that goes up is only refused if it goes up by nothing else.
ResolveRelativeOneUp(wd, p) ==
  LET n == NormPath(p) IN
  CASE p = <<"">> \/ n \in {<<"">>, <<".">>, Root} -> NotFound
    [] n = <<"..">> -> Outside
    [] OTHER -> File(JoinRemotePath(wd, n), n)

\* _normalize_relative_artifact_path and its caller
ResolveRelative(wd, p) ==
  LET n == NormPath(p) IN
  CASE p = <<"">> \/ n \in {<<"">>, <<".">>, Root} -> NotFound
    [] n[1] = ".." -> Outside
    [] OTHER -> File(JoinRemotePath(wd, n), n)

\* Mutant: the prefix is compared with the working directory as it was given.
ResolveAbsoluteRaw(wd, p) ==
  LET n == NormPath(p) IN
  CASE n = wd -> NotFound
    [] n # wd /\ wd = Root -> File(n, LStripSlashes(n))
    [] n # wd /\ wd # Root /\ IsPrefix(wd, n) -> File(n, SubSeq(n, Len(wd) + 1, Len(n)))
    [] OTHER -> Outside

\* _resolve_absolute_artifact_path
ResolveAbsolute(wd, p) ==
  LET n == NormPath(p)
      d == NormPath(wd)
  IN CASE n = d -> NotFound
       [] n # d /\ d = Root -> File(n, LStripSlashes(n))
       [] n # d /\ d # Root /\ IsPrefix(d, n) -> File(n, SubSeq(n, Len(d) + 1, Len(n)))
       [] OTHER -> Outside

\* _resolve_artifact_path
Resolve(wd, path) ==
  LET p == Strip(path)
  IN IF IsAbsolute(p) THEN ResolveAbsolute(wd, p) ELSE ResolveRelative(wd, p)

\* Another ArtifactError.
NotText == [kind |-> "not text"]

\* _artifact_previewable(_guess_media_type(path)): the extension of the last name decides.
Previewable(relative) == Last(relative) \notin Binary

\* What a path that resolves to r gives its caller: read_artifact_text shows texts only.
Opened(use, r) ==
  IF use = "text" /\ r.kind = "file" THEN IF Previewable(r.relative) THEN r ELSE NotText
  ELSE r

-----------------------------------------------------------------------------
(* Artifacts of runs *)

\* ArtifactMetadata
Recorded(wd, f) == [path |-> f, remote |-> JoinRemotePath(wd, f)]

\* Mutant: the slashes at the end of the path are dropped.
MatchesEnd(path) == {a \in artifacts : path = a.path \/ RStripSlashes(path) = a.path}

\* SandboxManager._resolve_artifact takes the first of these, by the order of paths.
Matches(path) ==
  {a \in artifacts : path \in {a.path, a.remote} \/ LStripSlashes(path) = a.path}

-----------------------------------------------------------------------------
(* Previews, by lengths *)

\* max_chars or the default: 0 is as good as no max_chars.
PreviewLimit(max) == IF max = 0 THEN Default ELSE max

\* content[:limit]
Shown(length, limit) ==
  IF limit >= 0 THEN IF length < limit THEN length ELSE limit
  ELSE IF length + limit < 0 THEN 0 ELSE length + limit

\* Mutant: a preview that fills its limit counts as cut.
TruncatedAtLimit(length, limit) == length >= limit

Truncated(length, limit) == length > limit

\* ArtifactPreview
PreviewOf(length, max) ==
  LET limit == PreviewLimit(max)
  IN [kind |-> "preview", shown |-> Shown(length, limit), truncated |-> Truncated(length, limit)]

-----------------------------------------------------------------------------
(* Requests. *)

Ready == [kind |-> "none"]

Purposes == {"text", "download"}

AccessInit ==
  /\ workingDir \in WorkingDirs
  /\ artifacts = {}
  /\ asked = <<>> /\ purpose = "text"
  /\ reply = Ready

\* A run whose manifest has these paths, relative to the working directory.
Run(files) ==
  /\ artifacts = {} /\ reply = Ready
  /\ artifacts' = {Recorded(workingDir, f) : f \in files}
  /\ UNCHANGED <<workingDir, asked, purpose, reply>>

\* read_artifact_text or download_artifact of a session; any path may be given.
Read(path, use) ==
  /\ artifacts = {} /\ reply = Ready
  /\ asked' = path /\ purpose' = use
  /\ reply' = Opened(use, Resolve(workingDir, path))
  /\ UNCHANGED <<workingDir, artifacts>>

\* show_artifact or download_artifact of the manager.
Show(path, use) ==
  /\ reply = Ready
  /\ asked' = path /\ purpose' = use
  /\ IF Matches(path) = {} THEN reply' = NotFound
       ELSE \E a \in Matches(path) : reply' = Opened(use, Resolve(workingDir, a.path))
  /\ UNCHANGED <<workingDir, artifacts>>

\* The text of a file of this length, previewed with this max_chars.
Preview(length, max) ==
  /\ artifacts = {} /\ reply = Ready
  /\ asked' = <<length, max>>
  /\ reply' = PreviewOf(length, max)
  /\ UNCHANGED <<workingDir, artifacts, purpose>>

Done ==
  /\ reply # Ready
  /\ artifacts' = {} /\ asked' = <<>> /\ purpose' = "text" /\ reply' = Ready
  /\ UNCHANGED workingDir

\* What an artifact is asked for as: as listed, as its remote path, with a slash more.
Spellings == UNION {{a.path, a.remote, <<"">> \o a.path, a.path \o <<"">>} : a \in artifacts}

AccessNext ==
  \/ \E f, g \in Files : Run({f, g})
  \/ \E p \in Paths, use \in Purposes : Read(p, use)
  \/ \E p \in Spellings, use \in Purposes : Show(p, use)
  \/ \E n \in 0 .. MaxLength, max \in - MaxLength .. MaxLength : Preview(n, max)
  \/ Done

AccessSpec == AccessInit /\ [][AccessNext]_accessVars

-----------------------------------------------------------------------------
(* The reference: walking from directory to directory. *)

Enter(at, s) ==
  CASE s \in {"", "."} -> at
    [] s = ".." -> IF at = <<>> THEN at ELSE Front(at)
    [] OTHER -> Append(at, s)

\* The places after i segments, for each i.
Places(from, p) ==
  LET at[i \in 0 .. Len(p)] == IF i = 0 THEN from ELSE Enter(at[i - 1], p[i])
  IN at

Walk(from, p) == Places(from, p)[Len(p)]

Base == Walk(<<>>, workingDir)

From(p) == IF IsAbsolute(p) THEN <<>> ELSE Base

Inside(place) == IsPrefix(Base, place) /\ place # Base

ReadByPath ==
  artifacts = {} /\ asked # <<>> /\ reply.kind \in {"file", "not found", "outside", "not text"}

-----------------------------------------------------------------------------
(* Properties *)

\* Artifact paths must stay inside working_dir (the text of ArtifactError): however a
\* path is spelt, one that is accepted leads below working_dir, and the remote path that
\* is read and the relative path that is shown both lead to the same file as the path.
\* (Under the working_dir "/" the path "//" means the directory itself and is accepted.)
AcceptedIsTheFile ==
  reply.kind = "file"
    => LET place == Walk(<<>>, reply.remote) IN
       /\ Inside(place) \/ Base = <<>>
       /\ place = Walk(Base, reply.relative)
       /\ ReadByPath => place = Walk(From(Strip(asked)), Strip(asked))

\* A path that never leaves working_dir and ends below it is accepted, and so is every
\* absolute path of a file below it that begins with as many slashes as working_dir (if
\* that is not "//.." or the like: nothing begins with the "///" it is compared with).
\* Accepted for a download, that is: for a preview the file's name may still forbid it.
InsideIsAccepted ==
  LET p == Strip(asked) IN
  /\ ReadByPath
  /\ Inside(Walk(From(p), p))
  /\ IF IsAbsolute(p) THEN Lead(p) = Lead(workingDir) /\ (Lead(p) = 2 => Base # <<>>)
     ELSE \A i \in DOMAIN p : Places(<<"here">>, p)[i] # <<>>
  => reply.kind = "file" \/ (purpose = "text" /\ reply = NotText)

\* A recorded artifact is found by the path it is listed under, and by no other's, and
\* what is read is the file that was recorded: by every download, and by a preview exactly
\* if the listed name is that of a text; its remote path is found as well.  (Not if
\* its name ends in a blank: the path is stripped once more, and another file is read; nor
\* if its first name is blank: then the path becomes absolute, or empty.)
RecordedIsRead ==
  \A a \in artifacts :
    /\ asked = a.path /\ a.path = Strip(a.path)
         => reply = IF purpose = "download" \/ Previewable(a.path) THEN File(a.remote, a.path)
                    ELSE NotText
    /\ asked = a.remote /\ (\A b \in Matches(asked) : b.path[1] # " ")
         => reply.kind = "file" \/ (purpose = "text" /\ reply = NotText)

\* A preview that lacks text says so; and for the limits that make sense one that says
\* so lacks text, and no preview exceeds the limit the caller gave.
PreviewTellsTheTruth ==
  reply.kind = "preview"
    => LET length == asked[1]
           max == asked[2]
       IN /\ reply.shown < length => reply.truncated
          /\ max >= 0 /\ reply.truncated => reply.shown < length
          /\ max > 0 => reply.shown <= max

-----------------------------------------------------------------------------
(* The inductive invariant behind the properties. *)

\* What was asked last, and how it was answered.
Answered ==
  \/ asked = <<>> /\ reply = Ready
  \/ artifacts = {} /\ asked \in Paths /\ reply = Opened(purpose, Resolve(workingDir, asked))
  \/ asked \in Spellings /\ Matches(asked) = {} /\ reply = NotFound
  \/ /\ asked \in Spellings
     /\ \E a \in Matches(asked) : reply = Opened(purpose, Resolve(workingDir, a.path))
  \/ artifacts = {} /\ \E n \in 0 .. MaxLength, max \in - MaxLength .. MaxLength :
                         asked = <<n, max>> /\ reply = PreviewOf(n, max)

AccessInv ==
  /\ workingDir \in WorkingDirs /\ purpose \in Purposes
  /\ \A a \in artifacts : \E f \in Files : a = Recorded(workingDir, f)
  /\ Answered
=============================================================================
