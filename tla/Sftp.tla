-------------------------------- MODULE Sftp --------------------------------
(***************************************************************************)
(* The commands of an SFTP session (plugins/protocol-sftp/session.go).     *)
(* Start's loop takes a line at a time and runs its command; a get or a    *)
(* put copies in pieces, while the session's context may be cancelled, the *)
(* session closed and the connection lost between any two of them.         *)
(*                                                                         *)
(* A path is the one an argument resolves to: resolveRemote and            *)
(* resolveLocal join it with the directory the side is in.  A file is its  *)
(* contents, pieces of a value.  Only this session changes the files.      *)
(***************************************************************************)
EXTENDS Naturals, Sequences

CONSTANTS
  Path,       \* paths, the same on both sides
  Home,       \* the directory both sides start in
  Piece,      \* pieces files are made of
  MaxPieces,  \* bound: the length of a file
  MaxCmds     \* bound: lines typed

Node(kind, data) == [kind |-> kind, data |-> data]
Dir == Node("dir", <<>>)
NoFile == Node("none", <<>>)
File == {Node("file", d) : d \in UNION {[1 .. n -> Piece] : n \in 0 .. MaxPieces}}
NoCopy == [from |-> "none", src |-> Home, dst |-> Home, at |-> 0]

VARIABLES
  fs,        \* what each side, "remote" and "local", has at each path
  cwd,       \* remoteCWD and localCWD
  cmds,      \* lines handled
  copy,      \* the copy under way: [from, src, dst, at], or NoCopy
  cancelled, \* the context
  closed,    \* Session.closed
  ended,     \* Start has returned
  report     \* the copy the last line was answered with, or NoCopy

vars == <<fs, cwd, cmds, copy, cancelled, closed, ended, report>>

Init ==
  /\ fs \in [{"remote", "local"} ->
               {f \in [Path -> {Dir, NoFile} \cup File] : f[Home] = Dir}]
  /\ cwd = [side \in {"remote", "local"} |-> Home]
  /\ cmds = 0 /\ copy = NoCopy
  /\ cancelled = FALSE /\ closed = FALSE /\ ended = FALSE /\ report = NoCopy

Other(side) == IF side = "remote" THEN "local" ELSE "remote"

\* handleLine: a line is taken when the one before is answered, and neither the
\* context nor Close has been noticed.
Takes ==
  /\ copy = NoCopy /\ ~ended /\ cmds < MaxCmds
  /\ cmds' = cmds + 1
  /\ report' = NoCopy

\* A command on the remote side is refused once the connection is closed.
Serves(side) == side = "local" \/ ~closed

-----------------------------------------------------------------------------
(* Commands that are one request                                           *)

\* cd and lcd: only into a directory.
cdCmd(side, p) ==
  /\ Takes /\ Serves(side)
  /\ fs[side][p] = Dir
  /\ cwd' = [cwd EXCEPT ![side] = p]
  /\ UNCHANGED <<fs, copy, cancelled, closed, ended>>

Becomes(p, what) == fs' = [fs EXCEPT !["remote"][p] = what]

mkdirCmd(p) == fs["remote"][p] = NoFile /\ Becomes(p, Dir)

rmdirCmd(p) == fs["remote"][p] = Dir /\ p # Home /\ Becomes(p, NoFile)

rmCmd(p) == fs["remote"][p] \in File /\ Becomes(p, NoFile)

\* mv: the server refuses to rename over what is there.
mvCmd(p, q) ==
  /\ fs["remote"][p] # NoFile /\ p # Home /\ fs["remote"][q] = NoFile
  /\ fs' = [fs EXCEPT !["remote"] = [@ EXCEPT ![q] = fs["remote"][p], ![p] = NoFile]]

\* What it does succeeds, or the server refuses; ls, chmod and the rest only answer.
Request ==
  /\ Takes
  /\ \/ \E p \in Path : mkdirCmd(p) \/ rmdirCmd(p) \/ rmCmd(p) \/ \E q \in Path : mvCmd(p, q)
     \/ UNCHANGED fs
  /\ closed => UNCHANGED fs
  /\ UNCHANGED <<cwd, copy, cancelled, closed, ended>>

-----------------------------------------------------------------------------
(* get and put                                                             *)

\* The source is opened, then the destination is created or truncated; a directory
\* can be opened but not read.
Transfer(side, p, q) ==
  /\ Takes /\ ~closed
  /\ fs[side][p] # NoFile /\ fs[Other(side)][q] # Dir
  /\ fs' = [fs EXCEPT ![Other(side)][q] = Node("file", <<>>)]
  /\ copy' = [from |-> side, src |-> p, dst |-> q, at |-> 0]
  /\ UNCHANGED <<cwd, cancelled, closed, ended>>

getCmd(p, q) == Transfer("remote", p, q)
putCmd(p, q) == Transfer("local", p, q)

Source == fs[copy.from][copy.src]

\* copyWithCancel: one piece is read and written.
CopyPiece ==
  /\ copy # NoCopy /\ ~closed
  /\ Source \in File /\ copy.at < Len(Source.data)
  /\ fs' = [fs EXCEPT ![Other(copy.from)][copy.dst].data =
                         Append(@, Source.data[copy.at + 1])]
  /\ copy' = [copy EXCEPT !.at = @ + 1]
  /\ UNCHANGED <<cwd, cmds, cancelled, closed, ended, report>>

\* Mutant: a copy that is cancelled is taken to be at its end.
CopyDoneEarly ==
  /\ copy # NoCopy
  /\ cancelled \/ (~closed /\ Source \in File /\ copy.at = Len(Source.data))
  /\ report' = copy /\ copy' = NoCopy
  /\ UNCHANGED <<fs, cwd, cmds, cancelled, closed, ended>>

\* The end of the file: the copy is reported.  The context is not looked at again.
CopyDone ==
  /\ copy # NoCopy /\ Source \in File /\ copy.at = Len(Source.data)
  /\ ~closed \/ copy.from = "local"
  /\ report' = copy /\ copy' = NoCopy
  /\ UNCHANGED <<fs, cwd, cmds, cancelled, closed, ended>>

\* The context is cancelled, the session closed, or a read or a write fails, the write
\* perhaps after a part; what was copied stays.
CopyFailed ==
  /\ copy # NoCopy
  /\ copy' = NoCopy
  /\ UNCHANGED <<fs, cwd, cmds, cancelled, closed, ended, report>>

-----------------------------------------------------------------------------
(* The session                                                             *)

\* The user types exit, the input ends, or the loop sees the context or Close.
Leave ==
  /\ copy = NoCopy /\ ~ended
  /\ ended' = TRUE /\ closed' = TRUE
  /\ UNCHANGED <<fs, cwd, cmds, copy, cancelled, report>>

Cancel ==
  /\ ~cancelled
  /\ cancelled' = TRUE
  /\ UNCHANGED <<fs, cwd, cmds, copy, closed, ended, report>>

\* By the goroutine that watches the context, or by the manager.
Close ==
  /\ ~closed
  /\ closed' = TRUE
  /\ UNCHANGED <<fs, cwd, cmds, copy, cancelled, ended, report>>

Next ==
  \/ \E side \in {"remote", "local"}, p \in Path : cdCmd(side, p)
  \/ Request
  \/ \E p, q \in Path : getCmd(p, q) \/ putCmd(p, q)
  \/ CopyPiece \/ CopyDone \/ CopyFailed
  \/ Leave \/ Cancel \/ Close

Spec == Init /\ [][Next]_vars

-----------------------------------------------------------------------------
(* Properties                                                              *)

\* A get or a put that is reported as done has put the whole file there, as it was on
\* the other side: none that was cancelled, closed or cut off in the middle.
ReportedCopiesAreWhole ==
  report # NoCopy =>
    /\ fs[report.from][report.src] \in File
    /\ fs[Other(report.from)][report.dst] = fs[report.from][report.src]
=============================================================================
