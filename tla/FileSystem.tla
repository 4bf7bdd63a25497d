------------------------------ MODULE FileSystem ------------------------------
(***************************************************************************)
(* The hosted File, Dir and Path functions (src/src/lib.rs) and those that *)
(* only the legacy host has (roc_file), as a Roc program sees them: it     *)
(* makes one call at a time, a call that std turns into several system     *)
(* calls takes several steps, any of them may fail, and another process    *)
(* changes the same directory tree in between.                             *)
(*                                                                         *)
(* The other process makes, removes, renames and links; it replaces files  *)
(* instead of writing into them, and moves no directory. Links point at    *)
(* paths that are not links themselves, and paths do not lead through one. *)
(* remove_dir_all works on open directories: here a name in one of them is *)
(* a path, which differs only once the other process has removed that      *)
(* directory and made another of its name.                                 *)
(***************************************************************************)
EXTENDS IOErr, Integers, SequencesExt, FiniteSets

CONSTANTS Paths,      \* the paths that may exist: sequences of names
          Targets,    \* what a symbolic link may point at
          Contents,   \* what may be written to a file: sequences of characters
          Bad,        \* a character that is not valid UTF-8
          Foreign,    \* permission bits and time of files the program did not make
          Start,      \* the trees the program may find when it starts
          MaxCalls,   \* bound on the program's calls
          MaxOther    \* bound on the other process's changes

ASSUME FileSystemAssumption ==
  /\ Paths \subseteq Seq(STRING) /\ IsFiniteSet(Paths)
  /\ \A p \in Paths : p # <<>> /\ (Len(p) > 1 => Front(p) \in Paths)
  /\ Targets \subseteq Paths
  /\ \A c \in Contents : c \in Seq(STRING)
  /\ Foreign \in [mode : SUBSET {"read", "write", "execute"}, time : Int]
  /\ Foreign.time # 0
  /\ MaxCalls \in Nat /\ MaxOther \in Nat

VARIABLES fs,         \* fs[p]: what path p names
          disk,       \* disk[i]: the file with inode i, Blank if there is none
          op,         \* the call in progress, between two of its system calls
          ret,        \* the result of the last finished call
          disturbed,  \* history: what interfered with the last call (see Disturb)
          calls, others

vars == <<fs, disk, op, ret, disturbed, calls, others>>

Inodes == 1..(Cardinality(Paths) + 1)

None == [kind |-> "none", ino |-> 0, target |-> <<>>]
File(i) == [kind |-> "file", ino |-> i, target |-> <<>>]
Dir == [kind |-> "dir", ino |-> 0, target |-> <<>>]
Link(t) == [kind |-> "link", ino |-> 0, target |-> t]

Blank == [data |-> <<>>, mode |-> {}, time |-> 0]
Own == [mode |-> {"read", "write"}, time |-> 1]   \* of files the program makes
Stored(d, attr) == [data |-> d, mode |-> attr.mode, time |-> attr.time]

Idle == [fn |-> "none"]
NoResult == [fn |-> "none", path |-> <<>>, err |-> "none", byte |-> 0, val |-> {}]

Children(p) == {q \in Paths : Len(q) = Len(p) + 1 /\ Front(q) = p /\ fs[q].kind # "none"}
Below(p) == {q \in Paths : IsPrefix(p, q)}

(* A file lives as long as a path names it or a call has it open.          *)
Named(tree, i) == \E p \in Paths : tree[p].kind = "file" /\ tree[p].ino = i

(* What the program may find: what is not a directory has nothing below it,
   and no link lies where links point.                                       *)
MayHold(node, p) == node.kind = "link" => p \notin Targets /\ Below(p) = {p}
IsTree(tree) ==
  /\ tree \in [Paths -> {None, Dir} \cup {File(i) : i \in Inodes} \cup {Link(t) : t \in Targets}]
  /\ \A p \in Paths :
       /\ tree[p] # None /\ Len(p) > 1 => tree[Front(p)] = Dir
       /\ MayHold(tree[p], p)
ASSUME StartAssumption == \A tree \in Start : IsTree(tree)

OpenIn(frame) == IF frame.fn = "File.write!" THEN frame.ino ELSE 0
NewIno == CHOOSE i \in Inodes : ~Named(fs, i) /\ i # OpenIn(op)

(* The tree becomes `tree` and the files `files`, now that op' is known.    *)
Becomes(tree, files) ==
  /\ fs' = tree
  /\ disk' = [i \in Inodes |->
                IF Named(tree, i) \/ i = OpenIn(op') THEN files[i] ELSE Blank]

-----------------------------------------------------------------------------
(* System calls, by their outcome: "ok" or an error kind.                  *)

Real(p) == IF fs[p].kind = "link" THEN fs[p].target ELSE p
KindOf(p) == fs[Real(p)].kind
Content(p) == disk[fs[Real(p)].ino].data

(* A file on the way to p is in the way, however far up it is. *)
Blocked(p) == \E q \in Paths : q # p /\ p \in Below(q) /\ fs[q].kind \in {"file", "link"}
Reach(p) == IF Len(p) = 1 \/ fs[Front(p)].kind = "dir" THEN "ok"
            ELSE IF Blocked(p) THEN "NotADirectory" ELSE "NotFound"

Lookup(p) == CASE Reach(p) # "ok"        -> Reach(p)
               [] fs[p].kind = "none"    -> "NotFound"
               [] OTHER                  -> "ok"

Mkdir(p) == CASE Reach(p) # "ok"         -> Reach(p)
              [] fs[p].kind # "none"     -> "AlreadyExists"
              [] OTHER                   -> "ok"

Unlink(p) == CASE Lookup(p) # "ok"       -> Lookup(p)
               [] fs[p].kind = "dir"     -> "IsADirectory"
               [] OTHER                  -> "ok"

RmdirUnchecked(p) == IF Lookup(p) # "ok" THEN Lookup(p) ELSE "ok"
Rmdir(p) == CASE Lookup(p) # "ok"        -> Lookup(p)
              [] fs[p].kind # "dir"      -> "NotADirectory"
              [] Children(p) # {}        -> "DirectoryNotEmpty"
              [] OTHER                   -> "ok"

OpenRead(p) == CASE Lookup(p) # "ok"       -> Lookup(p)
                 [] Lookup(Real(p)) # "ok" -> Lookup(Real(p))
                 [] KindOf(p) = "dir"      -> "IsADirectory"
                 [] OTHER                  -> "ok"

OpenWrite(p) == CASE Reach(p) # "ok"       -> Reach(p)
                  [] Reach(Real(p)) # "ok" -> Reach(Real(p))
                  [] KindOf(p) = "dir"     -> "IsADirectory"
                  [] OTHER                 -> "ok"

(* link(2) names the link itself, not what it points at. *)
LinkOutcome(p, q) == CASE Lookup(p) # "ok"       -> Lookup(p)
                       [] fs[p].kind = "dir"     -> "PermissionDenied"
                       [] OTHER                  -> Mkdir(q)

RenameOutcome(p, q) ==
  CASE Lookup(p) # "ok"                                   -> Lookup(p)
    [] Reach(q) # "ok"                                    -> Reach(q)
    [] p # q /\ IsPrefix(p, q)                            -> "InvalidInput"
    [] fs[p].kind = "dir" /\ fs[q].kind \in {"file", "link"} -> "NotADirectory"
    [] fs[p].kind # "dir" /\ fs[q].kind = "dir"           -> "IsADirectory"
    [] p # q /\ Children(q) # {}                          -> "DirectoryNotEmpty"
    [] OTHER                                              -> "ok"

(* The path r, at or below `from`, as it is at or below `to`. *)
Moved(r, from, to) == to \o SubSeq(r, Len(from) + 1, Len(r))

(* Whatever p names, with all below it, comes to be at q, in one step. *)
Renamed(p, q) ==
  IF fs[p] = fs[q] /\ fs[p].kind = "file" THEN fs
  ELSE [r \in Paths |->
         IF IsPrefix(q, r) /\ Moved(r, q, p) \in Paths THEN fs[Moved(r, q, p)]
         ELSE IF IsPrefix(p, r) \/ IsPrefix(q, r) THEN None ELSE fs[r]]

(* metadata(2) follows links; what a directory has is not modelled. *)
Stat(p) == IF Lookup(p) # "ok" THEN Lookup(p) ELSE Lookup(Real(p))

(* A call may be refused whatever the tree looks like. *)
Outcomes(o) == {o, "PermissionDenied"}

-----------------------------------------------------------------------------
Begin == op = Idle /\ calls < MaxCalls /\ calls' = calls + 1

(* Writing the Try value: Ok with a value, or Err with the tag byte. *)
Return(fn, p, o, val) ==
  /\ ret' = [fn |-> fn, path |-> p, err |-> IF o = "ok" THEN "none" ELSE o,
             byte |-> IF o = "ok" THEN 0 ELSE FromIoError(o),
             val |-> IF o = "ok" THEN val ELSE {}]
  /\ op' = Idle

Continue(frame) == op' = frame /\ UNCHANGED ret

(* A call that is a single system call, changing the tree to `tree` if it
   succeeds.                                                               *)
Single(fn, p, outcome, tree, val) ==
  /\ Begin
  /\ \E o \in Outcomes(outcome) :
       /\ Return(fn, p, o, val)
       /\ Becomes(IF o = "ok" THEN tree ELSE fs, disk)
  /\ disturbed' = {}
  /\ UNCHANGED others

hosted_dir_create(p) ==
  Single("Dir.create!", p, Mkdir(p), [fs EXCEPT ![p] = Dir], {})

hosted_dir_delete_empty(p) ==
  Single("Dir.delete_empty!", p, Rmdir(p), [fs EXCEPT ![p] = None], {})

hosted_file_delete(p) ==
  Single("File.delete!", p, Unlink(p), [fs EXCEPT ![p] = None], {})

(* read_dir, then its entries; an entry that cannot be read is left out.    *)
ListOutcome(p) == CASE Lookup(p) # "ok"       -> Lookup(p)
                    [] Lookup(Real(p)) # "ok" -> Lookup(Real(p))
                    [] KindOf(p) # "dir"      -> "NotADirectory"
                    [] OTHER                  -> "ok"
hosted_dir_list(p) ==
  \E entries \in SUBSET Children(Real(p)) :
    Single("Dir.list!", p, ListOutcome(p), fs, entries)

hosted_file_read_bytes(p) ==
  Single("File.read_bytes!", p, OpenRead(p), fs, {Content(p)})

(* fs::read_to_string refuses bytes that are not UTF-8. *)
ReadUtf8(p) ==
  IF OpenRead(p) = "ok" /\ Contains(Content(p), Bad)
    THEN "InvalidData" ELSE OpenRead(p)
hosted_file_read_utf8(p) ==
  Single("File.read_utf8!", p, ReadUtf8(p), fs, {Content(p)})

(* symlink_metadata describes the path itself, never what it points to.    *)
Query(fn, p, kind) == Single(fn, p, Lookup(p), fs, {fs[p].kind = kind})
hosted_path_is_dir(p) == Query("Path.is_dir!", p, "dir")
hosted_path_is_file(p) == Query("Path.is_file!", p, "file")
hosted_path_is_sym_link(p) == Query("Path.is_sym_link!", p, "link")

-----------------------------------------------------------------------------
(* What only the legacy host offers. A link may not come to lie where links
   point: the bound named in the heading.                                    *)

file_rename(p, q) ==
  /\ Single("file_rename", p, RenameOutcome(p, q), Renamed(p, q), {q})
  /\ \A r \in Below(p) : fs[r] # None =>
       Moved(r, p, q) \in Paths /\ MayHold(fs[r], Moved(r, p, q))

hard_link(p, q) ==
  /\ Single("hard_link", p, LinkOutcome(p, q), [fs EXCEPT ![q] = fs[p]], {q})
  /\ MayHold(fs[p], q)

path_type(p) == Single("path_type", p, Lookup(p), fs, {fs[p].kind})

(* try_exists: whatever does not exist is an answer and not an error. *)
file_exists(p) ==
  Single("file_exists", p, IF Stat(p) = "NotFound" THEN "ok" ELSE Stat(p), fs, {Stat(p) = "ok"})

file_size_in_bytes(p) ==
  /\ KindOf(p) # "dir"
  /\ Single("file_size_in_bytes", p, Stat(p), fs, {Len(Content(p))})

(* One of the owner's bits, or for "execute" anybody's. *)
file_is(p, bit) ==
  /\ KindOf(p) # "dir"
  /\ Single("file_is", p, Stat(p), fs, {bit \in disk[fs[Real(p)].ino].mode})

(* duration_since(UNIX_EPOCH).unwrap(): an earlier time ends the process.   *)
Aborted == [fn |-> "aborted"]
file_time(p) ==
  /\ KindOf(p) # "dir"
  /\ IF Stat(p) = "ok" /\ disk[fs[Real(p)].ino].time < 0
       THEN Begin /\ Continue(Aborted) /\ disturbed' = {} /\ UNCHANGED <<fs, disk, others>>
       ELSE Single("file_time", p, Stat(p), fs, {disk[fs[Real(p)].ino].time})

(* Path::is_dir first, for which every error is a no; then read_dir. *)
dir_list(p) ==
  /\ Begin
  /\ \E o \in Outcomes(ListOutcome(p)) :
       IF o = "ok" THEN Continue([fn |-> "dir_list", path |-> p])
                   ELSE Return("dir_list", p, "NotADirectory", {})
  /\ disturbed' = {}
  /\ UNCHANGED <<fs, disk, others>>

DirListReads ==
  /\ op.fn = "dir_list"
  /\ \E entries \in SUBSET Children(Real(op.path)), o \in Outcomes(ListOutcome(op.path)) :
       Return("dir_list", op.path, o, entries)
  /\ UNCHANGED <<fs, disk, disturbed, calls, others>>

-----------------------------------------------------------------------------
(* fs::write: create or truncate, then write until everything is written.  *)

WriteFrame(p, i, d) ==
  [fn |-> "File.write!", path |-> p, ino |-> i, data |-> d, done |-> 0]

OpenKeepingTail(p) ==
  IF fs[Real(p)].kind = "file" THEN disk
  ELSE [disk EXCEPT ![NewIno] = Stored(<<>>, Own)]
OpenTruncating(p) ==
  IF fs[Real(p)].kind = "file"
    THEN [disk EXCEPT ![fs[Real(p)].ino].data = <<>>, ![fs[Real(p)].ino].time = Own.time]
    ELSE [disk EXCEPT ![NewIno] = Stored(<<>>, Own)]
Opened(p) == IF fs[Real(p)].kind = "file" THEN fs[Real(p)].ino ELSE NewIno

hosted_file_write(p, d) ==
  /\ Begin
  /\ \E o \in Outcomes(OpenWrite(p)) :
       IF o = "ok" THEN /\ Continue(WriteFrame(p, Opened(p), d))
                        /\ Becomes([fs EXCEPT ![Real(p)] = File(Opened(p))], OpenTruncating(p))
                   ELSE Return("File.write!", p, o, {}) /\ UNCHANGED <<fs, disk>>
  /\ disturbed' = {}
  /\ UNCHANGED others

Overwrite(old, new) == new \o SubSeq(old, Len(new) + 1, Len(old))

(* One write call, into the file opened, whatever its path names by now. *)
WriteSomeReopening ==
  /\ op.fn = "File.write!" /\ op.done < Len(op.data)
  /\ fs[Real(op.path)].kind = "file"
  /\ \E n \in (op.done + 1)..Len(op.data) :
       /\ Continue([op EXCEPT !.done = n])
       /\ disk' = [disk EXCEPT ![fs[Real(op.path)].ino].data =
                     Overwrite(@, SubSeq(op.data, 1, n))]
  /\ UNCHANGED <<fs, disturbed, calls, others>>
WriteSome ==
  /\ op.fn = "File.write!" /\ op.done < Len(op.data)
  /\ \E n \in (op.done + 1)..Len(op.data) :
       /\ Continue([op EXCEPT !.done = n])
       /\ disk' = [disk EXCEPT ![op.ino].data = Overwrite(@, SubSeq(op.data, 1, n))]
  /\ UNCHANGED <<fs, disturbed, calls, others>>

WriteFails ==
  /\ op.fn = "File.write!" /\ op.done < Len(op.data)
  /\ Return(op.fn, op.path, "StorageFull", {})
  /\ Becomes(fs, disk)
  /\ UNCHANGED <<disturbed, calls, others>>

WriteReturns ==
  /\ op.fn = "File.write!" /\ op.done = Len(op.data)
  /\ Return(op.fn, op.path, "ok", {op.data})
  /\ Becomes(fs, disk)
  /\ UNCHANGED <<disturbed, calls, others>>

-----------------------------------------------------------------------------
(* fs::create_dir_all: mkdir; when the parent is missing, create that first
   and try again; when mkdir fails otherwise, ask whether a directory is
   there by now, for which every error is a no. The stack holds the
   directories still to be made.                                             *)

hosted_dir_create_all(p) ==
  /\ Begin
  /\ op' = [fn |-> "Dir.create_all!", path |-> p, why |-> "none",
            stack |-> <<[dir |-> p, retry |-> FALSE]>>]
  /\ disturbed' = {}
  /\ UNCHANGED <<fs, disk, ret, others>>

Made(stack) ==
  IF Len(stack) = 1 THEN Return(op.fn, op.path, "ok", {})
                    ELSE Continue([op EXCEPT !.stack = Front(stack), !.why = "none"])

CreateAllMkdir ==
  /\ op.fn = "Dir.create_all!" /\ op.why = "none"
  /\ LET top == Last(op.stack)
     IN  \E o \in Outcomes(Mkdir(top.dir)) :
           /\ fs' = IF o = "ok" THEN [fs EXCEPT ![top.dir] = Dir] ELSE fs
           /\ UNCHANGED disk
           /\ CASE o = "ok" -> Made(op.stack)
                [] o = "NotFound" /\ ~top.retry ->
                     Continue([op EXCEPT !.stack =
                       Append(Front(@) \o <<[top EXCEPT !.retry = TRUE]>>,
                              [dir |-> Front(top.dir), retry |-> FALSE])])
                [] OTHER -> Continue([op EXCEPT !.why = o])
  /\ UNCHANGED <<disturbed, calls, others>>

CreateAllGiveUp ==
  /\ op.fn = "Dir.create_all!" /\ op.why # "none"
  /\ Return(op.fn, op.path, op.why, {})
  /\ UNCHANGED <<fs, disk, disturbed, calls, others>>
CreateAllTrusts ==
  /\ op.fn = "Dir.create_all!" /\ op.why # "none"
  /\ IF op.why = "AlreadyExists" THEN Made(op.stack)
                                 ELSE Return(op.fn, op.path, op.why, {})
  /\ UNCHANGED <<fs, disk, disturbed, calls, others>>
CreateAllCheck ==
  /\ op.fn = "Dir.create_all!" /\ op.why # "none"
  /\ LET found == Stat(Last(op.stack).dir)
     IN  \E o \in Outcomes(found) :
           /\ IF o = "ok" /\ KindOf(Last(op.stack).dir) = "dir"
                THEN Made(op.stack)
                ELSE Return(op.fn, op.path, op.why, {})
           /\ disturbed' = disturbed \cup (IF o = found THEN {} ELSE {"refused"})
  /\ UNCHANGED <<fs, disk, calls, others>>

-----------------------------------------------------------------------------
(* fs::remove_dir_all: a link is unlinked; a directory is listed, emptied
   entry by entry and removed. What was listed as a directory is opened
   without following a link and unlinked if it is none any more, the rest is
   unlinked; what is gone is left at that.                                   *)

RemoveFrame(p, top) == [fn |-> "Dir.delete_all!", path |-> p, stack |-> <<top>>]
Entry(q) == [path |-> q, dir |-> fs[q].kind = "dir"]
Frame(d) == [dir |-> d, entries |-> {Entry(q) : q \in Children(d)}]

hosted_dir_delete_all(p) ==
  /\ Begin
  /\ disturbed' = {}
  /\ \E o \in Outcomes(Lookup(p)) :
       CASE o = "ok" /\ fs[p].kind = "dir"  ->
              Continue(RemoveFrame(p, Frame(p))) /\ UNCHANGED <<fs, disk>>
         [] o = "ok" /\ fs[p].kind = "link" ->
              Return("Dir.delete_all!", p, "ok", {}) /\ Becomes([fs EXCEPT ![p] = None], disk)
         [] o = "ok" /\ fs[p].kind = "file" ->
              Return("Dir.delete_all!", p, "NotADirectory", {}) /\ UNCHANGED <<fs, disk>>
         [] OTHER -> Return("Dir.delete_all!", p, o, {}) /\ UNCHANGED <<fs, disk>>
  /\ UNCHANGED others

DescendFollowing(e) == e.dir /\ KindOf(e.path) = "dir"
Descend(e) == e.dir /\ fs[e.path].kind = "dir"

EntryOutcome(e) == CASE fs[e.path] = None                      -> "NotFound"
                     [] ~e.dir /\ fs[e.path].kind = "dir"      -> "IsADirectory"
                     [] OTHER                                  -> "ok"

DeleteAllEntry ==
  /\ op.fn = "Dir.delete_all!" /\ Last(op.stack).entries # {}
  /\ \E e \in Last(op.stack).entries :
       LET rest == [op EXCEPT !.stack[Len(op.stack)].entries = @ \ {e}]
       IN  \E o \in Outcomes(EntryOutcome(e)) :
             CASE o = "ok" /\ Descend(e)  ->
                    /\ Continue([rest EXCEPT !.stack = Append(@, Frame(Real(e.path)))])
                    /\ UNCHANGED <<fs, disk>>
               [] o = "ok" /\ ~Descend(e) ->
                    Continue(rest) /\ Becomes([fs EXCEPT ![e.path] = None], disk)
               [] o = "NotFound"          -> Continue(rest) /\ UNCHANGED <<fs, disk>>
               [] OTHER -> Return(op.fn, op.path, o, {}) /\ UNCHANGED <<fs, disk>>
  /\ UNCHANGED <<disturbed, calls, others>>

RmdirOutcome(stack) ==
  IF Len(stack) > 1 /\ fs[Last(stack).dir] = None THEN "NotFound" ELSE Rmdir(Last(stack).dir)

DeleteAllRmdir ==
  /\ op.fn = "Dir.delete_all!" /\ Last(op.stack).entries = {}
  /\ \E o \in Outcomes(RmdirOutcome(op.stack)) :
       /\ fs' = IF o = "ok" THEN [fs EXCEPT ![Last(op.stack).dir] = None] ELSE fs
       /\ UNCHANGED disk
       /\ IF o \notin {"ok", "NotFound"} THEN Return(op.fn, op.path, o, {})
          ELSE IF Len(op.stack) > 1 THEN Continue([op EXCEPT !.stack = Front(@)])
                                    ELSE Return(op.fn, op.path, "ok", {})
  /\ UNCHANGED <<disturbed, calls, others>>

-----------------------------------------------------------------------------
(* The other process: makes, removes, renames or links one thing at a time. *)

Disturb ==
  /\ others < MaxOther /\ others' = others + 1
  /\ disturbed' = disturbed \cup {"other"}
  /\ UNCHANGED <<op, ret, calls>>

Created(p, node, d) ==
  IF node.kind = "file"
    THEN fs' = [fs EXCEPT ![p] = File(NewIno)] /\ disk' = [disk EXCEPT ![NewIno] = Stored(d, Foreign)]
    ELSE Becomes([fs EXCEPT ![p] = node], disk)

Other(p, node, d) ==
  /\ Disturb
  /\ MayHold(node, p)
  /\ \/ node # None /\ Reach(p) = "ok" /\ fs[p] = None
     \/ node = None /\ fs[p] # None /\ Children(p) = {}
  /\ Created(p, node, d)

OtherRenames(p, q) ==
  /\ Disturb
  /\ fs[p].kind = "file" /\ RenameOutcome(p, q) = "ok"
  /\ Becomes(Renamed(p, q), disk)

OtherLinks(p, q) ==
  /\ Disturb
  /\ fs[p].kind = "file" /\ LinkOutcome(p, q) = "ok"
  /\ Becomes([fs EXCEPT ![q] = fs[p]], disk)

Init ==
  /\ fs \in Start
  /\ \E d \in Contents :
       disk = [i \in Inodes |-> IF Named(fs, i) THEN Stored(d, Foreign) ELSE Blank]
  /\ op = Idle /\ ret = NoResult
  /\ disturbed = {} /\ calls = 0 /\ others = 0

LegacyFile(p) ==
  \/ file_size_in_bytes(p) \/ file_time(p) \/ file_exists(p)
  \/ \E bit \in {"read", "write", "execute"} : file_is(p, bit)
  \/ \E q \in Paths : file_rename(p, q)

Next ==
  \/ \E p \in Paths :
       \/ hosted_dir_create(p) \/ hosted_dir_create_all(p)
       \/ hosted_dir_delete_all(p) \/ hosted_dir_delete_empty(p) \/ hosted_dir_list(p)
       \/ hosted_file_delete(p) \/ hosted_file_read_bytes(p) \/ hosted_file_read_utf8(p)
       \/ hosted_path_is_dir(p) \/ hosted_path_is_file(p) \/ hosted_path_is_sym_link(p)
       \/ \E d \in Contents : hosted_file_write(p, d)
       \/ \E n \in {None, Dir} \cup {Link(t) : t \in Targets} : Other(p, n, <<>>)
       \/ \E d \in Contents : Other(p, File(0), d)
       \/ \E q \in Paths : OtherRenames(p, q) \/ OtherLinks(p, q)
       \/ LegacyFile(p) \/ path_type(p) \/ dir_list(p)
       \/ \E q \in Paths : hard_link(p, q)
  \/ WriteSome \/ WriteFails \/ WriteReturns
  \/ CreateAllMkdir \/ CreateAllCheck
  \/ DeleteAllEntry \/ DeleteAllRmdir
  \/ DirListReads

Spec == Init /\ [][Next]_vars

-----------------------------------------------------------------------------
(* Type correctness; the paths that exist form a tree. *)
TypeOK ==
  /\ \A p \in Paths : fs[p] # None => Reach(p) = "ok"
  /\ fs \in [Paths -> [kind : {"none", "file", "dir", "link"}, ino : Inodes \cup {0},
                       target : Targets \cup {<<>>}]]
  /\ disk \in [Inodes -> [data : Seq(STRING), mode : SUBSET {"read", "write", "execute"},
                           time : Int]]
  /\ \A i \in Inodes : disk[i] # Blank <=> Named(fs, i) \/ i = OpenIn(op)
  /\ op.fn \in {"none", "File.write!", "Dir.create_all!", "Dir.delete_all!", "dir_list", "aborted"}
  /\ ret.err \in ErrorKinds \cup {"none"} /\ ret.byte \in 0..7
  /\ disturbed \subseteq {"other", "refused"}
  /\ calls \in 0..MaxCalls /\ others \in 0..MaxOther

DirCalls == {"Dir.create!", "Dir.create_all!", "Dir.delete_all!", "Dir.delete_empty!",
             "Dir.list!"}

(* The tag on which a program that used File or Path matches is the one the
   tags' documentation gives to what went wrong.                             *)
ErrorsMeanWhatHappened ==
  ret.err # "none" /\ ret.fn \notin DirCalls =>
    Decode(CommonRocTags, ret.byte) = Meaning(CommonRocTags, ret.err)

(* When File.write! returns Ok, the file it opened holds exactly the bytes
   written, under every name it was renamed to or linked at meanwhile: nothing
   of what it held before, and never only a part because an error was
   overlooked. Unless the other process acted, the path still names it.      *)
OkWriteIsComplete ==
  [][op.fn = "File.write!" /\ op' = Idle /\ ret'.err = "none" =>
       /\ disk[op.ino].data = op.data
       /\ \A q \in Paths : fs'[q] = File(op.ino) => disk'[op.ino].data = op.data
       /\ disturbed = {} => fs'[Real(op.path)] = File(op.ino)]_vars

(* No call removes anything that is not at or below the path it was given,
   even when the other process plants links between the steps of a
   Dir.delete_all!.                                                          *)
CallPath == IF op # Idle THEN op.path ELSE IF op' # Idle THEN op'.path ELSE ret'.path
RemovesOnlyBelow ==
  [][others' = others =>
       \A q \in Paths : fs[q] # None /\ fs'[q] = None => q \in Below(CallPath)]_vars

(* The contents of a file change only under a File.write! that opened it:
   neither a write that goes on while its path comes to name something else,
   nor any other call, reaches a file through another name.                  *)
WritesStayInTheirFile ==
  [][others' = others =>
       \A i \in Inodes : Named(fs, i) /\ Named(fs', i) /\ disk'[i] # disk[i] =>
         \/ i = OpenIn(op)
         \/ op = Idle /\ op'.fn = "File.write!" /\ i = fs[Real(op'.path)].ino]_vars

(* Dir.create_all! returns Ok only at a moment when the path is a directory,
   Dir.delete_all! only when nothing is left at or below it.                 *)
OkMeansDone ==
  [][op # Idle /\ op' = Idle /\ ret'.err = "none" =>
       /\ op.fn = "Dir.create_all!" =>
            \/ fs'[op.path].kind = "dir"
            \/ fs'[op.path].kind = "link" /\ fs'[fs'[op.path].target].kind = "dir"
       /\ op.fn = "Dir.delete_all!" => \A q \in Below(op.path) : fs'[q] = None]_vars

(* Two processes creating the same directories do not make each other fail:
   AlreadyExists is reported only if some part of the path is no directory,
   or the last look at it was refused.                                       *)
CreateAllToleratesRace ==
  [][op # Idle /\ op' = Idle /\ op.fn = "Dir.create_all!"
       /\ ret'.err = "AlreadyExists" /\ "refused" \notin disturbed' =>
         \E q \in Paths : IsPrefix(q, op.path) /\ KindOf(q) # "dir"]_vars

(* Dir.roc: the tags of a failed Dir call are documented to say what went
   wrong (NotADirectory, NotEmpty, PermissionDenied, ...).                   *)
DirErrorsMeanWhatHappened ==
  ret.err # "none" /\ ret.fn \in DirCalls =>
    Decode(DirRocTags, ret.byte) = Meaning(DirRocTags, ret.err)

(* Path.roc: Path.is_dir! "will traverse symbolic links to query information
   about the destination file".                                              *)
IsDirFollowsLinks ==
  ret.fn = "Path.is_dir!" /\ ret.err = "none" /\ op = Idle /\ disturbed = {} =>
    ret.val = {KindOf(ret.path) = "dir"}

(* File.roc: "If the file contains invalid UTF-8, the invalid parts will be
   replaced": reading such a file does not fail for it.                      *)
ReadUtf8Replaces == ret.fn = "File.read_utf8!" => ret.err # "InvalidData"
=============================================================================
