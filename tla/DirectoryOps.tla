----------------------------- MODULE DirectoryOps -----------------------------
(***************************************************************************)
(* directory_ops.c: a program that makes a small tree, walks it, changes   *)
(* into it and back, makes a link and removes everything.  The tree is on  *)
(* disk: a run that is killed leaves it to the next one.  What a call      *)
(* prints is left out, except the line that says that all is cleaned up.   *)
(***************************************************************************)
EXTENDS Naturals

CONSTANT
    MaxCrashes  \* bound: how often a run is killed

VARIABLES
    pc,         \* the call the program makes next
    fs,         \* the paths that exist
    cwd,        \* the current directory
    original,   \* what original_dir holds: the starting directory, or nothing
    strayed,    \* did some run go on in a directory it did not mean?
    crashes

vars == <<pc, fs, cwd, original, strayed, crashes>>

\* "foreign" is a file in subdir1 that another program made, "inner_link" the
\* link when it is made inside of test_directory.
Tree == {"test_directory", "subdir1", "subdir2"}
Paths == Tree \cup {"test_link", "inner_link", "foreign"}
Within == [p \in Paths |->
             CASE p = "test_directory" -> {"subdir1", "inner_link"}
               [] p = "subdir1" -> {"subdir2", "foreign"}
               [] OTHER -> {}]
Places == {"top", "test_directory", "elsewhere"}

TypeOK ==
    /\ pc \in {"list", "mkdir", "mkdir_0", "mkdir_1", "mkdir_2", "walk", "getcwd",
               "chdir", "back", "symlink", "temp", "unlink", "rmdir_2",
               "rmdir_1", "rmdir", "cleaned_up", "exit"}
    /\ fs \in SUBSET Paths
    /\ cwd \in Places
    /\ original \in {"top", "unset"}
    /\ strayed \in BOOLEAN
    /\ crashes \in 0..MaxCrashes

\* Nothing is there before the first run.
Init ==
    /\ pc = "list"
    /\ fs = {}
    /\ cwd = "top"
    /\ original = "unset"
    /\ strayed = FALSE
    /\ crashes = 0

Step(from, to) == pc = from /\ pc' = to
Still == UNCHANGED <<cwd, original, strayed, crashes>>

\* Relative paths are those of the tree only from the starting directory.
Exists(p) == cwd = "top" /\ p \in fs

\* opendir() twice, readdir() and stat(); or exit(1).
List ==
    /\ Step("list", "mkdir") \/ Step("list", "exit")
    /\ UNCHANGED fs /\ Still

\* mkdir() makes the directory if its parent is there; it may fail anyway, and
\* the program goes on.  The outermost directory is asked for twice.
Mkdir(from, p, parents, to) ==
    /\ Step(from, to)
    /\ \/ parents \subseteq fs /\ fs' = fs \cup {p}
       \/ UNCHANGED fs
    /\ Still

MakeTree ==
    \/ Mkdir("mkdir", "test_directory", {}, "mkdir_0")
    \/ Mkdir("mkdir_0", "test_directory", {}, "mkdir_1")
    \/ Mkdir("mkdir_1", "subdir1", {"test_directory"}, "mkdir_2")
    \/ Mkdir("mkdir_2", "subdir2", {"subdir1"}, "walk")

Walk == Step("walk", "getcwd") /\ UNCHANGED fs /\ Still

\* getcwd() fails when the path has no room in 256 bytes.
GetCwd ==
    /\ Step("getcwd", "chdir")
    /\ original' \in {"top", "unset"}
    /\ UNCHANGED <<fs, cwd, strayed, crashes>>

ChangeDir ==
    /\ IF Exists("test_directory")
       THEN Step("chdir", "back") /\ cwd' = "test_directory"
       ELSE Step("chdir", "symlink") /\ UNCHANGED cwd
    /\ UNCHANGED <<fs, original, strayed, crashes>>

\* An array that getcwd() did not fill in holds any path or none.
ChangeBack ==
    /\ Step("back", "symlink")
    /\ IF original = "top" THEN cwd' = "top" /\ UNCHANGED strayed
                           ELSE cwd' \in Places /\ strayed' = TRUE
    /\ UNCHANGED <<fs, original, crashes>>

\* The link is made where the program is by now; it may be there already.
Link == CASE cwd = "top" -> "test_link"
          [] cwd = "test_directory" -> "inner_link"
          [] cwd = "elsewhere" -> "none"

Symlink ==
    /\ Step("symlink", "temp")
    /\ fs' \in {fs, fs \cup ({Link} \cap Paths)}
    /\ Still

\* mkstemp(), write(), close() and unlink() of a file in /tmp.
TempFile == Step("temp", "unlink") /\ UNCHANGED fs /\ Still

UnlinkLink ==
    /\ Step("unlink", "rmdir_2")
    /\ fs' = fs \ {Link}
    /\ Still

\* rmdir() removes an empty directory only.
Rmdir(from, p, to) ==
    /\ Step(from, to)
    /\ fs' = IF Exists(p) /\ Within[p] \cap fs = {} THEN fs \ {p} ELSE fs
    /\ Still

\* Seeded fault: the outermost directory is removed first.
RemoveTreeOutside ==
    \/ Rmdir("rmdir_2", "test_directory", "rmdir_1")
    \/ Rmdir("rmdir_1", "subdir1", "rmdir")
    \/ Rmdir("rmdir", "subdir2", "cleaned_up")

RemoveTree ==
    \/ Rmdir("rmdir_2", "subdir2", "rmdir_1")
    \/ Rmdir("rmdir_1", "subdir1", "rmdir")
    \/ Rmdir("rmdir", "test_directory", "cleaned_up")

Program ==
    \/ List
    \/ MakeTree
    \/ Walk
    \/ GetCwd
    \/ ChangeDir
    \/ ChangeBack
    \/ Symlink
    \/ TempFile
    \/ UnlinkLink
    \/ RemoveTree

\* The run is killed and the program started once more, in the same directory.
Crash ==
    /\ crashes < MaxCrashes
    /\ crashes' = crashes + 1
    /\ pc' = "list" /\ cwd' = "top" /\ original' = "unset"
    /\ UNCHANGED <<fs, strayed>>

\* Another program puts a file into subdir1.
ForeignFile ==
    /\ "subdir1" \in fs
    /\ fs' = fs \cup {"foreign"}
    /\ UNCHANGED <<pc, cwd, original, strayed, crashes>>

Next == Program \/ Crash \/ ForeignFile

Spec == Init /\ [][Next]_vars

-----------------------------------------------------------------------------
\* "Cleaned up test directories" (line 200) is true: of the tree and the link
\* nothing is left, neither of this run nor of those that were killed before it,
\* whichever mkdir() or symlink() failed, unless the program could not find its
\* way back (line 143, which takes what getcwd() may not have filled in) or
\* somebody put a file of his own into the tree.  That file is never lost with
\* the directory it is in.
CleanedUp ==
    /\ pc = "cleaned_up" /\ ~strayed /\ "foreign" \notin fs => fs = {}
    /\ "foreign" \in fs => {"test_directory", "subdir1"} \subseteq fs
=============================================================================
