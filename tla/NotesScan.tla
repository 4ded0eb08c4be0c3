------------------------------ MODULE NotesScan -----------------------------
(***************************************************************************)
(* The polls of the notes adapter: Scan (src/internal/notes/notes.go)      *)
(* lists each directory and then opens what it listed, file by file, while *)
(* notes are written, edited, replaced and moved away; pollOnce            *)
(* (poller.go) stores what could be read and warns of what could not.      *)
(***************************************************************************)
EXTENDS SequencesExt, FiniteSets, Naturals

CONSTANTS
    Dirs,       \* the watched directories, in the order of the configuration
    Names,      \* the files that end in .md and do not begin with a dot
    Absent,     \* no file
    MaxEdits    \* bound: what happens in the directories

\* A directory is one by its label, which no other has (config.go:529-538).
Assumptions ==
    /\ Dirs \in Seq(Range(Dirs))
    /\ \A i, j \in DOMAIN Dirs : Dirs[i] = Dirs[j] => i = j
    /\ Absent \notin Names \union {"note", "edited", "big", "locked", "fifo", "hidden"}
    /\ MaxEdits \in Nat

Paths == Range(Dirs) \X Names

\* A file is a note, one of several contents; a note over the size that is
\* read; one that may not be read; or no regular file, such as a FIFO.
Contents == {"note", "edited"}
Files == Contents \union {"big", "locked", "fifo", Absent}
Unread == {"big", "locked"}

\* What a problem is about: a file, or a directory itself.
Itself(d) == <<d, Absent>>
Subjects == Range(Dirs) \X (Names \union {Absent})

VARIABLES
    disk,       \* disk[path]: the file
    closed,     \* the directories that cannot be read
    changes,    \* how often the directories have changed
    todo,       \* the directories still to be listed
    listed,     \* the files of the directory being read that are still to be
    scanned,    \* the items so far
    trouble,    \* the problems so far: paths, and directories
    scanning,   \* a scan is on
    notes,      \* the items on the board
    problems,   \* what the status warns of
    were        \* ghost: were[path]: what the file has been during this scan

dirs == <<disk, closed, changes>>
vars == <<disk, closed, changes, todo, listed, scanned, trouble, scanning,
          notes, problems, were>>

TypeOK ==
    /\ disk \in [Paths -> Files] /\ closed \subseteq Range(Dirs)
    /\ changes \in 0 .. MaxEdits /\ scanning \in BOOLEAN
    /\ todo \in Seq(Range(Dirs)) /\ listed \subseteq Paths
    /\ scanned \subseteq [path : Paths, is : Contents]
    /\ notes \subseteq [path : Paths, is : Contents]
    /\ trouble \subseteq Subjects /\ problems \subseteq Subjects
    /\ were \in [Paths -> SUBSET (Files \union {"hidden"})]

Nothing == [p \in Paths |-> {}]

Init ==
    /\ disk = [p \in Paths |-> Absent] /\ closed = {} /\ changes = 0
    /\ todo = <<>> /\ listed = {} /\ scanned = {} /\ trouble = {} /\ scanning = FALSE
    /\ notes = {} /\ problems = {} /\ were = Nothing

-----------------------------------------------------------------------------
(* The directories                                                         *)

\* What a path is to somebody who wants to read it.
Seen(p) == IF p[1] \in closed THEN "hidden" ELSE disk[p]

Changes ==
    /\ changes < MaxEdits
    /\ changes' = changes + 1
    /\ were' = IF scanning THEN [p \in Paths |-> were[p] \union {Seen(p)'}] ELSE were
    /\ UNCHANGED <<todo, listed, scanned, trouble, scanning, notes, problems>>

\* A file is written, replaced, or deleted.
Write(p, file) ==
    /\ disk[p] # file
    /\ disk' = [disk EXCEPT ![p] = file] /\ UNCHANGED closed
    /\ Changes

\* A directory goes away, or its permissions do, or they return.
OpenOrClose(d) ==
    /\ closed' = IF d \in closed THEN closed \ {d} ELSE closed \union {d}
    /\ UNCHANGED disk
    /\ Changes

-----------------------------------------------------------------------------
(* Scan                                                                    *)

Begin ==
    /\ ~scanning
    /\ scanning' = TRUE /\ todo' = Dirs
    /\ were' = [p \in Paths |-> {Seen(p)}]
    /\ UNCHANGED <<dirs, listed, scanned, trouble, notes, problems>>

\* os.ReadDir, or the problem that it is.
ReadDir ==
    /\ scanning /\ listed = {} /\ todo # <<>>
    /\ todo' = Tail(todo)
    /\ listed' = {p \in Paths : p[1] = Head(todo) /\ Seen(p) \notin {"hidden", Absent}}
    /\ trouble' = trouble \union {Itself(d) : d \in closed \intersect {Head(todo)}}
    /\ UNCHANGED <<dirs, scanned, scanning, notes, problems, were>>

\* Variant of Trouble: a file that is too big is passed over.
TroubleOf(p) == Seen(p) \in {"locked", "hidden"}

\* What readNote reports rather than passes over: a file that has gone since
\* the listing and one that is not regular are no trouble.
Trouble(p) == Seen(p) \in Unread \union {"hidden"}

\* One note is opened, checked and read through one handle.  A directory that
\* is gone takes its files along, one that is only locked does not.
Read(p) ==
    /\ scanning /\ p \in listed
    /\ listed' = listed \ {p}
    /\ scanned' = scanned \union
            {n \in [path : {p}, is : Contents] : n.is = Seen(p)}
    /\ \/ trouble' = trouble \union {q \in {p} : Trouble(q)}
       \/ Seen(p) = "hidden" /\ UNCHANGED trouble
    /\ UNCHANGED <<dirs, todo, scanning, notes, problems, were>>

\* The list replaces the source; a scan never fails as a whole.
Store ==
    /\ scanning /\ listed = {} /\ todo = <<>>
    /\ notes' = scanned /\ problems' = trouble
    /\ scanned' = {} /\ trouble' = {} /\ were' = Nothing
    /\ scanning' = FALSE
    /\ UNCHANGED <<dirs, todo, listed>>

Next ==
    \/ Begin \/ ReadDir \/ Store
    \/ \E p \in Paths : Read(p)
    \/ \E p \in Paths, file \in Files : Write(p, file)
    \/ \E d \in Range(Dirs) : OpenOrClose(d)

Spec == Init /\ [][Next]_vars

-----------------------------------------------------------------------------
(* Properties                                                              *)

\* Scan, notes.go:43-95, and README.md:663-701: whatever happens to the files
\* while they are read, a scan shows each note that was one all through it,
\* says of each file that was unreadable all through it, or its directory,
\* that it was, and shows nothing that was not there.
ScanIsOfWhatWasThere ==
    [][Store => \A p \in Paths :
          LET items == {n \in notes' : n.path = p}
          IN  /\ Cardinality(items) <= 1
              /\ \A n \in items : n.is \in were[p]
              /\ were[p] \subseteq Contents => items # {}
              /\ were[p] \subseteq Unread => p \in problems'
              /\ were[p] = {"hidden"} => Itself(p[1]) \in problems']_vars
=============================================================================
