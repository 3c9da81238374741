---------------------------- MODULE ConfigStore ----------------------------
(***************************************************************************)
(* container.py: one file of docker-mailserver's config directory, read,   *)
(* replaced and deleted by shell commands run with `docker exec`.          *)
(*                                                                         *)
(* Replacing runs `cat > "$1.tmp" && mv "$1.tmp" "$1"`: the content comes  *)
(* on stdin in chunks, the temporary name is the same for every writer.    *)
(* Names point to inodes and a process that has opened an inode keeps it,  *)
(* whatever happens to the name.                                           *)
(*                                                                         *)
(* Proc is a command in the container.  When its client gives up           *)
(* (subprocess timeout) the command goes on with the input it got so far.  *)
(***************************************************************************)
EXTENDS Integers, Sequences, FiniteSets

CONSTANTS
    Procs,        \* commands that can run together
    Docs,         \* contents a request can write
    NoDoc,        \* no content
    Length        \* the number of chunks of each document

ASSUME ConstantsOK ==
    /\ IsFiniteSet(Procs)
    /\ NoDoc \notin Docs
    /\ Length \in [Docs -> Nat \ {0}]

\* Enough for the file, its temporary name and what each process has open.
Inodes == 1 .. Cardinality(Procs) + 2
Chunk == {c \in Docs \X Nat : c[2] \in 1 .. Length[c[1]]}
Hole == <<NoDoc, 0>>   \* bytes never written, before a later offset

Content(d) == [i \in 1 .. Length[d] |-> <<d, i>>]
\* The document a content is, NoDoc for none of them.
DocOf(c) == IF \E d \in Docs : c = Content(d)
            THEN CHOOSE d \in Docs : c = Content(d) ELSE NoDoc

VARIABLES
    inode,   \* inode -> its content
    path,    \* the inode the file name points to, 0 when absent
    tmp,     \* the same for the temporary name
    proc,    \* each command
    apart    \* history: no two writes have overlapped so far, and no client
             \* has given up on a write

vars == <<inode, path, tmp, proc, apart>>

Process == [op : {"none", "read", "write", "delete"},
            at : {"idle", "open", "copy", "read", "done"},
            doc : Docs \cup {NoDoc},
            fd : Inodes \cup {0},         \* the inode it has open
            pos : Nat,                    \* its offset in it
            len : Nat,                    \* chunks its stdin will deliver
            got : Seq(Chunk \cup {Hole}), \* what it has read
            heard : BOOLEAN]              \* its client waits for it

Idle == [op |-> "none", at |-> "idle", doc |-> NoDoc, fd |-> 0, pos |-> 0,
         len |-> 0, got |-> <<>>, heard |-> FALSE]

TypeOK ==
    /\ inode \in [Inodes -> Seq(Chunk \cup {Hole})]
    /\ path \in Inodes \cup {0} /\ tmp \in Inodes \cup {0}
    /\ proc \in [Procs -> Process]
    /\ apart \in BOOLEAN

-----------------------------------------------------------------------------

Running(p) == proc[p].at \notin {"idle", "done"}
Writing == {p \in Procs : Running(p) /\ proc[p].op = "write"}
InUse == {path, tmp} \cup {proc[p].fd : p \in Procs}

Update(p, r) == proc' = [proc EXCEPT ![p] = r]
Finish(p) == Update(p, [proc[p] EXCEPT !.at = "done", !.fd = 0, !.pos = 0,
                                       !.len = 0, !.heard = FALSE])

\* Mutant: a write carries no document.
BeginEmpty(p) ==
    /\ ~Running(p)
    /\ Update(p, [Idle EXCEPT !.op = "write", !.at = "open", !.len = 1,
                              !.heard = TRUE])
    /\ UNCHANGED <<inode, path, tmp, apart>>

\* A request starts a command.
Begin(p) ==
    /\ ~Running(p)
    /\ LET r == [Idle EXCEPT !.at = "open", !.heard = TRUE]
       IN  \/ /\ \E op \in {"read", "delete"} : Update(p, [r EXCEPT !.op = op])
              /\ UNCHANGED apart
           \/ /\ \E d \in Docs :
                   Update(p, [r EXCEPT !.op = "write", !.doc = d,
                                       !.len = Length[d]])
              /\ apart' = (apart /\ Writing = {})
    /\ UNCHANGED <<inode, path, tmp>>

\* Mutant: the content is copied to the file itself.
OpenTmpInPlace(p) ==
    /\ proc[p].at = "open" /\ proc[p].op = "write"
    /\ LET i == IF path # 0 THEN path ELSE CHOOSE j \in Inodes : j \notin InUse
       IN  /\ path' = i
           /\ inode' = [inode EXCEPT ![i] = <<>>]
           /\ Update(p, [proc[p] EXCEPT !.at = "copy", !.fd = i])
    /\ UNCHANGED <<tmp, apart>>

\* `> "$tmp"` creates the temporary file, or truncates the one there is.
OpenTmp(p) ==
    /\ proc[p].at = "open" /\ proc[p].op = "write"
    /\ LET i == IF tmp # 0 THEN tmp ELSE CHOOSE j \in Inodes : j \notin InUse
       IN  /\ tmp' = i
           /\ inode' = [inode EXCEPT ![i] = <<>>]
           /\ Update(p, [proc[p] EXCEPT !.at = "copy", !.fd = i])
    /\ UNCHANGED <<path, apart>>

\* A chunk written at an offset, beyond the end or over what is there.
Put(c, pos, x) ==
    [i \in 1 .. (IF Len(c) > pos THEN Len(c) ELSE pos + 1) |->
        IF i = pos + 1 THEN x ELSE IF i <= Len(c) THEN c[i] ELSE Hole]

Copy(p) ==
    LET r == proc[p]
    IN  /\ r.at = "copy" /\ r.pos < r.len
        /\ inode' = [inode EXCEPT ![r.fd] = Put(@, r.pos, <<r.doc, r.pos + 1>>)]
        /\ Update(p, [r EXCEPT !.pos = @ + 1])
        /\ UNCHANGED <<path, tmp, apart>>

\* stdin is at its end: mv.  It fails when another writer moved the file.
Move(p) ==
    /\ proc[p].at = "copy" /\ proc[p].pos = proc[p].len
    /\ \/ /\ tmp # 0
          /\ path' = tmp
          /\ tmp' = 0
       \/ /\ tmp = 0
          /\ UNCHANGED <<path, tmp>>
    /\ Finish(p)
    /\ UNCHANGED <<inode, apart>>

Remove(p) ==
    /\ proc[p].at = "open" /\ proc[p].op = "delete"
    /\ path' = 0
    /\ Finish(p)
    /\ UNCHANGED <<inode, tmp, apart>>

\* cat on a missing file reads as an empty one.
OpenRead(p) ==
    /\ proc[p].at = "open" /\ proc[p].op = "read"
    /\ IF path = 0
       THEN Finish(p)
       ELSE Update(p, [proc[p] EXCEPT !.at = "read", !.fd = path])
    /\ UNCHANGED <<inode, path, tmp, apart>>

\* Mutant: every chunk is read from the file that has the name at the time.
ReadChunkByName(p) ==
    LET r == proc[p]
    IN  /\ r.at = "read"
        /\ IF path # 0 /\ r.pos < Len(inode[path])
           THEN Update(p, [r EXCEPT !.pos = @ + 1,
                             !.got = Append(@, inode[path][r.pos + 1])])
           ELSE Finish(p)
        /\ UNCHANGED <<inode, path, tmp, apart>>

ReadChunk(p) ==
    LET r == proc[p]
    IN  /\ r.at = "read"
        /\ IF r.pos < Len(inode[r.fd])
           THEN Update(p, [r EXCEPT !.pos = @ + 1,
                             !.got = Append(@, inode[r.fd][r.pos + 1])])
           ELSE Finish(p)
        /\ UNCHANGED <<inode, path, tmp, apart>>

\* The client is killed: the command's stdin ends with what was delivered.
GiveUp(p) ==
    LET r == proc[p]
    IN  /\ Running(p) /\ r.heard
        /\ \/ r.op = "read" /\ Update(p, Idle)
           \/ r.op = "delete" /\ Update(p, [r EXCEPT !.heard = FALSE])
           \/ /\ r.op = "write"
              /\ \E n \in r.pos .. r.len :
                   Update(p, [r EXCEPT !.heard = FALSE, !.len = n])
        /\ apart' = (apart /\ r.op # "write")
        /\ UNCHANGED <<inode, path, tmp>>

-----------------------------------------------------------------------------

Init ==
    /\ inode = [i \in Inodes |-> <<>>]
    /\ path = 0
    /\ tmp = 0
    /\ proc = [p \in Procs |-> Idle]
    /\ apart = TRUE

Step(p) ==
    \/ Begin(p) \/ OpenTmp(p) \/ Copy(p) \/ Move(p) \/ Remove(p)
    \/ OpenRead(p) \/ ReadChunk(p) \/ GiveUp(p)

Next == \E p \in Procs : Step(p)

Spec == Init /\ [][Next]_vars

-----------------------------------------------------------------------------

Whole == path = 0 \/ DocOf(inode[path]) # NoDoc

\* Until two writes overlap or a client gives up on one, the file holds the
\* whole of a document whenever anything looks at it (write_config).
WholeWhileApart == apart => Whole

\* The abstract call each command is: a write or a deletion happens when the
\* name changes, a read when it opens the file.
File == INSTANCE AtomicFile WITH
    Calls <- Procs,
    value <- IF path = 0 THEN NoDoc ELSE DocOf(inode[path]),
    call <- [p \in Procs |->
               LET r == proc[p]
               IN  [op  |-> r.op,
                    doc |-> r.doc,
                    at  |-> CASE r.at = "idle" -> "idle"
                              [] r.at \in {"open", "copy"} -> "called"
                              [] r.at \in {"read", "done"} -> "done",
                    saw |-> CASE r.at = "read" -> DocOf(inode[r.fd])
                              [] r.at = "done" /\ r.op = "read" -> DocOf(r.got)
                              [] OTHER -> NoDoc]]

\* Until then the file is an atomic register: readers get the whole of one
\* document, the one the file held when they opened it, and a write or a
\* deletion takes effect once, also when its client has given up on it.
FileSpec == File!Init /\ [][apart' => File!Next]_(File!vars)

\* "so docker-mailserver's file watcher never observes a half-written file"
\* (write_config).  It does not hold when writes overlap.
NeverHalfWritten == Whole
=============================================================================
