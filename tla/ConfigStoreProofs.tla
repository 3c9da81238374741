-------------------------- MODULE ConfigStoreProofs --------------------------
(***************************************************************************)
(* What write_config promises for any number of commands and documents of  *)
(* any lengths, as long as no two writes overlap and no client gives up on *)
(* one: the file holds a whole document, and the commands implement the    *)
(* atomic file the services take it for.                                   *)
(*                                                                         *)
(* The invariant says where the pieces are: the temporary name belongs to  *)
(* the one writer that copies, its inode holds as many chunks as were      *)
(* copied, and the inodes of readers are apart from it.                    *)
(***************************************************************************)
EXTENDS ConfigStore, FiniteSetTheorems, SequenceTheorems, TLAPS

Bytes == Chunk \cup {Hole}

-----------------------------------------------------------------------------
(* Documents *)

\* A function from 1..n is a sequence.
LEMMA Sequence ==
    ASSUME NEW n \in Nat, NEW S, NEW f \in [1 .. n -> S]
    PROVE  f \in Seq(S) /\ Len(f) = n
BY SeqDef

LEMMA Contents ==
    ASSUME NEW d \in Docs
    PROVE  /\ Length[d] \in Nat /\ Length[d] >= 1
           /\ Content(d) \in Seq(Bytes) /\ Len(Content(d)) = Length[d]
           /\ \A i \in 1 .. Length[d] : Content(d)[i] = <<d, i>>
<1>1. Length[d] \in Nat /\ Length[d] >= 1
  BY ConstantsOK
<1>2. \A i \in 1 .. Length[d] : <<d, i>> \in Bytes
  BY <1>1 DEF Bytes, Chunk
<1>3. Content(d) \in [1 .. Length[d] -> Bytes]
  BY <1>2 DEF Content
<1> QED BY <1>1, <1>3, Sequence DEF Content

\* A document is known by its content, and no document is empty.
LEMMA DocOfContent ==
    /\ \A d \in Docs : DocOf(Content(d)) = d
    /\ DocOf(<<>>) = NoDoc
<1>1. \A d, e \in Docs : Content(d) = Content(e) => d = e
  <2>1. SUFFICES ASSUME NEW d \in Docs, NEW e \in Docs, Content(d) = Content(e) PROVE d = e
    OBVIOUS
  <2>2. Content(d)[1] = <<d, 1>> /\ Content(e)[1] = <<e, 1>>
    BY Contents
  <2> QED BY <2>1, <2>2
<1>2. \A d \in Docs : Content(d) # <<>>
  BY Contents
<1> QED BY <1>1, <1>2 DEF DocOf

-----------------------------------------------------------------------------
(* Inodes *)

\* When nothing has the temporary name, there is an inode that nothing uses.
LEMMA FreeInode ==
    ASSUME NEW p \in Procs, proc \in [Procs -> Process], path \in Inodes \cup {0}, tmp = 0
    PROVE  \E j \in Inodes : j \notin InUse
<1> DEFINE n == Cardinality(Procs)
           fds == {proc[q].fd : q \in Procs}
           fd == [q \in Procs |-> proc[q].fd]
<1>1. n \in Nat /\ IsFiniteSet(Procs)
  BY FS_CardinalityType, ConstantsOK
<1>2. fd \in Surjection(Procs, fds)
  BY DEF Surjection
<1>3. IsFiniteSet(fds) /\ Cardinality(fds) <= n
  <2> HIDE DEF fd, fds
  <2> QED BY <1>1, <1>2, FS_Surjection
<1>4. IsFiniteSet(fds \cup {path}) /\ Cardinality(fds \cup {path}) <= n + 1
  <2> HIDE DEF n, fds
  <2>1. Cardinality(fds) \in Nat
    BY <1>3, FS_CardinalityType
  <2>2. /\ IsFiniteSet(fds \cup {path})
        /\ Cardinality(fds \cup {path}) = IF path \in fds THEN Cardinality(fds)
                                                       ELSE Cardinality(fds) + 1
    BY <1>3, FS_AddElement
  <2> QED BY <1>1, <1>3, <2>1, <2>2
<1>5. IsFiniteSet(Inodes) /\ Cardinality(Inodes) = n + 2
  BY <1>1, FS_Interval DEF Inodes
<1>6. ~(Inodes \subseteq fds \cup {path})
  <2> HIDE DEF fds
  <2> QED BY <1>1, <1>4, <1>5, FS_Subset, FS_CardinalityType
<1>7. 0 \notin Inodes
  BY DEF Inodes
<1> QED BY <1>6, <1>7 DEF InUse

-----------------------------------------------------------------------------
(* Types *)

\* What a command has at each stage.
StageOK(r) ==
    /\ r.at = "idle" <=> r.op = "none"
    /\ r.doc # NoDoc <=> r.op = "write"
    /\ r.op = "write" => r.len <= Length[r.doc]
    /\ r.at = "open" => r.fd = 0 /\ r.pos = 0 /\ r.got = <<>>
    /\ r.at = "copy" => r.op = "write" /\ r.fd \in Inodes /\ r.pos <= r.len
    /\ r.at = "read" => r.op = "read" /\ r.fd \in Inodes

Typed == TypeOK /\ \A p \in Procs : StageOK(proc[p])

LEMMA IdleTyped == Idle \in Process /\ StageOK(Idle)
<1>1. <<>> \in Seq(Chunk \cup {Hole})
  BY EmptySeq
<1> QED BY <1>1 DEF Idle, Process, StageOK

LEMMA Numbers ==
    ASSUME NEW r \in Process, StageOK(r)
    PROVE  /\ r.pos \in Nat /\ r.len \in Nat
           /\ r.op = "write" => r.doc \in Docs /\ Length[r.doc] \in Nat
<1>1. r.pos \in Nat /\ r.len \in Nat /\ r.doc \in Docs \cup {NoDoc}
  BY DEF Process
<1>2. r.op = "write" => r.doc # NoDoc
  BY DEF StageOK
<1> QED BY <1>1, <1>2, ConstantsOK

\* A command that ends keeps its operation, its document and what it has read.
LEMMA Finished ==
    ASSUME NEW r \in Process, StageOK(r), r.op # "none"
    PROVE  LET q == [r EXCEPT !.at = "done", !.fd = 0, !.pos = 0, !.len = 0, !.heard = FALSE]
           IN  q \in Process /\ StageOK(q) /\ q.at = "done"
                 /\ q.op = r.op /\ q.doc = r.doc /\ q.got = r.got
<1> DEFINE q == [r EXCEPT !.at = "done", !.fd = 0, !.pos = 0, !.len = 0, !.heard = FALSE]
<1>1. q \in Process /\ q.at = "done" /\ q.op = r.op /\ q.doc = r.doc /\ q.got = r.got /\ q.len = 0
  BY DEF Process
<1>2. r.op = "write" => 0 <= Length[r.doc]
  BY Numbers
<1>3. (r.doc # NoDoc <=> r.op = "write")
  BY DEF StageOK
<1> HIDE DEF q
<1>4. StageOK(q)
  BY <1>1, <1>2, <1>3 DEF StageOK
<1> QED BY <1>1, <1>4 DEF q

\* A chunk put into a sequence of chunks gives one.
LEMMA PutTyped ==
    ASSUME NEW c \in Seq(Bytes), NEW pos \in Nat, NEW x \in Bytes
    PROVE  /\ Put(c, pos, x) \in Seq(Bytes)
           /\ Len(c) = pos => /\ Len(Put(c, pos, x)) = pos + 1
                             /\ Put(c, pos, x)[pos + 1] = x
                             /\ \A i \in 1 .. pos : Put(c, pos, x)[i] = c[i]
<1> DEFINE n == IF Len(c) > pos THEN Len(c) ELSE pos + 1
<1>1. n \in Nat /\ Len(c) \in Nat
  BY LenProperties
<1>2. \A i \in 1 .. n : (IF i = pos + 1 THEN x ELSE IF i <= Len(c) THEN c[i] ELSE Hole) \in Bytes
  BY <1>1, ElementOfSeq DEF Bytes
<1>3. Put(c, pos, x) \in [1 .. n -> Bytes]
  BY <1>2 DEF Put
<1>4. Put(c, pos, x) \in Seq(Bytes) /\ Len(Put(c, pos, x)) = n
  BY <1>1, <1>3, Sequence
<1> QED BY <1>1, <1>4 DEF Put

\* The inode that OpenTmp takes: that of the temporary name, or one nothing uses.
LEMMA OpenedInode ==
    ASSUME Typed, NEW p \in Procs, OpenTmp(p)
    PROVE  \E i \in Inodes :
             /\ tmp' = i /\ inode' = [inode EXCEPT ![i] = <<>>]
             /\ proc' = [proc EXCEPT ![p] = [proc[p] EXCEPT !.at = "copy", !.fd = i]]
             /\ tmp = 0 => i \notin InUse
<1> DEFINE i == IF tmp # 0 THEN tmp ELSE CHOOSE j \in Inodes : j \notin InUse
<1>1. i \in Inodes /\ (tmp = 0 => i \notin InUse)
  <2>1. CASE tmp # 0
    BY <2>1 DEF Typed, TypeOK
  <2>2. CASE tmp = 0
    BY <2>2, FreeInode DEF Typed, TypeOK
  <2> QED BY <2>1, <2>2
<1> QED BY <1>1 DEF OpenTmp, Update

\* Every step gives its command another record, and nothing else changes hands.
LEMMA OwnRecord ==
    ASSUME Typed, NEW p \in Procs, Step(p)
    PROVE  \E r \in Process : proc' = [proc EXCEPT ![p] = r] /\ StageOK(r)
<1> DEFINE r == proc[p]
<1>1. r \in Process /\ StageOK(r)
  BY DEF Typed, TypeOK
<1>2. CASE Begin(p)
  <2>1. PICK op \in {"read", "delete"} :
          Update(p, [[Idle EXCEPT !.at = "open", !.heard = TRUE] EXCEPT !.op = op])
        \/ \E d \in Docs : Update(p, [[Idle EXCEPT !.at = "open", !.heard = TRUE]
                                       EXCEPT !.op = "write", !.doc = d, !.len = Length[d]])
    BY <1>2 DEF Begin
  <2>2. LET q == [[Idle EXCEPT !.at = "open", !.heard = TRUE] EXCEPT !.op = op]
        IN  q \in Process /\ StageOK(q)
    BY IdleTyped DEF Idle, Process, StageOK
  <2>3. ASSUME NEW d \in Docs
        PROVE  LET q == [[Idle EXCEPT !.at = "open", !.heard = TRUE]
                           EXCEPT !.op = "write", !.doc = d, !.len = Length[d]]
               IN  q \in Process /\ StageOK(q)
    <3> DEFINE q == [[Idle EXCEPT !.at = "open", !.heard = TRUE]
                           EXCEPT !.op = "write", !.doc = d, !.len = Length[d]]
    <3>1. Length[d] \in Nat /\ Length[d] <= Length[d] /\ d # NoDoc
      BY ConstantsOK
    <3>2. q \in Process
      BY <3>1, IdleTyped DEF Process
    <3>3. /\ q.op = "write" /\ q.at = "open" /\ q.doc = d /\ q.len = Length[d]
          /\ q.fd = 0 /\ q.pos = 0 /\ q.got = <<>>
      BY DEF Idle
    <3> HIDE DEF q
    <3>4. StageOK(q)
      BY <3>1, <3>3 DEF StageOK
    <3> QED BY <3>2, <3>4 DEF q
  <2> QED BY <2>1, <2>2, <2>3 DEF Update
<1>3. CASE OpenTmp(p)
  <2>1. PICK i \in Inodes : proc' = [proc EXCEPT ![p] = [r EXCEPT !.at = "copy", !.fd = i]]
    BY <1>3, OpenedInode
  <2>2. r.op = "write" /\ r.at = "open"
    BY <1>3 DEF OpenTmp
  <2>3. [r EXCEPT !.at = "copy", !.fd = i] \in Process /\ StageOK([r EXCEPT !.at = "copy", !.fd = i])
    <3> DEFINE q == [r EXCEPT !.at = "copy", !.fd = i]
    <3>1. q \in Process /\ q.at = "copy" /\ q.fd = i /\ q.op = r.op /\ q.doc = r.doc
            /\ q.pos = r.pos /\ q.len = r.len
      BY <1>1 DEF Process
    <3>2. r.pos <= r.len /\ r.len <= Length[r.doc] /\ r.doc # NoDoc
      BY <1>1, <2>2, Numbers DEF StageOK
    <3> HIDE DEF q
    <3>3. StageOK(q)
      BY <2>2, <3>1, <3>2 DEF StageOK
    <3> QED BY <3>1, <3>3 DEF q
  <2> QED BY <2>1, <2>3
<1>4. CASE Copy(p)
  <2>1. [r EXCEPT !.pos = @ + 1] \in Process /\ StageOK([r EXCEPT !.pos = @ + 1])
    BY <1>1, <1>4 DEF Copy, Process, StageOK
  <2> QED BY <1>4, <2>1 DEF Copy, Update
<1>5. ASSUME Finish(p), r.op # "none"
      PROVE  \E q \in Process : proc' = [proc EXCEPT ![p] = q] /\ StageOK(q)
  BY <1>1, <1>5, Finished DEF Finish, Update
<1>6. CASE Move(p) \/ Remove(p)
  BY <1>1, <1>5, <1>6 DEF Move, Remove, StageOK
<1>7. CASE OpenRead(p)
  <2>1. CASE path = 0
    BY <1>1, <1>5, <1>7, <2>1 DEF OpenRead, StageOK
  <2>2. CASE path # 0
    <3>1. LET q == [r EXCEPT !.at = "read", !.fd = path]
          IN  q \in Process /\ StageOK(q)
      BY <1>1, <1>7, <2>2 DEF OpenRead, Process, StageOK, Typed, TypeOK
    <3> QED BY <1>7, <2>2, <3>1 DEF OpenRead, Update
  <2> QED BY <2>1, <2>2
<1>8. CASE ReadChunk(p)
  <2>0. r.at = "read"
    BY <1>8 DEF ReadChunk
  <2>1. CASE ~(r.pos < Len(inode[r.fd]))
    BY <1>1, <1>5, <1>8, <2>1 DEF ReadChunk, StageOK
  <2>2. CASE r.pos < Len(inode[r.fd])
    <3>1. inode[r.fd] \in Seq(Chunk \cup {Hole}) /\ r.pos \in Nat
      BY <1>1, <1>8 DEF ReadChunk, StageOK, Typed, TypeOK, Process
    <3>2. inode[r.fd][r.pos + 1] \in Chunk \cup {Hole}
      BY <2>2, <3>1, ElementOfSeq, LenProperties
    <3> DEFINE more == Append(r.got, inode[r.fd][r.pos + 1])
    <3>3. more \in Seq(Chunk \cup {Hole})
      BY <1>1, <3>2 DEF Process
    <3> HIDE DEF more
    <3>4. LET q == [r EXCEPT !.pos = @ + 1, !.got = more]
          IN  q \in Process /\ StageOK(q)
      <4>1. r.pos + 1 \in Nat
        BY <3>1
      <4> HIDE DEF r
      <4> QED BY <1>1, <2>0, <3>3, <4>1 DEF Process, StageOK
    <3> QED BY <1>8, <2>2, <3>4 DEF ReadChunk, Update, more
  <2> QED BY <2>1, <2>2
<1>9. CASE GiveUp(p)
  <2>1. CASE Update(p, Idle)
    BY <2>1, IdleTyped DEF Update
  <2>2. CASE Update(p, [r EXCEPT !.heard = FALSE])
    <3>1. [r EXCEPT !.heard = FALSE] \in Process /\ StageOK([r EXCEPT !.heard = FALSE])
      BY <1>1 DEF Process, StageOK
    <3> QED BY <2>2, <3>1 DEF Update
  <2>3. CASE \E n \in r.pos .. r.len : Update(p, [r EXCEPT !.heard = FALSE, !.len = n])
    <3>1. PICK n \in r.pos .. r.len : Update(p, [r EXCEPT !.heard = FALSE, !.len = n])
      BY <2>3
    <3> DEFINE q == [r EXCEPT !.heard = FALSE, !.len = n]
    <3>2. n \in Nat /\ r.pos <= n /\ n <= r.len
      BY <1>1, Numbers
    <3>3. q \in Process /\ q.at = r.at /\ q.fd = r.fd /\ q.op = r.op /\ q.doc = r.doc
            /\ q.pos = r.pos /\ q.got = r.got /\ q.len = n
      BY <1>1, <3>2 DEF Process
    <3>4. r.op = "write" => n <= Length[r.doc]
      BY <1>1, <3>2, Numbers DEF StageOK
    <3> HIDE DEF q
    <3>5. StageOK(q)
      BY <1>1, <3>2, <3>3, <3>4 DEF StageOK
    <3> QED BY <3>1, <3>3, <3>5 DEF Update, q
  <2> QED BY <1>9, <2>1, <2>2, <2>3 DEF GiveUp
<1> QED BY <1>2, <1>3, <1>4, <1>6, <1>7, <1>8, <1>9 DEF Step

LEMMA TypedInit == Init => Typed
<1> SUFFICES ASSUME Init PROVE Typed
  OBVIOUS
<1>1. <<>> \in Seq(Chunk \cup {Hole})
  BY EmptySeq
<1> QED BY <1>1, IdleTyped DEF Init, Typed, TypeOK

LEMMA TypedFiles ==
    ASSUME Typed, NEW p \in Procs, Step(p)
    PROVE  /\ inode' \in [Inodes -> Seq(Chunk \cup {Hole})]
           /\ path' \in Inodes \cup {0} /\ tmp' \in Inodes \cup {0} /\ apart' \in BOOLEAN
<1> USE DEF Typed, TypeOK
<1>1. CASE OpenTmp(p)
  <2>1. PICK i \in Inodes : tmp' = i /\ inode' = [inode EXCEPT ![i] = <<>>]
    BY <1>1, OpenedInode
  <2>2. <<>> \in Seq(Chunk \cup {Hole})
    BY EmptySeq
  <2> QED BY <1>1, <2>1, <2>2 DEF OpenTmp
<1>2. CASE Copy(p)
  <2> DEFINE r == proc[p]
             put == Put(inode[r.fd], r.pos, <<r.doc, r.pos + 1>>)
  <2>1. r \in Process /\ StageOK(r) /\ r.fd \in Inodes /\ r.op = "write"
    BY <1>2 DEF Copy, StageOK
  <2>2. /\ r.pos \in Nat /\ r.len \in Nat /\ r.doc \in Docs /\ Length[r.doc] \in Nat
        /\ inode[r.fd] \in Seq(Chunk \cup {Hole})
    BY <2>1, Numbers
  <2>3. CASE <<r.doc, r.pos + 1>> \in Bytes
    <3>1. put \in Seq(Chunk \cup {Hole})
      BY <2>2, <2>3, PutTyped DEF Bytes
    <3> QED BY <1>2, <3>1 DEF Copy
  <2>4. <<r.doc, r.pos + 1>> \in Bytes
    <3>1. r.pos + 1 \in 1 .. Length[r.doc]
      <4>1. r.pos < r.len /\ r.len <= Length[r.doc]
        BY <1>2, <2>1 DEF Copy, StageOK
      <4> HIDE DEF r
      <4> QED BY <2>2, <4>1
    <3> QED BY <2>2, <3>1 DEF Bytes, Chunk
  <2> QED BY <2>3, <2>4
<1>3. CASE Move(p)
  BY <1>3 DEF Move
<1>4. CASE Begin(p) \/ Remove(p) \/ OpenRead(p) \/ ReadChunk(p) \/ GiveUp(p)
  BY <1>4 DEF Begin, Remove, OpenRead, ReadChunk, GiveUp
<1> QED BY <1>1, <1>2, <1>3, <1>4 DEF Step

LEMMA TypedStep == Typed /\ [Next]_vars => Typed'
<1> SUFFICES ASSUME Typed, [Next]_vars PROVE Typed'
  OBVIOUS
<1>1. ASSUME NEW p \in Procs, Step(p) PROVE Typed'
  <2>1. PICK r \in Process : proc' = [proc EXCEPT ![p] = r] /\ StageOK(r)
    BY <1>1, OwnRecord
  <2>2. proc' \in [Procs -> Process] /\ \A q \in Procs : StageOK(proc'[q])
    BY <2>1 DEF Typed, TypeOK
  <2> QED BY <1>1, <2>2, TypedFiles DEF Typed, TypeOK
<1>2. CASE UNCHANGED vars
  BY <1>2 DEF vars, Typed, TypeOK
<1> QED BY <1>1, <1>2 DEF Next

\* TypeOK: names point to inodes or nowhere, inodes hold chunks and holes, and a
\* command that copies or reads has an inode open (write_config, read_config).
THEOREM Types == Spec => []TypeOK
<1>1. Spec => []Typed
  BY TypedInit, TypedStep, PTL DEF Spec
<1>2. Typed => TypeOK
  BY DEF Typed
<1> QED BY <1>1, <1>2, PTL

-----------------------------------------------------------------------------
(* The file while writes are apart *)

Sole == \A p, q \in Writing : p = q

\* A writer's client will deliver the whole document.
Delivered == \A p \in Writing : proc[p].len = Length[proc[p].doc]

\* The writer that copies has the temporary file, with what it has copied.
CopyOK ==
    \A p \in Procs : LET r == proc[p] IN
        r.at = "copy" => /\ r.fd = tmp
                         /\ Len(inode[r.fd]) = r.pos
                         /\ \A i \in 1 .. r.pos : inode[r.fd][i] = <<r.doc, i>>

\* A reader has a whole document open, which no writer will touch.
ReadOK ==
    \A p \in Procs : LET r == proc[p] IN
        r.at = "read" => /\ r.fd # tmp
                         /\ \E d \in Docs : inode[r.fd] = Content(d)
                         /\ Len(r.got) = r.pos /\ r.pos <= Len(inode[r.fd])
                         /\ \A i \in 1 .. r.pos : r.got[i] = inode[r.fd][i]

TmpOK == tmp # 0 => tmp # path /\ \E p \in Procs : proc[p].at = "copy"

FileOK == path # 0 => \E d \in Docs : inode[path] = Content(d)

Apart == Sole /\ Delivered /\ CopyOK /\ ReadOK /\ TmpOK /\ FileOK

LEMMA Ended ==
    ASSUME Typed, NEW p \in Procs, Finish(p), proc[p].at # "idle"
    PROVE  \E r : /\ proc' = [proc EXCEPT ![p] = r] /\ r.at = "done"
                  /\ r.op = proc[p].op /\ r.doc = proc[p].doc /\ r.got = proc[p].got
<1>1. proc[p] \in Process /\ StageOK(proc[p]) /\ proc[p].op # "none"
  BY DEF Typed, TypeOK, StageOK
<1> QED BY <1>1, Finished DEF Finish, Update

\* Steps that touch no inode, of a command that ends up neither copying nor reading.
LEMMA Quiet ==
    ASSUME Typed, Apart, NEW p \in Procs, NEW r, proc' = [proc EXCEPT ![p] = r],
           UNCHANGED <<inode, tmp>>, path' = path \/ path' = 0,
           proc[p].at # "copy", r.at \in {"idle", "open", "done"},
           r.at = "open" /\ r.op = "write" => r.len = Length[r.doc] /\ Writing \subseteq {p}
    PROVE  Apart'
<1>1. proc'[p] = r /\ \A q \in Procs \ {p} : proc'[q] = proc[q]
  BY DEF Typed, TypeOK
<1>2. Sole' /\ Delivered'
  BY <1>1 DEF Apart, Sole, Delivered, Writing, Running
<1>3. CopyOK' /\ ReadOK'
  BY <1>1 DEF Apart, CopyOK, ReadOK
<1>4. TmpOK' /\ FileOK'
  BY <1>1 DEF Apart, TmpOK, FileOK
<1> QED BY <1>2, <1>3, <1>4 DEF Apart

\* A writer that starts while writes are apart finds no temporary file.
LEMMA TmpFree ==
    ASSUME Typed, Apart, NEW p \in Procs, OpenTmp(p)
    PROVE  tmp = 0 /\ \A q \in Procs : proc[q].at # "copy"
<1>1. proc[p].at = "open" /\ p \in Writing
  BY DEF OpenTmp, Writing, Running
<1>2. \A q \in Procs : proc[q].at = "copy" => q \in Writing
  BY DEF Typed, StageOK, Writing, Running
<1>3. \A q \in Procs : proc[q].at # "copy"
  BY <1>1, <1>2 DEF Apart, Sole
<1> QED BY <1>3 DEF Apart, TmpOK

LEMMA OpenTmpApart ==
    ASSUME Typed, Apart, NEW p \in Procs, OpenTmp(p)
    PROVE  Apart'
<1>1. proc[p].at = "open" /\ proc[p].op = "write" /\ p \in Writing
  BY DEF OpenTmp, Writing, Running
<1>2. tmp = 0 /\ \A q \in Procs : proc[q].at # "copy"
  BY TmpFree
<1>4. PICK i \in Inodes :
        /\ tmp' = i /\ inode' = [inode EXCEPT ![i] = <<>>]
        /\ proc' = [proc EXCEPT ![p] = [proc[p] EXCEPT !.at = "copy", !.fd = i]]
        /\ i \notin InUse
  BY <1>2, OpenedInode
<1>5. /\ proc[p] \in Process /\ proc[p].pos = 0
      /\ \A q \in Procs : proc[q].fd # i
      /\ path # i /\ path' = path /\ i # 0
  BY <1>1, <1>4 DEF Typed, TypeOK, StageOK, InUse, OpenTmp, Inodes
<1>6. /\ proc'[p].at = "copy" /\ proc'[p].fd = i /\ proc'[p].pos = 0 /\ proc'[p].op = "write"
      /\ proc'[p].len = proc[p].len /\ proc'[p].doc = proc[p].doc
      /\ \A q \in Procs \ {p} : proc'[q] = proc[q]
  BY <1>1, <1>4, <1>5 DEF Process, Typed, TypeOK
<1>7. inode'[i] = <<>> /\ \A j \in Inodes : j # i => inode'[j] = inode[j]
  BY <1>4 DEF Typed, TypeOK
<1>8. Sole' /\ Delivered'
  BY <1>1, <1>6 DEF Apart, Sole, Delivered, Writing, Running
<1>9. CopyOK'
  BY <1>2, <1>4, <1>6, <1>7 DEF CopyOK
<1>10. ReadOK'
  <2>1. SUFFICES ASSUME NEW q \in Procs, proc'[q].at = "read"
                 PROVE  q # p /\ proc'[q] = proc[q] /\ inode'[proc[q].fd] = inode[proc[q].fd]
                        /\ proc[q].fd # tmp'
    BY <1>6 DEF ReadOK, Apart
  <2>2. q # p /\ proc'[q] = proc[q] /\ proc[q].fd \in Inodes
    BY <1>6, <2>1 DEF Typed, StageOK
  <2> QED BY <1>4, <1>5, <1>7, <2>2
<1>11. TmpOK' /\ FileOK'
  BY <1>4, <1>5, <1>6, <1>7 DEF Apart, TmpOK, FileOK, Typed, TypeOK
<1> QED BY <1>8, <1>9, <1>10, <1>11 DEF Apart

LEMMA CopyApart ==
    ASSUME Typed, Apart, NEW p \in Procs, Copy(p)
    PROVE  Apart' /\ \A j \in Inodes : j # tmp => inode'[j] = inode[j]
<1> DEFINE r == proc[p]
           i == r.fd
           x == <<r.doc, r.pos + 1>>
<1>1. r \in Process /\ StageOK(r) /\ r.at = "copy" /\ r.op = "write" /\ i \in Inodes /\ r.pos < r.len
  BY DEF Copy, Typed, TypeOK, StageOK
<1>2. r.pos \in Nat /\ r.len \in Nat /\ r.doc \in Docs /\ Length[r.doc] \in Nat
        /\ r.len <= Length[r.doc]
  BY <1>1, Numbers DEF StageOK
<1>3. i = tmp /\ Len(inode[i]) = r.pos /\ \A k \in 1 .. r.pos : inode[i][k] = <<r.doc, k>>
  BY <1>1 DEF Apart, CopyOK
<1>4. inode[i] \in Seq(Bytes) /\ x \in Bytes
  <2>1. r.pos + 1 \in 1 .. Length[r.doc]
    <3> HIDE DEF r
    <3> QED BY <1>1, <1>2
  <2> QED BY <1>1, <1>2, <2>1 DEF Bytes, Chunk, Typed, TypeOK
<1>5. inode' = [inode EXCEPT ![i] = Put(inode[i], r.pos, x)]
  BY DEF Copy
<1>6. /\ Len(inode'[i]) = r.pos + 1
      /\ inode'[i][r.pos + 1] = x
      /\ \A k \in 1 .. r.pos : inode'[i][k] = <<r.doc, k>>
  BY <1>1, <1>2, <1>3, <1>4, <1>5, PutTyped DEF Typed, TypeOK
<1>7. \A j \in Inodes : j # i => inode'[j] = inode[j]
  BY <1>5 DEF Typed, TypeOK
<1>8. /\ proc'[p] = [r EXCEPT !.pos = r.pos + 1]
      /\ \A q \in Procs \ {p} : proc'[q] = proc[q]
      /\ path' = path /\ tmp' = tmp
  BY DEF Copy, Update, Typed, TypeOK
<1>9. /\ proc'[p].at = "copy" /\ proc'[p].op = "write" /\ proc'[p].fd = i /\ proc'[p].pos = r.pos + 1
      /\ proc'[p].len = r.len /\ proc'[p].doc = r.doc
  BY <1>1, <1>8 DEF Process
<1>10. Sole' /\ Delivered'
  <2>1. Writing' = Writing
    BY <1>1, <1>8, <1>9 DEF Writing, Running
  <2>2. \A q \in Writing : proc'[q].len = proc[q].len /\ proc'[q].doc = proc[q].doc
    BY <1>8, <1>9 DEF Writing
  <2> QED BY <2>1, <2>2 DEF Apart, Sole, Delivered
<1>11. CopyOK'
  <2>1. SUFFICES ASSUME NEW q \in Procs, proc'[q].at = "copy"
                 PROVE  /\ proc'[q].fd = tmp'
                        /\ Len(inode'[proc'[q].fd]) = proc'[q].pos
                        /\ \A k \in 1 .. proc'[q].pos : inode'[proc'[q].fd][k] = <<proc'[q].doc, k>>
    BY DEF CopyOK
  <2>2. q = p
    <3>1. CASE q # p
      <4>1. q \in Writing /\ p \in Writing
        BY <1>1, <1>8, <2>1, <3>1 DEF Typed, StageOK, Writing, Running
      <4> QED BY <3>1, <4>1 DEF Apart, Sole
    <3> QED BY <3>1
  <2>3. \A k \in 1 .. r.pos + 1 : inode'[i][k] = <<r.doc, k>>
    <3>1. \A k \in 1 .. r.pos + 1 : k = r.pos + 1 \/ k \in 1 .. r.pos
      BY <1>2
    <3> QED BY <1>6, <3>1
  <2> HIDE DEF i, r
  <2> QED BY <1>3, <1>6, <1>8, <1>9, <2>2, <2>3
<1>12. ReadOK'
  <2>1. SUFFICES ASSUME NEW q \in Procs, proc'[q].at = "read"
                 PROVE  proc'[q] = proc[q] /\ inode'[proc[q].fd] = inode[proc[q].fd]
    BY <1>8 DEF ReadOK, Apart
  <2>2. proc'[q] = proc[q] /\ proc[q].fd \in Inodes
    BY <1>8, <1>9, <2>1 DEF Typed, StageOK
  <2>3. proc[q].fd # i
    BY <1>3, <2>1, <2>2 DEF Apart, ReadOK
  <2> QED BY <1>7, <2>2, <2>3
<1>13. TmpOK' /\ FileOK'
  BY <1>1, <1>3, <1>7, <1>8, <1>9 DEF Apart, TmpOK, FileOK, Typed, TypeOK, Inodes
<1> QED BY <1>3, <1>7, <1>10, <1>11, <1>12, <1>13 DEF Apart

\* What the temporary file holds once everything has been copied.
LEMMA Copied ==
    ASSUME Typed, Apart, NEW p \in Procs, Move(p)
    PROVE  /\ tmp \in Inodes /\ proc[p].doc \in Docs /\ proc[p].op = "write"
           /\ inode[tmp] = Content(proc[p].doc)
<1> DEFINE r == proc[p]
<1>1. r \in Process /\ StageOK(r) /\ r.at = "copy" /\ r.pos = r.len
  BY DEF Move, Typed, TypeOK
<1>2. r.op = "write" /\ r.fd \in Inodes /\ r.doc \in Docs
  BY <1>1, Numbers DEF StageOK
<1>3. r.fd = tmp /\ Len(inode[r.fd]) = r.pos /\ \A k \in 1 .. r.pos : inode[r.fd][k] = <<r.doc, k>>
  BY <1>1 DEF Apart, CopyOK
<1>4. r.len = Length[r.doc]
  BY <1>1, <1>2 DEF Apart, Delivered, Writing, Running
<1>5. inode[tmp] \in Seq(Bytes)
  BY <1>2, <1>3 DEF Bytes, Typed, TypeOK
<1> HIDE DEF r
<1>6. inode[tmp] = Content(r.doc)
  BY <1>1, <1>2, <1>3, <1>4, <1>5, Contents, SeqEqual
<1> QED BY <1>2, <1>3, <1>6 DEF r

LEMMA MoveApart ==
    ASSUME Typed, Apart, NEW p \in Procs, Move(p)
    PROVE  Apart' /\ path' = tmp /\ tmp # 0
<1>1. tmp \in Inodes /\ proc[p].doc \in Docs /\ inode[tmp] = Content(proc[p].doc)
        /\ p \in Writing
  BY Copied DEF Move, Writing, Running
<1>2. tmp # 0 /\ path' = tmp /\ tmp' = 0 /\ inode' = inode
  BY <1>1 DEF Move, Inodes
<1>3. PICK r : /\ proc' = [proc EXCEPT ![p] = r] /\ r.at = "done"
  BY Ended DEF Move
<1>4. proc'[p] = r /\ \A q \in Procs \ {p} : proc'[q] = proc[q] /\ proc[q].at # "copy"
  <2>1. ASSUME NEW q \in Procs \ {p} PROVE proc[q].at # "copy"
    <3>1. q \in Writing => q = p
      BY <1>1 DEF Apart, Sole
    <3> QED BY <2>1, <3>1 DEF Typed, StageOK, Writing, Running
  <2> QED BY <1>3, <2>1 DEF Typed, TypeOK
<1>5. Sole' /\ Delivered'
  BY <1>3, <1>4 DEF Apart, Sole, Delivered, Writing, Running
<1>6. CopyOK'
  BY <1>3, <1>4 DEF CopyOK
<1>7. ReadOK'
  <2>1. SUFFICES ASSUME NEW q \in Procs, proc'[q].at = "read"
                 PROVE  proc'[q] = proc[q] /\ proc[q].fd # 0
    BY <1>2 DEF ReadOK, Apart
  <2> QED BY <1>3, <1>4, <2>1 DEF Typed, StageOK, Inodes
<1>8. TmpOK' /\ FileOK'
  BY <1>1, <1>2 DEF TmpOK, FileOK
<1> QED BY <1>2, <1>5, <1>6, <1>7, <1>8 DEF Apart

LEMMA OpenReadApart ==
    ASSUME Typed, Apart, NEW p \in Procs, OpenRead(p), path # 0
    PROVE  Apart'
<1> DEFINE r == [proc[p] EXCEPT !.at = "read", !.fd = path]
<1>1. proc[p] \in Process /\ StageOK(proc[p]) /\ proc[p].at = "open" /\ proc[p].op = "read"
  BY DEF OpenRead, Typed, TypeOK
<1>2. r.at = "read" /\ r.fd = path /\ r.pos = 0 /\ r.got = <<>> /\ r.op = "read"
  BY <1>1 DEF Process, StageOK
<1>3. proc'[p] = r /\ \A q \in Procs \ {p} : proc'[q] = proc[q]
  BY DEF OpenRead, Update, Typed, TypeOK
<1>4. UNCHANGED <<inode, path, tmp>> /\ path \in Inodes /\ path # tmp
  BY DEF OpenRead, Apart, TmpOK, Typed, TypeOK
<1> HIDE DEF r
<1>5. Sole' /\ Delivered'
  BY <1>2, <1>3 DEF Apart, Sole, Delivered, Writing, Running
<1>6. CopyOK'
  BY <1>2, <1>3, <1>4 DEF Apart, CopyOK
<1>7. TmpOK' /\ FileOK'
  <2>1. \A q \in Procs : proc[q].at = "copy" => proc'[q].at = "copy"
    BY <1>1, <1>3
  <2> QED BY <1>4, <2>1 DEF Apart, TmpOK, FileOK
<1>8. ReadOK'
  <2>1. \E d \in Docs : inode[path] = Content(d)
    BY DEF Apart, FileOK
  <2>2. 0 <= Len(inode[path]) /\ Len(<<>>) = 0
    BY <2>1, Contents
  <2>3. \A q \in Procs : q # p => proc'[q] = proc[q]
    BY <1>3
  <2> QED BY <1>2, <1>3, <1>4, <2>1, <2>2, <2>3 DEF Apart, ReadOK
<1> QED BY <1>5, <1>6, <1>7, <1>8 DEF Apart

LEMMA ReadChunkApart ==
    ASSUME Typed, Apart, NEW p \in Procs, ReadChunk(p),
           proc[p].pos < Len(inode[proc[p].fd])
    PROVE  Apart'
<1> DEFINE r == proc[p]
           i == r.fd
           more == Append(r.got, inode[i][r.pos + 1])
           q == [r EXCEPT !.pos = @ + 1, !.got = more]
<1>1. r \in Process /\ StageOK(r) /\ r.at = "read" /\ r.op = "read" /\ i \in Inodes
        /\ r.got \in Seq(Bytes)
  BY DEF ReadChunk, Typed, TypeOK, StageOK, Process, Bytes
<1>2. /\ i # tmp /\ \E d \in Docs : inode[i] = Content(d)
      /\ Len(r.got) = r.pos /\ r.pos < Len(inode[i])
      /\ \A k \in 1 .. r.pos : r.got[k] = inode[i][k]
  BY <1>1 DEF Apart, ReadOK
<1>3. r.pos \in Nat /\ Len(inode[i]) \in Nat
  BY <1>1, <1>2, Numbers, Contents
<1>4. Len(more) = r.pos + 1 /\ \A k \in 1 .. r.pos + 1 : more[k] = inode[i][k]
  <2> DEFINE got == r.got
  <2>1. got \in Seq(Bytes) /\ Len(got) = r.pos /\ \A k \in 1 .. r.pos : got[k] = inode[i][k]
    BY <1>1, <1>2
  <2> HIDE DEF r, i, got
  <2> QED BY <1>3, <2>1 DEF got
<1>5. q.at = "read" /\ q.op = "read" /\ q.fd = i /\ q.pos = r.pos + 1 /\ q.got = more
  BY <1>1 DEF Process
<1>6. proc'[p] = q /\ \A t \in Procs \ {p} : proc'[t] = proc[t]
  BY DEF ReadChunk, Update, Typed, TypeOK
<1>7. UNCHANGED <<inode, path, tmp>>
  BY DEF ReadChunk
<1> HIDE DEF q, more
<1>8. Sole' /\ Delivered'
  BY <1>1, <1>5, <1>6 DEF Apart, Sole, Delivered, Writing, Running
<1>9. CopyOK' /\ TmpOK' /\ FileOK'
  BY <1>1, <1>5, <1>6, <1>7 DEF Apart, CopyOK, TmpOK, FileOK
<1>10. ReadOK'
  <2>1. \A t \in Procs : t # p => proc'[t] = proc[t]
    BY <1>6
  <2>2. r.pos + 1 <= Len(inode[i])
    BY <1>2, <1>3
  <2> HIDE DEF r, i
  <2> QED BY <1>2, <1>4, <1>5, <1>6, <1>7, <2>1, <2>2 DEF Apart, ReadOK
<1> QED BY <1>8, <1>9, <1>10 DEF Apart

LEMMA GiveUpKinds ==
    ASSUME Typed, NEW p \in Procs, GiveUp(p), proc[p].op # "write"
    PROVE  /\ proc[p].at \in {"open", "read"}
           /\ \/ proc[p].op = "read" /\ proc' = [proc EXCEPT ![p] = Idle]
              \/ /\ proc[p].op = "delete" /\ proc[p].at = "open"
                 /\ proc' = [proc EXCEPT ![p] = [proc[p] EXCEPT !.heard = FALSE]]
<1>1. proc[p].at \in {"open", "read"}
  BY DEF GiveUp, Running, Typed, TypeOK, StageOK, Process
<1>2. proc[p].op = "delete" => proc[p].at = "open"
  BY <1>1 DEF Typed, StageOK
<1> QED BY <1>1, <1>2 DEF GiveUp, Update

LEMMA ApartStep ==
    ASSUME Typed, Apart, NEW p \in Procs, Step(p), apart'
    PROVE  Apart'
<1>1. CASE Begin(p)
  <2>1. proc[p].at # "copy"
    BY <1>1 DEF Begin, Running
  <2>2. PICK r : /\ proc' = [proc EXCEPT ![p] = r] /\ r.at = "open"
                 /\ r.op = "write" => r.len = Length[r.doc] /\ Writing = {}
    <3>1. ASSUME NEW op \in {"read", "delete"}
          PROVE  LET q == [[Idle EXCEPT !.at = "open", !.heard = TRUE] EXCEPT !.op = op]
                 IN  q.at = "open" /\ q.op # "write"
      BY DEF Idle
    <3>2. ASSUME NEW d \in Docs
          PROVE  LET q == [[Idle EXCEPT !.at = "open", !.heard = TRUE]
                             EXCEPT !.op = "write", !.doc = d, !.len = Length[d]]
                 IN  q.at = "open" /\ q.len = Length[q.doc]
      BY DEF Idle
    <3> QED BY <1>1, <3>1, <3>2 DEF Begin, Update
  <2>3. UNCHANGED <<inode, path, tmp>>
    BY <1>1 DEF Begin
  <2> QED BY <2>1, <2>2, <2>3, Quiet
<1>2. ASSUME Finish(p), proc[p].at \in {"open", "read"}, UNCHANGED <<inode, tmp>>,
             path' = path \/ path' = 0
      PROVE  Apart'
  <2>1. PICK r : proc' = [proc EXCEPT ![p] = r] /\ r.at = "done"
    BY <1>2, Ended
  <2> QED BY <1>2, <2>1, Quiet
<1>3. CASE Remove(p)
  BY <1>2, <1>3 DEF Remove
<1>4. CASE OpenRead(p)
  BY <1>2, <1>4, OpenReadApart DEF OpenRead
<1>5. CASE ReadChunk(p)
  BY <1>2, <1>5, ReadChunkApart DEF ReadChunk
<1>6. CASE GiveUp(p)
  <2>1. proc[p].op # "write" /\ UNCHANGED <<inode, path, tmp>>
    BY <1>6 DEF GiveUp
  <2>2. CASE proc' = [proc EXCEPT ![p] = Idle]
    <3>1. Idle.at = "idle"
      BY DEF Idle
    <3> QED BY <1>6, <2>1, <2>2, <3>1, GiveUpKinds, Quiet
  <2>3. CASE proc[p].op = "delete" /\ proc' = [proc EXCEPT ![p] = [proc[p] EXCEPT !.heard = FALSE]]
    <3>1. LET r == [proc[p] EXCEPT !.heard = FALSE] IN r.at = proc[p].at /\ r.op = proc[p].op
      BY DEF Typed, TypeOK, Process
    <3> QED BY <1>6, <2>1, <2>3, <3>1, GiveUpKinds, Quiet
  <2> QED BY <1>6, <2>1, <2>2, <2>3, GiveUpKinds
<1> QED
  BY <1>1, <1>3, <1>4, <1>5, <1>6, OpenTmpApart, CopyApart, MoveApart DEF Step

LEMMA ApartOnly ==
    ASSUME NEW p \in Procs, Step(p), apart'
    PROVE  apart
BY DEF Step, Begin, OpenTmp, Copy, Move, Remove, OpenRead, ReadChunk, GiveUp

Inv == Typed /\ (apart => Apart)

LEMMA InvInit == Init => Inv
<1> SUFFICES ASSUME Init PROVE Apart
  BY TypedInit DEF Inv
<1>1. \A p \in Procs : proc[p].at = "idle" /\ ~Running(p)
  BY DEF Init, Idle, Running
<1> QED BY <1>1 DEF Init, Apart, Sole, Delivered, CopyOK, ReadOK, TmpOK, FileOK, Writing

LEMMA InvStep == Inv /\ [Next]_vars => Inv'
<1> SUFFICES ASSUME Inv, [Next]_vars, apart' PROVE Apart'
  BY TypedStep DEF Inv
<1>1. CASE UNCHANGED vars
  BY <1>1 DEF vars, Inv, Apart, Sole, Delivered, CopyOK, ReadOK, TmpOK, FileOK, Writing, Running
<1>2. ASSUME NEW p \in Procs, Step(p) PROVE Apart'
  BY <1>2, ApartOnly, ApartStep DEF Inv
<1> QED BY <1>1, <1>2 DEF Next

\* WholeWhileApart: as long as no two writes have overlapped and no client has
\* given up on one, the file holds a whole document at every moment (write_config).
THEOREM WholeFile == Spec => []WholeWhileApart
<1>1. Inv => WholeWhileApart
  BY DocOfContent, ConstantsOK DEF Inv, Apart, FileOK, WholeWhileApart, Whole
<1> QED BY <1>1, InvInit, InvStep, PTL DEF Spec

-----------------------------------------------------------------------------
(* The atomic file *)

\* What `File` maps its variables to.
Value == IF path = 0 THEN NoDoc ELSE DocOf(inode[path])

Ask(p) ==
    LET r == proc[p]
    IN  [op  |-> r.op,
         doc |-> r.doc,
         at  |-> CASE r.at = "idle" -> "idle"
                   [] r.at \in {"open", "copy"} -> "called"
                   [] r.at \in {"read", "done"} -> "done",
         saw |-> CASE r.at = "read" -> DocOf(inode[r.fd])
                   [] r.at = "done" /\ r.op = "read" -> DocOf(r.got)
                   [] OTHER -> NoDoc]

Asks == [p \in Procs |-> Ask(p)]

LEMMA AbstractBegin ==
    ASSUME NEW p \in Procs, Asks[p].at # "called", UNCHANGED Value,
           NEW op \in {"read", "write", "delete"}, NEW d \in Docs \cup {NoDoc},
           (op = "write") = (d # NoDoc),
           Asks' = [Asks EXCEPT ![p] = [op |-> op, doc |-> d, at |-> "called", saw |-> NoDoc]]
    PROVE  File!Next
<1>1. File!Begin(p)
  BY DEF File!Begin, Asks, Ask, Value
<1> QED BY <1>1 DEF File!Next

LEMMA AbstractHappen ==
    ASSUME NEW p \in Procs, NEW o, NEW d,
           Asks[p] = [op |-> o, doc |-> d, at |-> "called", saw |-> NoDoc],
           Value' = CASE o = "read" -> Value
                      [] o = "write" -> d
                      [] o = "delete" -> NoDoc,
           Asks' = [Asks EXCEPT ![p] = [op |-> o, doc |-> d, at |-> "done",
                                        saw |-> IF o = "read" THEN Value ELSE NoDoc]]
    PROVE  File!Next
<1> DEFINE saw == IF o = "read" THEN Value ELSE NoDoc
<1>1. ASSUME NEW r, NEW x, r \in [op : {o}, doc : {d}, at : {"called"}, saw : {NoDoc}]
      PROVE  [r EXCEPT !.at = "done", !.saw = x] = [op |-> o, doc |-> d, at |-> "done", saw |-> x]
  <2> DEFINE set == [op : {o}, doc : {d}, at : {"called", "done"}, saw : {NoDoc, x}]
             q == [r EXCEPT !.at = "done", !.saw = x]
             l == [op |-> o, doc |-> d, at |-> "done", saw |-> x]
  <2>1. r \in set
    BY <1>1
  <2>2. q \in set /\ q.op = o /\ q.doc = d /\ q.at = "done" /\ q.saw = x
    BY <2>1
  <2>3. l \in set /\ l.op = o /\ l.doc = d /\ l.at = "done" /\ l.saw = x
    OBVIOUS
  <2>4. \A e, f \in set : e.op = f.op /\ e.doc = f.doc /\ e.at = f.at /\ e.saw = f.saw => e = f
    OBVIOUS
  <2> HIDE DEF set, q, l
  <2>5. q = l
    BY <2>2, <2>3, <2>4
  <2> QED BY <2>5 DEF q, l
<1>2. Asks[p] \in [op : {o}, doc : {d}, at : {"called"}, saw : {NoDoc}]
  OBVIOUS
<1>3. Asks' = [Asks EXCEPT ![p] = [Asks[p] EXCEPT !.at = "done", !.saw = saw]]
  BY <1>1, <1>2
<1>4. [Asks EXCEPT ![p].at = "done", ![p].saw = saw]
        = [Asks EXCEPT ![p] = [Asks[p] EXCEPT !.at = "done", !.saw = saw]]
  <2> HIDE DEF saw
  <2> QED BY DEF Asks
<1>5. Asks[p].op = o /\ Asks[p].doc = d /\ Asks[p].at = "called"
  OBVIOUS
<1>6. File!Happen(p)
  BY <1>3, <1>4, <1>5 DEF File!Happen, Asks, Ask, Value
<1> QED BY <1>6 DEF File!Next

LEMMA AbstractForget ==
    ASSUME NEW p \in Procs, Asks[p].op = "read", UNCHANGED Value,
           Asks' = [Asks EXCEPT ![p] = [op |-> "none", doc |-> NoDoc, at |-> "idle", saw |-> NoDoc]]
    PROVE  File!Next
<1>1. File!Forget(p)
  BY DEF File!Forget, File!Unused, Asks, Ask, Value
<1> QED BY <1>1 DEF File!Next

LEMMA AbstractStutter ==
    ASSUME UNCHANGED <<Value, Asks>>
    PROVE  UNCHANGED File!vars
BY DEF File!vars, Asks, Ask, Value

\* While writes are apart, no step changes an inode that the file's name points
\* to or that a reader has open.
LEMMA Untouched ==
    ASSUME Typed, Apart, NEW p \in Procs, Step(p)
    PROVE  /\ path # 0 => inode'[path] = inode[path]
           /\ \A q \in Procs : proc[q].at = "read" => inode'[proc[q].fd] = inode[proc[q].fd]
<1> DEFINE Looked(j) ==
              \/ j = path /\ path # 0
              \/ \E q \in Procs : proc[q].at = "read" /\ j = proc[q].fd
<1>1. SUFFICES ASSUME NEW j, Looked(j) PROVE inode'[j] = inode[j]
  OBVIOUS
<1>2. j \in Inodes
  BY <1>1 DEF Typed, TypeOK, StageOK
<1>3. CASE OpenTmp(p)
  <2>1. PICK i \in Inodes : inode' = [inode EXCEPT ![i] = <<>>] /\ i \notin InUse
    BY <1>3, TmpFree, OpenedInode
  <2>2. j \in InUse
    BY <1>1 DEF InUse
  <2> QED BY <1>2, <2>1, <2>2 DEF Typed, TypeOK
<1>4. CASE Copy(p)
  <2>1. j # tmp
    BY <1>1 DEF Apart, TmpOK, ReadOK
  <2> QED BY <1>2, <1>4, <2>1, CopyApart
<1>5. CASE UNCHANGED inode
  BY <1>5
<1> QED BY <1>3, <1>4, <1>5 DEF Step, Begin, Move, Remove, OpenRead, ReadChunk, GiveUp

\* The other calls stay as they are.
LEMMA OtherAsks ==
    ASSUME Typed, Apart, NEW p \in Procs, Step(p), NEW q \in Procs, q # p
    PROVE  Ask(q)' = Ask(q)
<1>1. proc'[q] = proc[q]
  BY OwnRecord DEF Typed, TypeOK
<1>2. proc[q].at = "read" => inode'[proc[q].fd] = inode[proc[q].fd]
  BY Untouched
<1>3. proc[q].at = "read" => DocOf(inode[proc[q].fd])' = DocOf(inode[proc[q].fd])
  BY <1>1, <1>2 DEF DocOf, Content
<1> QED BY <1>1, <1>3 DEF Ask, DocOf, Content

\* What a call shows at each stage of its command.
LEMMA AskAt ==
    ASSUME NEW p \in Procs
    PROVE  /\ Ask(p).op = proc[p].op /\ Ask(p).doc = proc[p].doc
           /\ proc[p].at \in {"open", "copy"} =>
                Ask(p) = [op |-> proc[p].op, doc |-> proc[p].doc, at |-> "called", saw |-> NoDoc]
           /\ proc[p].at = "read" =>
                Ask(p) = [op |-> proc[p].op, doc |-> proc[p].doc, at |-> "done",
                          saw |-> DocOf(inode[proc[p].fd])]
           /\ proc[p].at = "done" =>
                Ask(p) = [op |-> proc[p].op, doc |-> proc[p].doc, at |-> "done",
                          saw |-> IF proc[p].op = "read" THEN DocOf(proc[p].got) ELSE NoDoc]
           /\ proc[p].at = "idle" =>
                Ask(p) = [op |-> proc[p].op, doc |-> proc[p].doc, at |-> "idle", saw |-> NoDoc]
BY DEF Ask

LEMMA AskAtNext ==
    ASSUME NEW p \in Procs
    PROVE  /\ proc'[p].at \in {"open", "copy"} =>
                Ask(p)' = [op |-> proc'[p].op, doc |-> proc'[p].doc, at |-> "called", saw |-> NoDoc]
           /\ proc'[p].at = "read" =>
                Ask(p)' = [op |-> proc'[p].op, doc |-> proc'[p].doc, at |-> "done",
                           saw |-> DocOf(inode'[proc'[p].fd])]
           /\ proc'[p].at = "done" =>
                Ask(p)' = [op |-> proc'[p].op, doc |-> proc'[p].doc, at |-> "done",
                           saw |-> IF proc'[p].op = "read" THEN DocOf(proc'[p].got) ELSE NoDoc]
           /\ proc'[p].at = "idle" =>
                Ask(p)' = [op |-> proc'[p].op, doc |-> proc'[p].doc, at |-> "idle", saw |-> NoDoc]
BY DEF Ask, DocOf, Content

\* A step that the abstract file does not see.
LEMMA Hidden ==
    ASSUME Typed, Apart, NEW p \in Procs, Step(p), path' = path, Ask(p)' = Ask(p)
    PROVE  UNCHANGED File!vars
<1>1. Value' = Value
  BY Untouched DEF Value, DocOf, Content
<1>2. Asks' = Asks
  BY OtherAsks DEF Asks
<1> QED BY <1>1, <1>2, AbstractStutter

\* A step at which a call happens.
LEMMA Happens ==
    ASSUME Typed, Apart, NEW p \in Procs, Step(p), proc[p].at \in {"open", "copy"},
           Ask(p)' = [op |-> proc[p].op, doc |-> proc[p].doc, at |-> "done",
                      saw |-> IF proc[p].op = "read" THEN Value ELSE NoDoc],
           Value' = CASE proc[p].op = "read" -> Value
                      [] proc[p].op = "write" -> proc[p].doc
                      [] proc[p].op = "delete" -> NoDoc
    PROVE  File!Next
<1>1. Asks[p] = [op |-> proc[p].op, doc |-> proc[p].doc, at |-> "called", saw |-> NoDoc]
  BY AskAt DEF Asks
<1>2. Asks' = [Asks EXCEPT ![p] = Ask(p)']
  BY OtherAsks DEF Asks
<1> QED BY <1>1, <1>2, AbstractHappen

\* A read that ends has read a whole document, the one it opened.
LEMMA ReadWhole ==
    ASSUME Typed, Apart, NEW p \in Procs, proc[p].at = "read",
           ~(proc[p].pos < Len(inode[proc[p].fd]))
    PROVE  proc[p].got = inode[proc[p].fd]
<1> DEFINE r == proc[p]
           i == r.fd
<1>1. r \in Process /\ StageOK(r) /\ i \in Inodes
  BY DEF Typed, TypeOK, StageOK
<1>2. /\ \E d \in Docs : inode[i] = Content(d)
      /\ Len(r.got) = r.pos /\ r.pos <= Len(inode[i])
      /\ \A k \in 1 .. r.pos : r.got[k] = inode[i][k]
  BY DEF Apart, ReadOK
<1>3. r.got \in Seq(Bytes) /\ inode[i] \in Seq(Bytes)
  BY <1>1 DEF Process, Bytes, Typed, TypeOK
<1>4. r.pos \in Nat /\ Len(inode[i]) \in Nat
  BY <1>1, <1>3, Numbers, LenProperties
<1>5. ~(r.pos < Len(inode[i]))
  OBVIOUS
<1> HIDE DEF r, i
<1>6. Len(r.got) = Len(inode[i])
  BY <1>2, <1>4, <1>5
<1>7. r.got = inode[i]
  BY <1>2, <1>3, <1>6, SeqEqual
<1> QED BY <1>7 DEF r, i

LEMMA BeginRefines ==
    ASSUME Typed, Apart, NEW p \in Procs, Begin(p)
    PROVE  File!Next
<1>1. Asks' = [Asks EXCEPT ![p] = Ask(p)'] /\ UNCHANGED Value
  BY OtherAsks DEF Asks, Begin, Step, Value, DocOf, Content
<1>2. Asks[p].at # "called"
  <2>1. proc[p].at = "idle" \/ proc[p].at = "done"
    BY DEF Begin, Running
  <2>2. Ask(p).at \in {"idle", "done"}
    BY <2>1, AskAt
  <2> QED BY <2>2 DEF Asks
<1>3. PICK op \in {"read", "write", "delete"}, d \in Docs \cup {NoDoc} :
        /\ (op = "write") = (d # NoDoc)
        /\ proc'[p].op = op /\ proc'[p].doc = d /\ proc'[p].at = "open"
  <2>1. ASSUME NEW op \in {"read", "delete"}
        PROVE  LET q == [[Idle EXCEPT !.at = "open", !.heard = TRUE] EXCEPT !.op = op]
               IN  q.at = "open" /\ q.op = op /\ q.doc = NoDoc
    BY DEF Idle
  <2>2. ASSUME NEW d \in Docs
        PROVE  LET q == [[Idle EXCEPT !.at = "open", !.heard = TRUE]
                           EXCEPT !.op = "write", !.doc = d, !.len = Length[d]]
               IN  q.at = "open" /\ q.op = "write" /\ q.doc = d
    BY DEF Idle
  <2>3. CASE \E op \in {"read", "delete"} :
               Update(p, [[Idle EXCEPT !.at = "open", !.heard = TRUE] EXCEPT !.op = op])
    BY <2>1, <2>3 DEF Update, Typed, TypeOK
  <2>4. CASE \E d \in Docs : Update(p, [[Idle EXCEPT !.at = "open", !.heard = TRUE]
                                        EXCEPT !.op = "write", !.doc = d, !.len = Length[d]])
    BY <2>2, <2>4, ConstantsOK DEF Update, Typed, TypeOK
  <2> QED BY <2>3, <2>4 DEF Begin
<1>4. Ask(p)' = [op |-> op, doc |-> d, at |-> "called", saw |-> NoDoc]
  BY <1>3, AskAtNext
<1> QED BY <1>1, <1>2, <1>3, <1>4, AbstractBegin

LEMMA MoveRefines ==
    ASSUME Typed, Apart, NEW p \in Procs, Move(p)
    PROVE  File!Next
<1>1. /\ proc[p].at = "copy" /\ proc[p].op = "write" /\ proc[p].doc \in Docs
      /\ path' = tmp /\ tmp # 0 /\ inode' = inode /\ inode[tmp] = Content(proc[p].doc)
  BY Copied, MoveApart DEF Move
<1>2. Value' = proc[p].doc
  <2>1. Value' = DocOf(inode[tmp])
    BY <1>1 DEF Value, DocOf, Content
  <2> QED BY <1>1, <2>1, DocOfContent
<1>3. proc'[p].at = "done" /\ proc'[p].op = proc[p].op /\ proc'[p].doc = proc[p].doc
  BY <1>1, Ended DEF Move, Typed, TypeOK
<1>4. Ask(p)' = [op |-> proc[p].op, doc |-> proc[p].doc, at |-> "done", saw |-> NoDoc]
  BY <1>1, <1>3, AskAtNext
<1> QED BY <1>1, <1>2, <1>4, Happens DEF Step

LEMMA RemoveRefines ==
    ASSUME Typed, Apart, NEW p \in Procs, Remove(p)
    PROVE  File!Next
<1>1. proc[p].at = "open" /\ proc[p].op = "delete" /\ path' = 0 /\ Value' = NoDoc
  BY DEF Remove, Value
<1>2. proc'[p].at = "done" /\ proc'[p].op = proc[p].op /\ proc'[p].doc = proc[p].doc
  BY <1>1, Ended DEF Remove, Typed, TypeOK
<1>3. Ask(p)' = [op |-> proc[p].op, doc |-> proc[p].doc, at |-> "done", saw |-> NoDoc]
  BY <1>1, <1>2, AskAtNext
<1> QED BY <1>1, <1>3, Happens DEF Step

LEMMA OpenReadRefines ==
    ASSUME Typed, Apart, NEW p \in Procs, OpenRead(p)
    PROVE  File!Next
<1>1. /\ proc[p] \in Process /\ proc[p].at = "open" /\ proc[p].op = "read" /\ proc[p].got = <<>>
      /\ path' = path /\ inode' = inode
  BY DEF OpenRead, Typed, TypeOK, StageOK
<1>2. Value' = Value
  BY <1>1 DEF Value, DocOf, Content
<1>3. Ask(p)' = [op |-> proc[p].op, doc |-> proc[p].doc, at |-> "done", saw |-> Value]
  <2>1. CASE path = 0
    <3>1. /\ proc'[p].at = "done" /\ proc'[p].op = "read" /\ proc'[p].doc = proc[p].doc
          /\ proc'[p].got = <<>>
      BY <1>1, <2>1, Ended DEF OpenRead, Typed, TypeOK
    <3> QED BY <1>1, <2>1, <3>1, AskAtNext, DocOfContent DEF Value
  <2>2. CASE path # 0
    <3>1. /\ proc'[p].at = "read" /\ proc'[p].op = "read" /\ proc'[p].doc = proc[p].doc
          /\ proc'[p].fd = path
      <4>1. proc'[p] = [proc[p] EXCEPT !.at = "read", !.fd = path]
        BY <2>2 DEF OpenRead, Update, Typed, TypeOK
      <4> QED BY <1>1, <4>1 DEF Process
    <3> QED BY <1>1, <2>2, <3>1, AskAtNext DEF Value
  <2> QED BY <2>1, <2>2
<1> QED BY <1>1, <1>2, <1>3, Happens DEF Step

\* The abstract file does not see a reader go on to the next chunk, nor its end.
LEMMA ReadChunkRefines ==
    ASSUME Typed, Apart, NEW p \in Procs, ReadChunk(p)
    PROVE  UNCHANGED File!vars
<1> DEFINE r == proc[p]
<1>1. r \in Process /\ r.at = "read" /\ r.op = "read" /\ path' = path /\ inode' = inode
  BY DEF ReadChunk, Typed, TypeOK, StageOK
<1>2. Ask(p) = [op |-> r.op, doc |-> r.doc, at |-> "done", saw |-> DocOf(inode[r.fd])]
  BY <1>1, AskAt
<1>3. CASE r.pos < Len(inode[r.fd])
  <2>1. proc'[p] = [r EXCEPT !.pos = @ + 1, !.got = Append(@, inode[r.fd][r.pos + 1])]
    BY <1>3 DEF ReadChunk, Update, Typed, TypeOK
  <2>2. /\ proc'[p].at = "read" /\ proc'[p].op = r.op /\ proc'[p].doc = r.doc
        /\ proc'[p].fd = r.fd
    BY <1>1, <2>1 DEF Process
  <2>3. Ask(p)' = Ask(p)
    BY <1>1, <1>2, <2>2, AskAtNext
  <2> QED BY <1>1, <2>3, Hidden DEF Step
<1>4. CASE ~(r.pos < Len(inode[r.fd]))
  <2>1. /\ proc'[p].at = "done" /\ proc'[p].op = r.op /\ proc'[p].doc = r.doc
        /\ proc'[p].got = r.got
    BY <1>1, <1>4, Ended DEF ReadChunk, Typed, TypeOK
  <2>2. r.got = inode[r.fd]
    BY <1>1, <1>4, ReadWhole
  <2>3. Ask(p)' = Ask(p)
    BY <1>1, <1>2, <2>1, <2>2, AskAtNext
  <2> QED BY <1>1, <2>3, Hidden DEF Step
<1> QED BY <1>3, <1>4

\* Nor does it see the temporary file.
LEMMA WriterRefines ==
    ASSUME Typed, Apart, NEW p \in Procs, OpenTmp(p) \/ Copy(p)
    PROVE  UNCHANGED File!vars
<1> DEFINE r == proc[p]
<1>1. r \in Process /\ r.at \in {"open", "copy"} /\ path' = path
  BY DEF OpenTmp, Copy, Typed, TypeOK
<1>2. proc'[p].at = "copy" /\ proc'[p].op = r.op /\ proc'[p].doc = r.doc
  <2>1. CASE OpenTmp(p)
    <3>1. PICK i \in Inodes : proc' = [proc EXCEPT ![p] = [r EXCEPT !.at = "copy", !.fd = i]]
      BY <2>1, OpenedInode
    <3>2. proc'[p] = [r EXCEPT !.at = "copy", !.fd = i]
      BY <3>1 DEF Typed, TypeOK
    <3> QED BY <1>1, <3>2 DEF Process
  <2>2. CASE Copy(p)
    <3>1. proc'[p] = [r EXCEPT !.pos = @ + 1] /\ r.at = "copy"
      BY <2>2 DEF Copy, Update, Typed, TypeOK
    <3> QED BY <1>1, <3>1 DEF Process
  <2> QED BY <2>1, <2>2
<1>3. Ask(p)' = Ask(p)
  BY <1>1, <1>2, AskAt, AskAtNext
<1> QED BY <1>1, <1>3, Hidden DEF Step

\* A client that gives up on a read forgets its call; a deletion is carried out
\* all the same.
LEMMA GiveUpRefines ==
    ASSUME Typed, Apart, NEW p \in Procs, GiveUp(p), apart'
    PROVE  [File!Next]_(File!vars)
<1>1. proc[p].op # "write" /\ path' = path /\ inode' = inode
  BY DEF GiveUp
<1>2. CASE proc[p].op = "read" /\ proc' = [proc EXCEPT ![p] = Idle]
  <2>1. proc'[p].at = "idle" /\ proc'[p].op = "none" /\ proc'[p].doc = NoDoc
    BY <1>2 DEF Idle, Typed, TypeOK
  <2>2. Ask(p)' = [op |-> "none", doc |-> NoDoc, at |-> "idle", saw |-> NoDoc]
    BY <2>1, AskAtNext
  <2>3. Asks' = [Asks EXCEPT ![p] = Ask(p)'] /\ Asks[p].op = "read"
    BY <1>2, OtherAsks, AskAt DEF Asks, Step
  <2>4. Value' = Value
    BY <1>1 DEF Value, DocOf, Content
  <2>5. File!Next
    BY <2>2, <2>3, <2>4, AbstractForget
  <2> QED BY <2>5
<1>3. CASE /\ proc[p].op = "delete" /\ proc[p].at = "open"
           /\ proc' = [proc EXCEPT ![p] = [proc[p] EXCEPT !.heard = FALSE]]
  <2>1. proc'[p].at = "open" /\ proc'[p].op = proc[p].op /\ proc'[p].doc = proc[p].doc
    BY <1>3 DEF Typed, TypeOK, Process
  <2>2. Ask(p)' = Ask(p)
    BY <1>3, <2>1, AskAt, AskAtNext
  <2>3. UNCHANGED File!vars
    BY <1>1, <2>2, Hidden DEF Step
  <2> QED BY <2>3
<1> QED BY <1>1, <1>2, <1>3, GiveUpKinds

LEMMA StepRefines ==
    ASSUME Inv, [Next]_vars
    PROVE  [apart' => File!Next]_(File!vars)
<1> SUFFICES ASSUME apart' PROVE [File!Next]_(File!vars)
  OBVIOUS
<1>1. CASE UNCHANGED vars
  <2>1. Value' = Value /\ Asks' = Asks
    BY <1>1 DEF vars, Value, Asks, Ask, DocOf, Content
  <2>2. UNCHANGED File!vars
    BY <2>1, AbstractStutter
  <2> QED BY <2>2
<1>2. ASSUME NEW p \in Procs, Step(p) PROVE [File!Next]_(File!vars)
  <2>1. Typed /\ Apart
    BY <1>2, ApartOnly DEF Inv
  <2>2. CASE Begin(p) \/ Move(p) \/ Remove(p) \/ OpenRead(p)
    <3>1. File!Next
      BY <2>1, <2>2, BeginRefines, MoveRefines, RemoveRefines, OpenReadRefines
    <3> QED BY <3>1
  <2>3. CASE OpenTmp(p) \/ Copy(p) \/ ReadChunk(p)
    <3>1. UNCHANGED File!vars
      BY <2>1, <2>3, WriterRefines, ReadChunkRefines
    <3> QED BY <3>1
  <2>4. CASE GiveUp(p)
    BY <2>1, <2>4, GiveUpRefines
  <2> QED BY <1>2, <2>2, <2>3, <2>4 DEF Step
<1> QED BY <1>1, <1>2 DEF Next

\* FileSpec: as long as no two writes have overlapped and no client has given up on
\* one, the commands implement AtomicFile: every read, replacement and deletion of
\* container.py happens at one instant.
THEOREM Refinement == Spec => FileSpec
<1>1. Init => File!Init
  BY DEF Init, File!Init, File!Unused, Idle
<1>2. Spec => []Inv
  BY InvInit, InvStep, PTL DEF Spec
<1>3. Inv /\ [Next]_vars => [apart' => File!Next]_(File!vars)
  BY StepRefines
<1> QED BY <1>1, <1>2, <1>3, PTL DEF Spec, FileSpec
=============================================================================
