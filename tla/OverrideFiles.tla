---------------------------- MODULE OverrideFiles ----------------------------
(***************************************************************************)
(* The files under override.d/ on the rspamd page.  The list is read by    *)
(* the constructor and by every save of the commands; a file is saved,     *)
(* deleted or created alone, and the answer is worked into the list the    *)
(* page holds by then: a save maps over the rows there are, a deletion     *)
(* filters them, a creation appends.  The buttons of a row are disabled by *)
(* the name a signal holds, which a request for another row overwrites.    *)
(*                                                                         *)
(* A row is "new" while it shows what the file holds, and "old" once the   *)
(* server has changed the file.                                            *)
(***************************************************************************)
EXTENDS Naturals, FiniteSets, Sequences, SequencesExt

CONSTANTS
  Files,     \* the names the files may have
  MaxAsked   \* bound: requests in flight

\* A name is no value of a signal.
ASSUME FilesApart == Files # {} /\ Files \cap {"off", "on", "every"} = {}

VARIABLES
  onDisk,   \* the files there are on the server
  listed,   \* for each name, the rows the list has for it
  signal,   \* the busy signals: "off", "on" or the name of a row
  asked,    \* requests in flight, oldest first
  told,     \* the files that the error banner, if any, is about
  doubted   \* files whose row is wrong in a known way: see Doubt

filesVars == <<onDisk, listed, signal, asked, told, doubted>>

RowOps == {"saveFile", "deleteFile", "createFile"}
WholeOps == {"load", "onSave"}

SignalOf == [load |-> "loading", onSave |-> "saving", saveFile |-> "savingFile",
             deleteFile |-> "deletingFile", createFile |-> "creatingFile"]

\* The files whose rows the answer of request `c` sets.
AboutFiles(c) == IF c.op \in WholeOps THEN Files ELSE {c.file}

\* `mixed`: files about which another request was in flight meanwhile.
FileRequest(op, file) ==
  [op |-> op, file |-> file, done |-> FALSE, mixed |-> {},
   got |-> [n \in IF op \in WholeOps THEN Files ELSE {file} |-> <<>>]]

\* The rows the server would answer for a file now.
HeldRows(n) == IF n \in onDisk THEN <<"new">> ELSE <<>>

RightRows(n) == listed[n] = HeldRows(n)

PendingFile(n) == \E i \in DOMAIN asked : n \in AboutFiles(asked[i])

\* After a step that ended a request which `mixed` others: the files still wrong of
\* which the banner said so until then, or whose requests overlapped.
Doubt(mixed) == doubted' = {n \in doubted \cup told \cup mixed : ~RightRows(n)'}

----------------------------------------------------------------------------
(* The page.                                                               *)

FilesInit ==
  /\ onDisk \in SUBSET Files
  /\ listed = [n \in Files |-> <<>>]
  /\ signal = [g \in {SignalOf[op] : op \in DOMAIN SignalOf} |->
                 IF g = "loading" THEN "on" ELSE "off"]
  /\ asked = <<FileRequest("load", "every")>>
  /\ told = {} /\ doubted = {}

\* The button is there and enabled; a name that is listed is refused.
Offered(op, n) ==
  /\ signal["loading"] = "off"
  /\ signal[SignalOf[op]] \notin {n, "on"}
  /\ op \in {"saveFile", "deleteFile"} => listed[n] # <<>>
  /\ op = "createFile" => listed[n] = <<>>

\* A request is sent, and the banner taken down.
AskFiles(op, n) ==
  LET new == FileRequest(op, n)
      Common(c) == AboutFiles(c) \cap AboutFiles(new)
      others == UNION {Common(asked[i]) : i \in DOMAIN asked}
  IN /\ Len(asked) < MaxAsked
     /\ Offered(op, n)
     /\ asked' = Append([i \in DOMAIN asked |-> [asked[i] EXCEPT !.mixed = @ \cup Common(asked[i])]],
                        [new EXCEPT !.mixed = others])
     /\ signal' = [signal EXCEPT ![SignalOf[op]] = IF op \in {"saveFile", "deleteFile"} THEN n ELSE "on"]
     /\ told' = {}
     /\ UNCHANGED <<onDisk, listed>>
     /\ Doubt({})

\* Commands, or a new name, are refused before anything is sent: another banner.
RefuseInput ==
  /\ \E op \in {"onSave", "createFile"} : signal["loading"] = "off" /\ signal[SignalOf[op]] = "off"
  /\ told' = {}
  /\ UNCHANGED <<onDisk, listed, signal, asked>>
  /\ Doubt({})

\* The server carries out request `i`; a file that is not there cannot be deleted.
Aged(rows) == [j \in DOMAIN rows |-> "old"]

ServeFile(i) ==
  LET c == asked[i]
      changed == IF c.op \in RowOps THEN {c.file} ELSE {}
      Older(n, rows) == IF n \in changed THEN Aged(rows) ELSE rows
  IN /\ ~c.done
     /\ c.op = "deleteFile" => c.file \in onDisk
     /\ onDisk' = IF c.op = "deleteFile" THEN onDisk \ changed ELSE onDisk \cup changed
     /\ listed' = [n \in Files |-> Older(n, listed[n])]
     /\ asked' = [j \in DOMAIN asked |->
                    IF j = i THEN [c EXCEPT !.done = TRUE, !.got = [n \in DOMAIN @ |-> HeldRows(n)']]
                    ELSE [asked[j] EXCEPT !.got = [n \in DOMAIN @ |-> Older(n, @[n])]]]
     /\ UNCHANGED <<signal, told>>
     /\ Doubt({})

\* Mutant: a deleted file stays in the list.
RowsKept(c, n) == IF c.op \in WholeOps THEN c.got[n] ELSE listed[n]

\* What the answer of request `c` makes of the rows of a file.
RowsAfter(c, n) ==
  CASE c.op \in WholeOps    -> c.got[n]
    [] c.op = "saveFile"    -> [j \in DOMAIN listed[n] |-> c.got[n][1]]
    [] c.op = "deleteFile"  -> <<>>
    [] c.op = "createFile"  -> listed[n] \o c.got[n]

LandFile(i) ==
  LET c == asked[i]
  IN /\ c.done
     /\ listed' = [n \in Files |-> IF n \in AboutFiles(c) THEN RowsAfter(c, n) ELSE listed[n]]
     /\ asked' = RemoveAt(asked, i)
     /\ signal' = [signal EXCEPT ![SignalOf[c.op]] = "off"]
     /\ UNCHANGED <<onDisk, told>>
     /\ Doubt(c.mixed)

\* A request fails, carried out or not: its message replaces that of the banner.
FailFile(i) ==
  LET c == asked[i]
  IN /\ told' = AboutFiles(c)
     /\ asked' = RemoveAt(asked, i)
     /\ signal' = [signal EXCEPT ![SignalOf[c.op]] = "off"]
     /\ UNCHANGED <<onDisk, listed>>
     /\ Doubt(c.mixed)

FilesNext ==
  \/ AskFiles("onSave", "every")
  \/ \E op \in RowOps, n \in Files : AskFiles(op, n)
  \/ RefuseInput
  \/ \E i \in DOMAIN asked : ServeFile(i) \/ LandFile(i) \/ FailFile(i)

----------------------------------------------------------------------------
(* Properties.                                                             *)

FilesTypeOK ==
  /\ onDisk \subseteq Files /\ told \subseteq Files /\ doubted \subseteq Files
  /\ \A n \in Files : listed[n] \in Seq({"new", "old"})
  /\ \A op \in DOMAIN SignalOf : signal[SignalOf[op]] \in {"off", "on"} \cup Files
  /\ \A i \in DOMAIN asked : asked[i].op \in DOMAIN SignalOf /\ asked[i].file \in Files \cup {"every"}

\* A file is shown as it is, or the banner says that something failed about it, or
\* a request about it is in flight.  What remains, however the requests for other
\* files overlap, is a file in doubt: two requests about it overlapped, or the
\* banner about it was taken down or replaced while its row was wrong.
FilesShown ==
  \A n \in Files : RightRows(n) \/ n \in told \/ PendingFile(n) \/ n \in doubted
=============================================================================
