------------------------------ MODULE Profiles ------------------------------
(***************************************************************************)
(* One call of ccontrol and the config file it reads.  ~/.ccontrol/config  *)
(* is a link to one of several profiles.  main opens it, reads it with     *)
(* suck_file, takes its fstat, waits for a lock, and asks file_altered     *)
(* whether to begin again.  Meanwhile editors save profiles, in place or   *)
(* by renaming a new file over the old, the applet moves the link, and     *)
(* ccontrol-init makes a profile line by line.  Times are in seconds.      *)
(*                                                                         *)
(* Calls do not change what they read, so one stands for all of them.      *)
(***************************************************************************)
EXTENDS Naturals

CONSTANTS
  Name,      \* names of profiles
  Default,   \* the one ccontrol-init makes
  Inode,     \* the files they may name
  None,
  Named,     \* what the names stand for at first
  Linked,    \* and which of them the config is
  First,     \* the first size of suck_file's buffer (16384)
  MaxLen,    \* bound on the length of a profile
  MaxEdits,  \* bound on the changes of files and links
  MaxTime    \* bound on the clock

ASSUME ConstantsOK ==
  /\ Default \in Name /\ Name # {} /\ Inode # {}
  /\ None \notin Inode /\ None \notin Name
  /\ Named \in [Name -> Inode] /\ Linked \in Name
  /\ First \in Nat \ {0} /\ MaxLen \in Nat \ {0}
  /\ MaxEdits \in Nat /\ MaxTime \in Nat

VARIABLES
  now,      \* the clock
  edits,    \* changes so far, the latest version of any text
  text,     \* per inode: the version and the length of what it holds
  written,  \* the versions that are whole texts
  time,     \* per inode: mtime and ctime
  entry,    \* what each name of a profile stands for
  link,     \* the profile ~/.ccontrol/config points to
  writing,  \* the inode somebody is writing, a piece at a time
  applet,   \* the profile the applet is about to link to
  init,     \* where ccontrol-init is
  pc,       \* where main is
  fd,       \* the file it has open
  buffer,   \* suck_file's: bytes read, its max, what is allocated, versions
  st,       \* main's stat of the file
  touched,  \* history: a file or link changed since the file was opened
  raced     \* history: the open file changed when fstat cannot tell

clock == <<now, edits>>
files == <<text, written, time, writing>>
links == <<entry, link, applet, init>>
call == <<pc, fd, buffer, st>>
history == <<touched, raced>>
vars == <<clock, files, links, call, history>>

Text == [version : Nat, len : Nat]
Time == [mtime : Nat, ctime : Nat]
NoStat == [ino |-> None, mtime |-> 0, ctime |-> 0]
NoBuffer == [size |-> 0, max |-> First, cap |-> First + 1, seen |-> {}]

\* All profiles exist, and the link points to one of them.
Init ==
  /\ now = 0 /\ edits = 0
  /\ text = [i \in Inode |-> [version |-> 0, len |-> 1]]
  /\ written = {0}
  /\ time = [i \in Inode |-> [mtime |-> 0, ctime |-> 0]]
  /\ writing = None
  /\ entry = Named /\ link = Linked
  /\ applet = None
  /\ init = "idle"
  /\ pc = "idle" /\ fd = None /\ buffer = NoBuffer /\ st = NoStat
  /\ touched = FALSE /\ raced = FALSE

\* What ~/.ccontrol/config stands for: nothing, too, if the link dangles.
Current == IF link = None THEN None ELSE entry[link]

-----------------------------------------------------------------------------
(* main, from again to the lock and back.                                  *)

Quiet == UNCHANGED <<clock, files, links>>

Call ==
  /\ pc = "idle"
  /\ pc' = "open"
  /\ Quiet /\ UNCHANGED <<fd, buffer, st, history>>

\* suck_file(-1) is NULL, and read_config_file says fatal("reading ").
Open ==
  /\ pc = "open"
  /\ pc' = IF Current = None THEN "failed" ELSE "read"
  /\ fd' = Current /\ buffer' = NoBuffer
  /\ touched' = FALSE /\ raced' = FALSE
  /\ Quiet /\ UNCHANGED st

\* read(fd, buffer + size, max - size) returns what is there.
Returned ==
  LET room == buffer.max - buffer.size
      rest == IF text[fd].len > buffer.size
                THEN text[fd].len - buffer.size ELSE 0
  IN  IF rest < room THEN rest ELSE room

\* Mutant: max grows and the buffer does not.
GrownNot(b) == [b EXCEPT !.max = @ * 3]
Grown(b) == [b EXCEPT !.max = @ * 3, !.cap = b.max * 3]

\* A read that fills the buffer is followed by another (max *= 2+1).
ReadMore ==
  /\ pc = "read"
  /\ Returned > 0
  /\ buffer.size + Returned = buffer.max
  /\ buffer' = Grown([buffer EXCEPT !.size = @ + Returned,
                                    !.seen = @ \cup {text[fd].version}])
  /\ Quiet /\ UNCHANGED <<pc, fd, st, history>>

\* Any other is the last.  What is no whole text may be no configuration:
\* parse_error, or a NULL in sec.names that resolve_path dereferences.
ReadLast ==
  LET seen == IF Returned > 0 THEN buffer.seen \cup {text[fd].version}
              ELSE buffer.seen
      whole == /\ seen = {text[fd].version} /\ text[fd].version \in written
               /\ buffer.size + Returned = text[fd].len
  IN  /\ pc = "read"
      /\ Returned = 0 \/ buffer.size + Returned # buffer.max
      /\ buffer' = [buffer EXCEPT !.size = @ + Returned, !.seen = seen]
      /\ pc' \in {"fstat"} \cup (IF whole THEN {} ELSE {"failed"})
      /\ seen = {} => pc' = "failed"
      /\ Quiet /\ UNCHANGED <<fd, st, history>>

Stat(i) == [ino |-> i, mtime |-> time[i].mtime, ctime |-> time[i].ctime]

\* Mutant: the stat of the first round is kept.
FstatOnce ==
  /\ pc = "fstat"
  /\ pc' = "restat"
  /\ st' = IF st = NoStat THEN Stat(fd) ELSE st
  /\ Quiet /\ UNCHANGED <<fd, buffer, history>>

Fstat ==
  /\ pc = "fstat"
  /\ pc' = "restat"
  /\ st' = Stat(fd)
  /\ Quiet /\ UNCHANGED <<fd, buffer, history>>

\* Mutant: times are enough.
file_altered_times(st2) == st2.ctime # st.ctime \/ st2.mtime # st.mtime
file_altered(st2) ==
  st2.ctime # st.ctime \/ st2.mtime # st.mtime \/ st2.ino # st.ino

\* The lock is taken.  If stat fails, st2 is whatever the stack holds.
Altered ==
  /\ pc = "restat"
  /\ Current # None => file_altered(Stat(Current))
  /\ pc' = "open" /\ fd' = None
  /\ Quiet /\ UNCHANGED <<buffer, st, history>>

Unaltered ==
  /\ pc = "restat"
  /\ Current # None => ~file_altered(Stat(Current))
  /\ pc' = "run"
  /\ Quiet /\ UNCHANGED <<fd, buffer, st, history>>

\* The command is run, or the call has died; another one comes.
Ends ==
  /\ pc \in {"run", "failed"}
  /\ pc' = "idle" /\ fd' = None /\ buffer' = NoBuffer /\ st' = NoStat
  /\ touched' = FALSE /\ raced' = FALSE
  /\ Quiet

-----------------------------------------------------------------------------
(* The others.  Each change makes a new version.                           *)

Edited ==
  /\ edits < MaxEdits
  /\ edits' = edits + 1
  /\ touched' = TRUE
  /\ UNCHANGED <<now, call>>

\* The open file changes while it is read, between read and fstat, or in the
\* second that its ctime already says.
Races(i) ==
  /\ i = fd
  /\ \/ pc = "read" /\ buffer.size > 0
     \/ pc = "fstat"
     \/ pc = "restat" /\ st.ctime = now

\* Inode i holds a new text; the kernel sets ctime, the writer may set mtime.
Put(i, len, mtime) ==
  /\ text' = [text EXCEPT ![i] = [version |-> edits + 1, len |-> len]]
  /\ time' = [time EXCEPT ![i] = [mtime |-> mtime, ctime |-> now]]
  /\ raced' = (raced \/ Races(i))

\* A file nobody names or has open; only such a one can be a new file.
Fresh(i) == i # fd /\ \A n \in Name : entry[n] # i

\* An editor saves in place: open(O_TRUNC), writes, and perhaps utime.
Truncate ==
  /\ Edited
  /\ writing = None
  /\ \E n \in Name :
       /\ entry[n] # None
       /\ Put(entry[n], 0, now)
       /\ writing' = entry[n]
  /\ UNCHANGED <<written, links>>

Extend ==
  /\ Edited
  /\ writing # None
  /\ text[writing].len < MaxLen
  /\ Put(writing, text[writing].len + 1, now)
  /\ UNCHANGED <<written, writing, links>>

Finish ==
  /\ Edited
  /\ writing # None
  /\ \E len \in 1 .. MaxLen, mtime \in {0, now} :
       len >= text[writing].len /\ Put(writing, len, mtime)
  /\ written' = written \cup {edits + 1}
  /\ writing' = None
  /\ init' = IF init = "writing" THEN "link" ELSE init
  /\ UNCHANGED <<entry, link, applet>>

\* An editor saves a new file and renames it.
Rename ==
  /\ Edited
  /\ \E i \in Inode, n \in Name, len \in 1 .. MaxLen :
       /\ Fresh(i) /\ i # writing
       /\ entry[n] # None
       /\ Put(i, len, now)
       /\ entry' = [entry EXCEPT ![n] = i]
  /\ written' = written \cup {edits + 1}
  /\ UNCHANGED <<writing, link, applet, init>>

\* The applet's set_config: os.access follows the link, so a link that
\* dangles is not removed, and os.symlink fails.
AppletUnlink ==
  /\ Edited
  /\ applet = None
  /\ applet' \in Name
  /\ link' = IF Current # None THEN None ELSE link
  /\ UNCHANGED <<files, entry, init, raced>>

AppletSymlink ==
  /\ Edited
  /\ applet # None
  /\ link' = IF link = None THEN applet ELSE link
  /\ applet' = None
  /\ UNCHANGED <<files, entry, init, raced>>

\* ccontrol-init moves an old profile away, writes the new one line by line,
\* and makes the link if there is none.
InitMove ==
  /\ Edited
  /\ init = "idle" /\ writing = None
  /\ entry' = [entry EXCEPT ![Default] = None]
  /\ init' = "create"
  /\ UNCHANGED <<files, link, applet, raced>>

InitCreate ==
  /\ Edited
  /\ init = "create" /\ writing = None
  /\ \E i \in Inode :
       /\ Fresh(i)
       /\ Put(i, 1, now)
       /\ entry' = [entry EXCEPT ![Default] = i]
       /\ writing' = i
  /\ init' = "writing"
  /\ UNCHANGED <<written, link, applet>>

InitLink ==
  /\ Edited
  /\ init = "link"
  /\ link' = IF link = None THEN Default ELSE link
  /\ init' = "idle"
  /\ UNCHANGED <<files, entry, applet, raced>>

Tick ==
  /\ now < MaxTime
  /\ now' = now + 1
  /\ UNCHANGED <<edits, files, links, call, history>>

Main == Open \/ ReadMore \/ ReadLast \/ Fstat \/ Altered \/ Unaltered \/ Ends
Others ==
  \/ Truncate \/ Extend \/ Finish \/ Rename
  \/ AppletUnlink \/ AppletSymlink \/ InitMove \/ InitCreate \/ InitLink

Next == Call \/ Main \/ Others \/ Tick

\* The kernel runs a call that can run; nobody else need do anything.
Spec == Init /\ [][Next]_vars /\ WF_vars(Main)

-----------------------------------------------------------------------------
(* Properties.                                                             *)

Label == {"idle", "open", "read", "fstat", "restat", "run", "failed"}

\* Types; no file is from the future, and a call that reads has a file open.
TypeOK ==
  /\ now \in Nat /\ edits \in Nat
  /\ text \in [Inode -> Text] /\ written \subseteq Nat
  /\ time \in [Inode -> Time] /\ \A i \in Inode : time[i].ctime <= now
  /\ entry \in [Name -> Inode \cup {None}]
  /\ link \in Name \cup {None} /\ applet \in Name \cup {None}
  /\ writing \in Inode \cup {None}
  /\ init \in {"idle", "create", "writing", "link"}
  /\ pc \in Label
  /\ fd \in Inode \cup {None}
  /\ pc \in {"read", "fstat", "restat"} => fd \in Inode
  /\ buffer \in [size : Nat, max : Nat, cap : Nat, seen : SUBSET Nat]
  /\ st \in [ino : Inode \cup {None}, mtime : Nat, ctime : Nat]
  /\ touched \in BOOLEAN /\ raced \in BOOLEAN

\* suck_file never reads past its buffer, nor ends it there: "This version
\* adds one byte (for nul term)" (stdrusty.c:80), which realloc then forgets.
BufferFits ==
  /\ buffer.size <= buffer.max /\ buffer.max <= buffer.cap
  /\ buffer.size < buffer.cap

\* What a call has read is the text of the file, whole and of one version.
HasRead(i) == buffer.seen = {text[i].version} /\ buffer.size = text[i].len

\* A command runs with the configuration in force when it gets its lock:
\* "ccontrol re-reads the config file if it changed while ccontrol was trying
\* to grab a lock" (ccontrol.1.txt:226).  But for two windows, which the
\* history variable raced marks, whoever changes whatever in the meantime:
\* the file changed before its fstat, or in the same second as before; and
\* but for a link that is gone when it is looked at.
RunsWithCurrent ==
  [][pc = "restat" /\ pc' = "run" /\ ~raced /\ Current # None
       => HasRead(Current)]_vars

\* A call begins again only if something changed since it opened the file.
RestartsOnChange == [][pc = "restat" /\ pc' = "open" => touched]_vars

\* A call that has read the configuration gets to run, or fails, however
\* often it has to begin again.
Decides == pc = "open" ~> pc \in {"run", "failed"}

(***************************************************************************)
(* The inductive invariant the theorems rest on.                           *)
(***************************************************************************)

\* A full buffer has grown before the next read.
BufferRoom == buffer.size < buffer.max /\ buffer.max <= buffer.cap

\* What has been read is a beginning, then the whole, of the open file, and
\* remains so until its ctime moves on or the call has lost the race.
ReadKnows ==
  /\ pc = "read" =>
       \/ raced
       \/ buffer.size = 0 /\ buffer.seen = {}
       \/ /\ buffer.size \in 1 .. text[fd].len
          /\ buffer.seen = {text[fd].version}
  /\ pc = "fstat" => raced \/ HasRead(fd)
  /\ pc = "restat" =>
       /\ st.ino = fd /\ st.ctime <= now
       /\ raced \/ st.ctime # time[fd].ctime \/ HasRead(fd)

\* While nobody touches anything, the config is the file that is open.
Untouched ==
  ~touched => /\ pc \in {"read", "fstat", "restat"} => fd = Current
              /\ pc = "restat" => st = Stat(fd)

IndInv ==
  /\ TypeOK
  /\ BufferRoom
  /\ ReadKnows
  /\ Untouched
=============================================================================
